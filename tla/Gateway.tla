------------------------------ MODULE Gateway ------------------------------
(***************************************************************************)
(* The gateway of one processor (sw-src/dataplane/gateway.h).              *)
(*                                                                         *)
(* A gateway holds a vector of relational expressions, a map from the      *)
(* bitmap of their outcomes to the next operation, and a default           *)
(* operation.  Expression i gives bit 7 - i of the bitmap, here a set of   *)
(* bit numbers.  execute() evaluates one expression for every unit of the  *)
(* vector's capacity, not of its size: clear() keeps the storage, and      *)
(* push_back leaves uninitialised cells behind the last element.           *)
(*                                                                         *)
(* The thread of the gRPC server changes the gateway while the packet      *)
(* thread executes it; no lock is taken.                                   *)
(***************************************************************************)
EXTENDS Integers, Sequences

CONSTANTS
    MaxExp,     \* the bits of the bitmap; at most as many expressions
    Exp,        \* the expressions the controller sends
    Junk,       \* what an uninitialised cell of the vector holds
    Packet,     \* packets as a gateway sees them: valid bits, hit, fields
    MaxWord,    \* the largest uint32_t
    MapKey,     \* the bitmaps the controller has operations for
    GateEntry,  \* the operations: run a table, or go to a stage
    NullEntry,  \* GateEntry{}: run table 0
    NoExp       \* no expression is being inserted

Bitmap == SUBSET (0 .. MaxExp - 1)
Cell == 0 .. MaxExp - 1

ASSUME BoundAssumption == MaxExp \in Nat \ {0}

ASSUME EntryAssumption ==
    /\ Junk \notin Exp
    /\ MapKey \subseteq Bitmap
    /\ NullEntry \in GateEntry

VARIABLES
    cells,          \* the storage of exps
    size, cap,      \* exps.size() and exps.capacity()
    default_entry,
    res_next,
    pc, new,        \* the handler that is running
    list,           \* history: the expressions inserted since clear()
    table,          \* history: the operations set since the map was cleared
    pp, phv, i, bitmap, next_op,    \* the execution that is running
    quiet           \* history: no handler met the running execution

expVars == <<cells, size, cap, list>>
mapVars == <<res_next, table>>
pktVars == <<pp, phv, i, bitmap, next_op>>
vars == <<expVars, default_entry, mapVars, pc, new, pktVars, quiet>>

-----------------------------------------------------------------------------
(***************************************************************************)
(* What an expression says of a packet.                                    *)
(***************************************************************************)
get_value(param, p) ==
    CASE param.type = "CONST" -> param.val
      [] param.type = "FIELD" -> p.field[param.fd]
      [] param.type = "VALID" -> p.valid[param.hdr]
      [] param.type = "HIT"   -> p.hit
      [] param.type = "MISS"  -> MaxWord - p.hit     \* ~hit, of 32 bits

Compare(relation, a, b) ==
    CASE relation = "GT"  -> a > b
      [] relation = "GTE" -> a >= b
      [] relation = "LT"  -> a < b
      [] relation = "LTE" -> a <= b
      [] relation = "EQ"  -> a = b
      [] relation = "NEQ" -> a # b

Holds(e, p) == Compare(e.relation, get_value(e.param1, p), get_value(e.param2, p))

BitOf(j) == MaxExp - 1 - j

-----------------------------------------------------------------------------
EmptyMap == [k \in {} |-> NullEntry]

(* The constructor sets the bitmap only.                                   *)
Init ==
    /\ cells = [j \in Cell |-> Junk] /\ size = 0 /\ cap = 0 /\ list = <<>>
    /\ default_entry \in GateEntry
    /\ res_next = EmptyMap /\ table = EmptyMap
    /\ pc = "idle" /\ new = NoExp
    /\ pp = "idle" /\ phv \in Packet /\ i = 0 /\ bitmap = {} /\ next_op = NullEntry
    /\ quiet = TRUE

(* The start of a handler, seen by the packet that is in the gateway.      *)
Disturb == quiet' = (quiet /\ pp = "idle")

(* The mapping f with k mapped to v.                                       *)
Put(f, k, v) == [x \in DOMAIN f \cup {k} |-> IF x = k THEN v ELSE f[x]]

(***************************************************************************)
(* The handlers.                                                           *)
(***************************************************************************)

(* push_back within the capacity; the full vector takes another step.      *)
insert_exp(e) ==
    /\ pc = "idle" /\ size < MaxExp
    /\ IF size < cap
       THEN /\ cells' = [cells EXCEPT ![size] = e]
            /\ size' = size + 1
            /\ list' = Append(list, e)
            /\ UNCHANGED <<cap, pc, new>>
       ELSE pc' = "grow" /\ new' = e /\ UNCHANGED expVars
    /\ Disturb
    /\ UNCHANGED <<default_entry, mapVars, pktVars>>

(* Mutant: growth by a half, which does not grow a vector of one.          *)
CapacityByHalf(n) == IF n = 0 THEN 1 ELSE n + (n \div 2)

Capacity(n) == IF n = 0 THEN 1 ELSE IF 2 * n > MaxExp THEN MaxExp ELSE 2 * n

(* Mutant: the elements are not moved to the new storage.                  *)
GrowWithoutCopy ==
    /\ pc = "grow"
    /\ cap' = Capacity(cap)
    /\ cells' = [j \in Cell |-> IF j = size THEN new ELSE Junk]
    /\ size' = size + 1
    /\ list' = Append(list, new)
    /\ pc' = "idle" /\ new' = NoExp
    /\ UNCHANGED <<default_entry, mapVars, pktVars, quiet>>

(* push_back of a full vector: between the two steps the old storage has   *)
(* been freed and the vector's pointers are not consistent.                *)
Grow ==
    /\ pc = "grow"
    /\ cap' = Capacity(cap)
    /\ cells' = [j \in Cell |-> IF j < size THEN cells[j] ELSE IF j = size THEN new ELSE Junk]
    /\ size' = size + 1
    /\ list' = Append(list, new)
    /\ pc' = "idle" /\ new' = NoExp
    /\ UNCHANGED <<default_entry, mapVars, pktVars, quiet>>

(* clear(): the default operation, the expressions, whose storage stays,   *)
(* and then the map.                                                       *)
clear ==
    /\ pc = "idle"
    /\ default_entry' = NullEntry
    /\ size' = 0 /\ list' = <<>>
    /\ pc' = "clear"
    /\ Disturb
    /\ UNCHANGED <<cells, cap, mapVars, new, pktVars>>

(* Mutant: clear() leaves the map.                                         *)
ClearMapNot ==
    /\ pc = "clear"
    /\ table' = EmptyMap
    /\ pc' = "idle"
    /\ UNCHANGED <<expVars, res_next, default_entry, new, pktVars, quiet>>

ClearMap ==
    /\ pc = "clear"
    /\ res_next' = EmptyMap /\ table' = EmptyMap
    /\ pc' = "idle"
    /\ UNCHANGED <<expVars, default_entry, new, pktVars, quiet>>

clear_res_next ==
    /\ pc = "idle"
    /\ res_next' = EmptyMap /\ table' = EmptyMap
    /\ Disturb
    /\ UNCHANGED <<expVars, default_entry, pc, new, pktVars>>

modify_res_map(k, g) ==
    /\ pc = "idle"
    /\ res_next' = Put(res_next, k, g)
    /\ table' = Put(table, k, g)
    /\ Disturb
    /\ UNCHANGED <<expVars, default_entry, pc, new, pktVars>>

set_default_entry(g) ==
    /\ pc = "idle"
    /\ default_entry' = g
    /\ Disturb
    /\ UNCHANGED <<expVars, mapVars, pc, new, pktVars>>

-----------------------------------------------------------------------------
(***************************************************************************)
(* execute(), by the packet thread.                                        *)
(***************************************************************************)
execute(p) ==
    /\ pp = "idle"
    /\ pp' = "eval" /\ phv' = p /\ i' = 0
    /\ quiet' = (pc = "idle")
    /\ UNCHANGED <<expVars, default_entry, mapVars, pc, new, bitmap, next_op>>

(* Mutant: the bits are numbered from the other end.                       *)
AddBitFromRight(b) == bitmap' = IF b THEN bitmap \cup {i} ELSE bitmap

AddBit(b) == bitmap' = IF b THEN bitmap \cup {BitOf(i)} ELSE bitmap

Evaluate ==
    /\ pp = "eval" /\ pc # "grow" /\ i < cap
    /\ cells[i] # Junk
    /\ AddBit(Holds(cells[i], phv))
    /\ i' = i + 1
    /\ UNCHANGED <<expVars, default_entry, mapVars, pc, new, pp, phv, next_op, quiet>>

(* A pointer read from an uninitialised or freed cell gives any bit ...    *)
EvaluateJunk ==
    /\ pp = "eval"
    /\ \/ pc = "grow" /\ i < MaxExp
       \/ i < cap /\ cells[i] = Junk
    /\ \E b \in BOOLEAN : AddBit(b)
    /\ i' = i + 1
    /\ UNCHANGED <<expVars, default_entry, mapVars, pc, new, pp, phv, next_op, quiet>>

(* ... or kills the process.                                               *)
Crash ==
    /\ pp = "eval"
    /\ \/ pc = "grow"
       \/ i < cap /\ cells[i] = Junk
    /\ pp' = "dead" /\ pc' = "dead"
    /\ UNCHANGED <<expVars, default_entry, mapVars, new, phv, i, bitmap, next_op, quiet>>

EndLoop ==
    /\ pp = "eval"
    /\ i >= cap \/ pc = "grow"
    /\ pp' = "find"
    /\ UNCHANGED <<expVars, default_entry, mapVars, pc, new, phv, i, bitmap, next_op, quiet>>

Find ==
    /\ pp = "find"
    /\ IF bitmap \in DOMAIN res_next
       THEN pp' = "get" /\ UNCHANGED <<bitmap, next_op>>
       ELSE pp' = "done" /\ next_op' = default_entry /\ bitmap' = {}
    /\ UNCHANGED <<expVars, default_entry, mapVars, pc, new, phv, i, quiet>>

(* operator[] inserts a null operation if the key has gone meanwhile.      *)
Get ==
    /\ pp = "get"
    /\ IF bitmap \in DOMAIN res_next
       THEN next_op' = res_next[bitmap] /\ UNCHANGED res_next
       ELSE next_op' = NullEntry /\ res_next' = Put(res_next, bitmap, NullEntry)
    /\ pp' = "done" /\ bitmap' = {}
    /\ UNCHANGED <<expVars, default_entry, table, pc, new, phv, i, quiet>>

(* The map is being changed by a handler while it is searched, which may   *)
(* kill the process.                                                       *)
MapRace ==
    /\ pp \in {"find", "get"} /\ pc \in {"idle", "clear"}
    /\ pp' = "dead" /\ pc' = "dead" /\ quiet' = FALSE
    /\ UNCHANGED <<expVars, default_entry, mapVars, new, phv, i, bitmap, next_op>>

(* The processor acts on next_op and the packet leaves the gateway.        *)
Return ==
    /\ pp = "done"
    /\ pp' = "idle" /\ i' = 0 /\ next_op' = NullEntry /\ quiet' = TRUE
    /\ UNCHANGED <<expVars, default_entry, mapVars, pc, new, phv, bitmap>>

-----------------------------------------------------------------------------
Handler ==
    \/ \E e \in Exp : insert_exp(e)
    \/ Grow
    \/ clear
    \/ ClearMap
    \/ clear_res_next
    \/ \E k \in MapKey, g \in GateEntry : modify_res_map(k, g)
    \/ \E g \in GateEntry : set_default_entry(g)

Execution ==
    \/ \E p \in Packet : execute(p)
    \/ Evaluate
    \/ EvaluateJunk
    \/ Crash
    \/ EndLoop
    \/ Find
    \/ Get
    \/ MapRace
    \/ Return

Next == Handler \/ Execution

Spec == Init /\ [][Next]_vars

-----------------------------------------------------------------------------
(***************************************************************************)
(* Properties.                                                             *)
(***************************************************************************)

(* The variables have the types of gateway.h's members and locals.         *)
TypeOK ==
    /\ cells \in [Cell -> Exp \cup {Junk}]
    /\ size \in 0 .. MaxExp /\ cap \in 0 .. MaxExp /\ size <= cap
    /\ default_entry \in GateEntry
    /\ DOMAIN res_next \subseteq Bitmap /\ DOMAIN table \subseteq MapKey
    /\ \A k \in DOMAIN res_next : res_next[k] \in GateEntry
    /\ \A k \in DOMAIN table : table[k] \in GateEntry
    /\ pc \in {"idle", "grow", "clear", "dead"}
    /\ pc = "grow" => new \in Exp /\ size = cap /\ size < MaxExp
    /\ list \in Seq(Exp)
    /\ pp \in {"idle", "eval", "find", "get", "done", "dead"}
    /\ phv \in Packet
    /\ i \in 0 .. MaxExp
    /\ bitmap \in Bitmap
    /\ next_op \in GateEntry
    /\ quiet \in BOOLEAN

(* The outcome of the expressions inserted since the gateway was cleared.  *)
Outcome(p) == {BitOf(j) : j \in {l \in 0 .. Len(list) - 1 : Holds(list[l + 1], p)}}

(* What the configuration asks for.                                        *)
Decision(p) == IF Outcome(p) \in DOMAIN table THEN table[Outcome(p)] ELSE default_entry

(* A packet that no handler met gets the operation the configuration asks  *)
(* for, whatever the order in which the gateway was cleared and filled,    *)
(* provided the vector has no spare cell and the map no entry that a       *)
(* packet left there (Gateway::execute).                                   *)
QuietDecision ==
    /\ pp = "done" /\ quiet
    /\ size = cap
    /\ DOMAIN res_next = DOMAIN table
    => next_op = Decision(phv)

(* A packet that no handler met kills the process only through a spare     *)
(* cell of the vector (the loop of Gateway::execute to exps.capacity()).   *)
QuietNoCrash == pp = "dead" /\ quiet => size < cap

(* The map holds the operations that were set since it was cleared, and    *)
(* besides them only null operations, those which execute() inserts when   *)
(* its key is cleared between its find() and its operator[].               *)
MapKept ==
    /\ DOMAIN table \subseteq DOMAIN res_next
    /\ \A k \in DOMAIN res_next :
          res_next[k] = IF k \in DOMAIN table THEN table[k] ELSE NullEntry

(* rP4-compiler/testcases/README.md: an update clears the gateway first,   *)
(* then inserts.  So after an update a packet must follow the new          *)
(* configuration alone.  It need not: clear() keeps the capacity, and      *)
(* execute() still evaluates the expressions of the old configuration.     *)
ClearedDecision ==
    /\ pp = "done" /\ quiet
    /\ DOMAIN res_next = DOMAIN table
    => next_op = Decision(phv)
=============================================================================
