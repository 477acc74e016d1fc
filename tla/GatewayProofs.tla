--------------------------- MODULE GatewayProofs ---------------------------
(***************************************************************************)
(* The inductive invariant of Gateway and the proofs of its properties.    *)
(***************************************************************************)
EXTENDS Gateway, TLAPS

(* The storage below the size holds the expressions that were inserted.    *)
ListInv ==
    /\ Len(list) = size
    /\ \A j \in 0 .. size - 1 : cells[j] = list[j + 1]

(* The bits that the first n expressions of a list give for a packet.      *)
OutcomeOf(l, p, n) == {BitOf(j) : j \in {m \in 0 .. n - 1 : Holds(l[m + 1], p)}}

(* What an execution that no handler has met has computed so far.          *)
LoopInv ==
    /\ pp \in {"idle", "done"} => bitmap = {}
    /\ quiet /\ pp \in {"eval", "find", "get", "done"} => pc = "idle"
    /\ quiet /\ pp \in {"eval", "find", "get"} /\ size = cap =>
         i <= size /\ bitmap = OutcomeOf(list, phv, i)
    /\ quiet /\ pp \in {"find", "get"} => i >= cap
    /\ quiet /\ pp = "get" => bitmap \in DOMAIN res_next

(* The process dies in the packet thread and takes the server with it.     *)
DeadInv == pc = "dead" <=> pp = "dead"

Inv ==
    /\ TypeOK
    /\ DeadInv
    /\ ListInv
    /\ MapKept
    /\ LoopInv
    /\ QuietDecision
    /\ QuietNoCrash

-----------------------------------------------------------------------------
(* A mapping changed at one key (res_next[k] = v) has that key and is the  *)
(* old one elsewhere.                                                      *)
LEMMA PutFacts ==
    ASSUME NEW f, NEW k, NEW v
    PROVE  /\ DOMAIN Put(f, k, v) = DOMAIN f \cup {k}
           /\ Put(f, k, v)[k] = v
           /\ \A x \in DOMAIN f : x # k => Put(f, k, v)[x] = f[x]
  BY DEF Put

(* ... and it maps into any set that f and the new value map into.         *)
LEMMA PutType ==
    ASSUME NEW f, NEW k, NEW v, NEW S, NEW T,
           DOMAIN f \subseteq S, \A x \in DOMAIN f : f[x] \in T, k \in S, v \in T
    PROVE  /\ DOMAIN Put(f, k, v) \subseteq S
           /\ \A x \in DOMAIN Put(f, k, v) : Put(f, k, v)[x] \in T
  BY DEF Put

(* A vector that push_back enlarges has room for one more element and      *)
(* stays within the bitmap's width.                                        *)
LEMMA CapacityFacts ==
    ASSUME NEW n \in 0 .. MaxExp, n < MaxExp
    PROVE  Capacity(n) \in 0 .. MaxExp /\ n + 1 <= Capacity(n)
  BY BoundAssumption DEF BoundAssumption, Capacity

(* The bit of an expression, 7 - i in execute(), is a bit of the bitmap.   *)
LEMMA BitInRange ==
    ASSUME NEW n \in 0 .. MaxExp, n < MaxExp
    PROVE  BitOf(n) \in 0 .. MaxExp - 1
  BY BoundAssumption DEF BoundAssumption, BitOf

(* A new bit keeps the bitmap a bitmap.                                    *)
LEMMA AddBitType ==
    ASSUME TypeOK, i < MaxExp, NEW b, AddBit(b)
    PROVE  bitmap' \in Bitmap
<1>1. BitOf(i) \in 0 .. MaxExp - 1
  BY BitInRange DEF TypeOK
<1> QED
  BY <1>1 DEF AddBit, TypeOK, Bitmap

(* The constructor's state has the types of the members.                   *)
LEMMA TypeInit == Init => TypeOK
  BY BoundAssumption, EntryAssumption
  DEF Init, TypeOK, BoundAssumption, EntryAssumption, Bitmap, EmptyMap

(* Every step of a handler or of execute() keeps the types.                *)
LEMMA TypeStep == TypeOK /\ [Next]_vars => TypeOK'
<1> SUFFICES ASSUME TypeOK, [Next]_vars
             PROVE  TypeOK'
  OBVIOUS
<1> USE BoundAssumption, EntryAssumption DEF BoundAssumption, EntryAssumption
<1>1. ASSUME NEW e \in Exp, insert_exp(e) PROVE TypeOK'
  <2>1. CASE size < cap
    <3>1. cells' \in [Cell -> Exp \cup {Junk}]
      BY <1>1, <2>1 DEF insert_exp, TypeOK
    <3>2. list' \in Seq(Exp)
      BY <1>1, <2>1 DEF insert_exp, TypeOK
    <3>3. size' \in 0 .. MaxExp /\ size' <= cap'
      BY <1>1, <2>1 DEF insert_exp, TypeOK
    <3> QED
      BY <1>1, <2>1, <3>1, <3>2, <3>3 DEF insert_exp, TypeOK, mapVars, pktVars, Disturb
  <2>2. CASE ~(size < cap)
    BY <1>1, <2>2 DEF insert_exp, TypeOK, expVars, mapVars, pktVars, Disturb
  <2> QED
    BY <2>1, <2>2
<1>2. CASE Grow
  <2>1. Capacity(cap) \in 0 .. MaxExp /\ cap + 1 <= Capacity(cap)
    BY <1>2, CapacityFacts DEF Grow, TypeOK
  <2>2. cells' \in [Cell -> Exp \cup {Junk}] /\ list' \in Seq(Exp)
    BY <1>2 DEF Grow, TypeOK, Cell
  <2> QED
    BY <1>2, <2>1, <2>2 DEF Grow, TypeOK, mapVars, pktVars
<1>3. CASE clear
  BY <1>3 DEF clear, TypeOK, mapVars, pktVars, Disturb
<1>4. CASE ClearMap
  BY <1>4 DEF ClearMap, TypeOK, expVars, pktVars, EmptyMap
<1>5. CASE clear_res_next
  BY <1>5 DEF clear_res_next, TypeOK, expVars, pktVars, EmptyMap, Disturb
<1>6. ASSUME NEW k \in MapKey, NEW g \in GateEntry, modify_res_map(k, g) PROVE TypeOK'
  <2>1. /\ DOMAIN res_next' \subseteq Bitmap /\ DOMAIN table' \subseteq MapKey
        /\ \A x \in DOMAIN res_next' : res_next'[x] \in GateEntry
        /\ \A x \in DOMAIN table' : table'[x] \in GateEntry
    <3>1. /\ DOMAIN Put(res_next, k, g) \subseteq Bitmap
          /\ \A x \in DOMAIN Put(res_next, k, g) : Put(res_next, k, g)[x] \in GateEntry
      BY PutType DEF TypeOK
    <3>2. /\ DOMAIN Put(table, k, g) \subseteq MapKey
          /\ \A x \in DOMAIN Put(table, k, g) : Put(table, k, g)[x] \in GateEntry
      BY PutType DEF TypeOK
    <3> QED
      BY <1>6, <3>1, <3>2 DEF modify_res_map
  <2> QED
    BY <1>6, <2>1 DEF modify_res_map, TypeOK, expVars, pktVars, Disturb
<1>7. ASSUME NEW g \in GateEntry, set_default_entry(g) PROVE TypeOK'
  BY <1>7 DEF set_default_entry, TypeOK, expVars, mapVars, pktVars, Disturb
<1>8. ASSUME NEW p \in Packet, execute(p) PROVE TypeOK'
  BY <1>8 DEF execute, TypeOK, expVars, mapVars
<1>9. CASE Evaluate
  <2>1. i < MaxExp
    BY <1>9 DEF Evaluate, TypeOK
  <2>2. bitmap' \in Bitmap
    BY <1>9, <2>1, AddBitType DEF Evaluate
  <2> QED
    BY <1>9, <2>1, <2>2 DEF Evaluate, TypeOK, expVars, mapVars
<1>10. CASE EvaluateJunk
  <2>1. i < MaxExp
    BY <1>10 DEF EvaluateJunk, TypeOK
  <2>2. bitmap' \in Bitmap
    BY <1>10, <2>1, AddBitType DEF EvaluateJunk
  <2> QED
    BY <1>10, <2>1, <2>2 DEF EvaluateJunk, TypeOK, expVars, mapVars
<1>11. CASE Crash
  BY <1>11 DEF Crash, TypeOK, expVars, mapVars
<1>11a. CASE MapRace
  BY <1>11a DEF MapRace, TypeOK, expVars, mapVars
<1>12. CASE EndLoop
  BY <1>12 DEF EndLoop, TypeOK, expVars, mapVars
<1>13. CASE Find
  BY <1>13 DEF Find, TypeOK, expVars, mapVars, Bitmap
<1>14. CASE Get
  <2>1. CASE bitmap \in DOMAIN res_next
    BY <1>14, <2>1 DEF Get, TypeOK, expVars, Bitmap
  <2>2. CASE bitmap \notin DOMAIN res_next
    <3>1. /\ DOMAIN Put(res_next, bitmap, NullEntry) \subseteq Bitmap
          /\ \A x \in DOMAIN Put(res_next, bitmap, NullEntry) :
                Put(res_next, bitmap, NullEntry)[x] \in GateEntry
      BY PutType DEF TypeOK
    <3>2. /\ DOMAIN res_next' \subseteq Bitmap
          /\ \A x \in DOMAIN res_next' : res_next'[x] \in GateEntry
      BY <1>14, <2>2, <3>1 DEF Get
    <3> QED
      BY <1>14, <2>2, <3>2 DEF Get, TypeOK, expVars, Bitmap
  <2> QED
    BY <2>1, <2>2
<1>15. CASE Return
  BY <1>15 DEF Return, TypeOK, expVars, mapVars
<1>16. CASE UNCHANGED vars
  BY <1>16 DEF vars, TypeOK, expVars, mapVars, pktVars
<1> QED
  BY <1>1, <1>2, <1>3, <1>4, <1>5, <1>6, <1>7, <1>8, <1>9, <1>10, <1>11, <1>11a,
     <1>12, <1>13, <1>14, <1>15, <1>16 DEF Next, Handler, Execution

(* The gateway's members and locals keep their types.                      *)
THEOREM TypeCorrect == Spec => []TypeOK
  BY TypeInit, TypeStep, PTL DEF Spec

-----------------------------------------------------------------------------
(* An empty vector holds the empty list of expressions.                    *)
LEMMA ListInit == Init => ListInv
  BY DEF Init, ListInv

(* insert_exp and clear() keep the cells below the size equal to the       *)
(* expressions inserted.                                                   *)
LEMMA ListStep == TypeOK /\ ListInv /\ [Next]_vars => ListInv'
<1> SUFFICES ASSUME TypeOK, ListInv, [Next]_vars
             PROVE  ListInv'
  OBVIOUS
<1> USE BoundAssumption DEF BoundAssumption
<1>1. ASSUME NEW e \in Exp, insert_exp(e), size < cap PROVE ListInv'
  <2>1. Len(list') = size' /\ list'[size + 1] = e
    BY <1>1 DEF insert_exp, TypeOK, ListInv
  <2>2. cells'[size] = e
    BY <1>1 DEF insert_exp, TypeOK, Cell
  <2>3. ASSUME NEW j \in 0 .. size - 1 PROVE cells'[j] = list'[j + 1]
    <3> j \in Cell /\ j # size
      BY DEF TypeOK, Cell
    <3>1. cells'[j] = cells[j]
      BY <1>1 DEF insert_exp, TypeOK
    <3>2. list'[j + 1] = list[j + 1]
      BY <1>1 DEF insert_exp, TypeOK, ListInv
    <3> QED
      BY <3>1, <3>2 DEF ListInv
  <2>4. size' = size + 1 /\ size \in Nat
    BY <1>1 DEF insert_exp, TypeOK
  <2> QED
    BY <2>1, <2>2, <2>3, <2>4 DEF ListInv
<1>2. CASE Grow
  <2>1. Len(list') = size' /\ list'[size + 1] = new
    BY <1>2 DEF Grow, TypeOK, ListInv
  <2>2. size \in Cell /\ size < MaxExp
    BY <1>2 DEF Grow, TypeOK, Cell
  <2>3. cells'[size] = new
    BY <1>2, <2>2 DEF Grow, Cell
  <2>4. \A j \in 0 .. size - 1 : cells'[j] = cells[j] /\ list'[j + 1] = list[j + 1]
    BY <1>2, <2>2 DEF Grow, TypeOK, ListInv, Cell
  <2>5. size' = size + 1 /\ size \in Nat
    BY <1>2 DEF Grow, TypeOK
  <2> QED
    BY <2>1, <2>3, <2>4, <2>5 DEF ListInv
<1>3. CASE clear
  BY <1>3 DEF clear, ListInv
<1>4. ASSUME UNCHANGED expVars PROVE ListInv'
  BY <1>4 DEF expVars, ListInv
<1>5. ASSUME NEW e \in Exp, insert_exp(e), ~(size < cap) PROVE UNCHANGED expVars
  BY <1>5 DEF insert_exp
<1> QED
  BY <1>1, <1>2, <1>3, <1>4, <1>5
  DEF Next, Handler, Execution, ClearMap, clear_res_next, modify_res_map,
      set_default_entry, execute, Evaluate, EvaluateJunk, Crash, EndLoop, Find,
      Get, MapRace, Return, vars

(* The empty map holds what was set: nothing.                              *)
LEMMA MapInit == Init => MapKept
  BY DEF Init, MapKept, EmptyMap

(* modify_res_map, the clearing of the map and operator[] in execute()     *)
(* keep MapKept.                                                           *)
LEMMA MapStep == MapKept /\ [Next]_vars => MapKept'
<1> SUFFICES ASSUME MapKept, [Next]_vars
             PROVE  MapKept'
  OBVIOUS
<1>1. ASSUME res_next' = EmptyMap, table' = EmptyMap PROVE MapKept'
  BY <1>1 DEF MapKept, EmptyMap
<1>2. ASSUME NEW k, NEW g, res_next' = Put(res_next, k, g), table' = Put(table, k, g)
      PROVE  MapKept'
  BY <1>2 DEF MapKept, Put
<1>3. CASE Get
  <2>1. CASE bitmap \in DOMAIN res_next
    BY <1>3, <2>1 DEF Get, MapKept
  <2>2. CASE bitmap \notin DOMAIN res_next
    <3>1. bitmap \notin DOMAIN table
      BY <2>2 DEF MapKept
    <3>2. res_next' = Put(res_next, bitmap, NullEntry) /\ table' = table
      BY <1>3, <2>2 DEF Get
    <3> QED
      BY <3>1, <3>2 DEF MapKept, Put
  <2> QED
    BY <2>1, <2>2
<1>4. ASSUME UNCHANGED mapVars PROVE MapKept'
  BY <1>4 DEF mapVars, MapKept
<1> QED
  BY <1>1, <1>2, <1>3, <1>4
  DEF Next, Handler, Execution, insert_exp, Grow, clear, ClearMap, clear_res_next,
      modify_res_map, set_default_entry, execute, Evaluate, EvaluateJunk, Crash,
      EndLoop, Find, MapRace, Return, vars

(* The map holds what was set and null operations.                         *)
THEOREM MapIsKept == Spec => []MapKept
  BY MapInit, MapStep, PTL DEF Spec

-----------------------------------------------------------------------------
(* One more expression adds its bit.                                       *)
LEMMA OutcomeNext ==
    ASSUME NEW l, NEW p, NEW n \in Nat
    PROVE  OutcomeOf(l, p, n + 1) =
             IF Holds(l[n + 1], p) THEN OutcomeOf(l, p, n) \cup {BitOf(n)}
                                   ELSE OutcomeOf(l, p, n)
<1>1. {m \in 0 .. n : Holds(l[m + 1], p)} =
        {m \in 0 .. n - 1 : Holds(l[m + 1], p)} \cup
        (IF Holds(l[n + 1], p) THEN {n} ELSE {})
  OBVIOUS
<1>2. (n + 1) - 1 = n
  OBVIOUS
<1> QED
  BY <1>1, <1>2 DEF OutcomeOf

(* Before the loop of execute() no bit is set.                             *)
LEMMA OutcomeNone ==
    ASSUME NEW l, NEW p
    PROVE  OutcomeOf(l, p, 0) = {}
  BY DEF OutcomeOf

(* The cells below the size are initialised.                               *)
LEMMA NoJunk ==
    ASSUME TypeOK, ListInv, NEW j \in 0 .. size - 1
    PROVE  cells[j] # Junk /\ cells[j] = list[j + 1]
<1>1. j + 1 \in 1 .. Len(list)
  BY DEF TypeOK, ListInv
<1>2. list[j + 1] \in Exp
  BY <1>1 DEF TypeOK
<1> QED
  BY <1>2, EntryAssumption DEF ListInv, EntryAssumption

(* Only steps that end the packet thread end the server, and the other way *)
(* round.                                                                  *)
LEMMA DeadStep == DeadInv /\ [Next]_vars => DeadInv'
<1> SUFFICES ASSUME DeadInv, [Next]_vars
             PROVE  DeadInv'
  OBVIOUS
<1> QED
  BY DEF DeadInv, Next, Handler, Execution, insert_exp, Grow, clear, ClearMap,
     clear_res_next, modify_res_map, set_default_entry, execute, Evaluate,
     EvaluateJunk, Crash, EndLoop, Find, Get, MapRace, Return, vars, pktVars

(* A handler either starts and disturbs the execution in progress, or      *)
(* runs on, in which case no execution in progress is quiet.               *)
LEMMA HandlerDisturbs ==
    ASSUME TypeOK, DeadInv, LoopInv, Handler
    PROVE  UNCHANGED pktVars /\ (quiet' => pp = "idle")
<1>1. UNCHANGED pktVars
  BY DEF Handler, insert_exp, Grow, clear, ClearMap, clear_res_next,
     modify_res_map, set_default_entry
<1>2. CASE Disturb
  BY <1>1, <1>2 DEF Disturb, TypeOK
<1>3. CASE (Grow \/ ClearMap)
  <2>1. pc \in {"grow", "clear"} /\ quiet' = quiet
    BY <1>3 DEF Grow, ClearMap
  <2> QED
    BY <2>1, <1>1 DEF LoopInv, DeadInv, TypeOK
<1> QED
  BY <1>1, <1>2, <1>3 DEF Handler, insert_exp, clear, clear_res_next,
     modify_res_map, set_default_entry

(* Initially no packet is in the gateway.                                  *)
LEMMA LoopInit == Init => LoopInv /\ QuietDecision /\ QuietNoCrash /\ DeadInv
  BY DEF Init, LoopInv, QuietDecision, QuietNoCrash, DeadInv

(* Every step keeps the bitmap of an undisturbed packet equal to the       *)
(* outcome of the cells evaluated so far.                                  *)
LEMMA LoopStep ==
    ASSUME Inv, [Next]_vars
    PROVE  LoopInv'
<1> USE BoundAssumption DEF BoundAssumption, Inv
<1>1. CASE Handler
  BY <1>1, HandlerDisturbs DEF LoopInv, pktVars
<1>2. ASSUME NEW p \in Packet, execute(p) PROVE LoopInv'
  <2>1. bitmap' = OutcomeOf(list', phv', i') /\ i' <= size'
    <3>1. bitmap' = {} /\ i' = 0 /\ size' \in Nat
      BY <1>2 DEF execute, LoopInv, TypeOK, expVars
    <3>2. OutcomeOf(list', phv', 0) = {}
      BY OutcomeNone
    <3> QED
      BY <3>1, <3>2
  <2>2. quiet' => pc' = "idle"
    BY <1>2 DEF execute
  <2> QED
    BY <1>2, <2>1, <2>2 DEF execute, LoopInv
<1>3. CASE Evaluate
  <2>1. ASSUME quiet, size = cap
        PROVE  i + 1 <= size /\ bitmap' = OutcomeOf(list, phv, i + 1)
    <3>1. i \in 0 .. size - 1 /\ i \in Nat
      BY <1>3, <2>1 DEF Evaluate, TypeOK
    <3>2. cells[i] = list[i + 1]
      BY <3>1, NoJunk
    <3>3. bitmap = OutcomeOf(list, phv, i)
      BY <1>3, <2>1 DEF Evaluate, LoopInv
    <3>4. bitmap' = OutcomeOf(list, phv, i + 1)
      BY <1>3, <3>1, <3>2, <3>3, OutcomeNext DEF Evaluate, AddBit
    <3> QED
      BY <3>1, <3>4 DEF TypeOK
  <2> QED
    BY <1>3, <2>1 DEF Evaluate, LoopInv, expVars
<1>4. CASE EvaluateJunk
  <2>1. quiet => size # cap
    <3> SUFFICES ASSUME quiet, size = cap PROVE FALSE
      OBVIOUS
    <3>1. pc = "idle" /\ i < cap /\ cells[i] = Junk
      BY <1>4 DEF EvaluateJunk, LoopInv
    <3>2. i \in 0 .. size - 1
      BY <3>1 DEF TypeOK
    <3> QED
      BY <3>1, <3>2, NoJunk
  <2> QED
    BY <1>4, <2>1 DEF EvaluateJunk, LoopInv, expVars
<1>5. CASE Crash
  BY <1>5 DEF Crash, LoopInv
<1>5a. CASE MapRace
  BY <1>5a DEF MapRace, LoopInv
<1>6. CASE EndLoop
  BY <1>6 DEF EndLoop, LoopInv, expVars
<1>7. CASE Find
  BY <1>7 DEF Find, LoopInv, expVars, mapVars
<1>8. CASE Get
  BY <1>8 DEF Get, LoopInv
<1>9. CASE Return
  BY <1>9 DEF Return, LoopInv
<1>10. CASE UNCHANGED vars
  BY <1>10 DEF vars, expVars, mapVars, pktVars, LoopInv
<1> QED
  BY <1>1, <1>2, <1>3, <1>4, <1>5, <1>5a, <1>6, <1>7, <1>8, <1>9, <1>10
  DEF Next, Execution

(* Every step keeps QuietNoCrash: an initialised cell never kills an       *)
(* undisturbed packet.                                                     *)
LEMMA CrashStep ==
    ASSUME Inv, [Next]_vars
    PROVE  QuietNoCrash'
<1> USE DEF Inv
<1>1. CASE Crash
  <2>1. ASSUME quiet PROVE size < cap
    <3>1. pc = "idle" /\ i < cap /\ cells[i] = Junk
      BY <1>1, <2>1 DEF Crash, LoopInv
    <3>2. i \notin 0 .. size - 1
      BY <3>1, NoJunk
    <3> QED
      BY <3>1, <3>2 DEF TypeOK
  <2> QED
    BY <1>1, <2>1 DEF Crash, QuietNoCrash, expVars
<1>2. CASE pp = "dead"
  <2>1. pc = "dead"
    BY <1>2 DEF DeadInv
  <2>2. UNCHANGED vars
    BY <1>2, <2>1 DEF Next, Handler, Execution, insert_exp, Grow, clear, ClearMap,
       clear_res_next, modify_res_map, set_default_entry, execute, Evaluate,
       EvaluateJunk, Crash, EndLoop, Find, Get, MapRace, Return
  <2> QED
    BY <2>2 DEF vars, expVars, pktVars, QuietNoCrash
<1>2a. CASE MapRace
  BY <1>2a DEF MapRace, QuietNoCrash
<1>3. ASSUME pp # "dead", ~Crash, ~MapRace PROVE pp' # "dead"
  BY <1>3 DEF Next, Handler, Execution, insert_exp, Grow, clear, ClearMap,
     clear_res_next, modify_res_map, set_default_entry, execute, Evaluate,
     EvaluateJunk, EndLoop, Find, Get, Return, vars, pktVars
<1> QED
  BY <1>1, <1>2, <1>2a, <1>3 DEF QuietNoCrash

(* Every step keeps QuietDecision: at the end of the loop the bitmap is    *)
(* the configuration's outcome, and find() and operator[] look that up.    *)
LEMMA DecisionStep ==
    ASSUME Inv, [Next]_vars
    PROVE  QuietDecision'
<1> USE DEF Inv
<1>1. ASSUME quiet, pp \in {"find", "get"}, size = cap
      PROVE  bitmap = Outcome(phv)
  <2>1. i = Len(list)
    BY <1>1 DEF LoopInv, ListInv, TypeOK
  <2> QED
    BY <1>1, <2>1 DEF LoopInv, Outcome, OutcomeOf
<1>2. CASE Handler
  BY <1>2, HandlerDisturbs DEF pktVars, QuietDecision
<1>3. CASE Find
  <2>1. UNCHANGED <<list, table, default_entry, phv, size, cap, res_next, quiet>>
    BY <1>3 DEF Find, expVars, mapVars
  <2>2. ASSUME pp' = "done", quiet, size = cap, DOMAIN res_next = DOMAIN table
        PROVE  next_op' = Decision(phv)
    BY <1>1, <1>3, <2>2 DEF Find, Decision
  <2>3. Decision(phv)' = Decision(phv)
    BY <2>1 DEF Decision, Outcome
  <2> QED
    BY <2>1, <2>2, <2>3 DEF QuietDecision
<1>4. CASE Get
  <2>1. UNCHANGED <<list, table, default_entry, phv, size, cap, quiet>>
    BY <1>4 DEF Get, expVars
  <2>2. ASSUME quiet, size = cap
        PROVE  next_op' = Decision(phv) \/ DOMAIN res_next' # DOMAIN table'
    <3>1. bitmap \in DOMAIN res_next
      BY <1>4, <2>2 DEF Get, LoopInv
    <3>2. next_op' = res_next[bitmap] /\ res_next' = res_next
      BY <1>4, <3>1 DEF Get
    <3>3. bitmap = Outcome(phv)
      BY <1>1, <1>4, <2>2 DEF Get
    <3> QED
      BY <2>1, <3>1, <3>2, <3>3 DEF Decision, MapKept
  <2>3. Decision(phv)' = Decision(phv)
    BY <2>1 DEF Decision, Outcome
  <2> QED
    BY <2>1, <2>2, <2>3 DEF QuietDecision
<1>5. ASSUME pp' # "done" PROVE QuietDecision'
  BY <1>5 DEF QuietDecision
<1>6. CASE UNCHANGED vars
  BY <1>6 DEF vars, expVars, mapVars, pktVars, QuietDecision, Decision, Outcome
<1> QED
  BY <1>2, <1>3, <1>4, <1>5, <1>6 DEF Next, Execution, execute, Evaluate,
     EvaluateJunk, Crash, EndLoop, MapRace, Return

(* The invariant holds in the initial states ...                           *)
LEMMA InvInit == Init => Inv
  BY TypeInit, ListInit, MapInit, LoopInit DEF Inv

(* ... and every step keeps it.                                            *)
LEMMA InvStep == Inv /\ [Next]_vars => Inv'
  BY TypeStep, DeadStep, ListStep, MapStep, LoopStep, CrashStep, DecisionStep DEF Inv

(* Without spare cells and leftover keys a packet that no handler met gets *)
(* the operation that the configuration asks for.                          *)
THEOREM QuietPacketsFollowTheProgram == Spec => []QuietDecision
<1>1. Inv => QuietDecision
  BY DEF Inv
<1> QED
  BY <1>1, InvInit, InvStep, PTL DEF Spec

(* ... and it does not kill the process.                                   *)
THEOREM QuietPacketsDoNotCrash == Spec => []QuietNoCrash
<1>1. Inv => QuietNoCrash
  BY DEF Inv
<1> QED
  BY <1>1, InvInit, InvStep, PTL DEF Spec
=============================================================================
