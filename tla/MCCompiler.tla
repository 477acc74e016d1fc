----------------------------- MODULE MCCompiler -----------------------------
(***************************************************************************)
(* Three clusters of two processors, six SRAM and two TCAM blocks each,    *)
(* two levels per processor, and four families of programs: stages that    *)
(* can be merged, parsers to distribute, tables of several sizes over a    *)
(* session, and programs the compiler cannot take.                         *)
(***************************************************************************)
EXTENDS Compiler

T(t) == [default |-> FALSE, kind |-> "TABLE", id |-> t]
G(s) == [default |-> TRUE, kind |-> "STAGE", id |-> s]
A(a, s) == [act |-> a, next |-> s]
Tab(mem, kw, depth) == [keyless |-> FALSE, mem |-> mem, kw |-> kw, vw |-> 1, depth |-> depth]
NoKeys == [keyless |-> TRUE, mem |-> "SRAM", kw |-> 0, vw |-> 0, depth |-> 0]
Assign(lvalues, a) == {[lvalue |-> l, of |-> a] : l \in lvalues}

OneLevel == [l \in 0 .. 0 |-> {}]
Small == [t \in 0 .. 3 |-> Tab("SRAM", 1, 1)]

(* Stage 0 runs two actions, the stages 1 to 3 one each, with parameters   *)
(* or without; the first action of stage 0 may assign what action 13 does, *)
(* and the second may be the same.                                         *)
Mergeable ==
    {[stage |-> [s \in 0 .. 3 |->
        [headers |-> {}, switch |-> <<T(s)>>,
         acts |-> IF s = 0 THEN <<A(1, n[4]), A(second, n[5])>> ELSE <<A(10 + s, n[s])>>]],
      table |-> Small, parser |-> OneLevel, params |-> par,
      prims |-> [a \in {1, 2, 11, 12, 13} |->
                   Assign(IF a = 1 /\ clash THEN {13} ELSE {a}, a)]] :
      n \in {m \in [1 .. 5 -> {None, 1, 2, 3}] :
               /\ Acyclic([s \in 1 .. 3 |-> {m[s]} \ {None}])
               /\ m[4] # None /\ m[5] # None},
      par \in {{}, {11}, {12}, {13}}, clash \in BOOLEAN, second \in {1, 2}}

(* Parsers: a chain, and a fork that joins again.                          *)
P(h, l) == [header |-> h, next |-> l]
Chain == [l \in 0 .. 3 |-> IF l < 3 THEN {P(l + 1, l + 1)} ELSE {}]
Fork == [l \in 0 .. 3 |-> CASE l = 0 -> {P(1, 2), P(2, 1)}
                            [] l \in {1, 2} -> {P(3, 3)}
                            [] OTHER -> {}]

(* A diamond of stages, and a shape with a way past stage 1, numbered in   *)
(* and against the order of the edges.                                     *)
Shapes == {<<{1, 2}, {3}, {3}, {}>>, <<{1, 3}, {2}, {3}, {}>>, <<{}, {0, 2}, {3}, {0}>>}

Parsing ==
    {[stage |-> [s \in 0 .. 3 |->
        [headers |-> hs[s + 1], switch |-> <<T(s), G(None)>>,
         acts |-> LET next(i) == CHOOSE f \in [1 .. 2 -> shape[i] \cup {None}] :
                                     shape[i] \subseteq {f[1], f[2]}
                  IN <<A(1, next(s + 1)[1]), A(2, next(s + 1)[2])>>]],
      table |-> Small, parser |-> parser, params |-> {1},
      prims |-> [a \in {1, 2} |-> Assign({a}, a)]] :
      shape \in Shapes, parser \in {Chain, Fork},
      hs \in [1 .. 4 -> {{}, {2}, {3}}]}

(* Tables of several sizes for sessions; tables 0 to 2 keep their names.   *)
Sized(order, tab, gate) ==
    LET n == Cardinality(DOMAIN tab) IN
    [stage |-> [s \in 0 .. n - 1 |->
        [headers |-> {}, switch |-> <<T(order[s + 1]), G(gate)>>,
         acts |-> <<A(1, IF s = 0 THEN None ELSE s - 1), A(2, None)>>]],
     table |-> tab, parser |-> OneLevel, params |-> {},
     prims |-> [a \in {1, 2} |-> Assign({a}, a)]]

TwoStages(first, second, tab) ==
    [stage |-> [s \in 0 .. 1 |->
        [headers |-> {}, switch |-> IF s = 0 THEN first ELSE second,
         acts |-> <<A(1, IF s = 0 THEN 1 ELSE None), A(2, None)>>]],
     table |-> tab, parser |-> OneLevel, params |-> {},
     prims |-> [a \in {1, 2} |-> Assign({a}, a)]]

TwoIn(tab, more) == TwoStages(<<T(0), T(1)>>, <<T(2)>> \o more, tab)

S1 == Tab("SRAM", 1, 1)
S2 == Tab("SRAM", 2, 1)
S4 == Tab("SRAM", 1, 2)
S8 == Tab("SRAM", 1, 4)
C1 == Tab("TCAM", 1, 1)

Sizes == {[t \in 0 .. 2 |-> S1], [t \in 0 .. 2 |-> IF t = 0 THEN S4 ELSE S2],
          [t \in 0 .. 2 |-> IF t = 1 THEN C1 ELSE S1]}

Session ==
    {Sized(o, tab, -1) : o \in {<<0, 1, 2>>, <<2, 0, 1>>}, tab \in Sizes}
    \cup {Sized(<<0, 1, 2>>, [t \in 0 .. 2 |-> IF t = 0 THEN NoKeys ELSE S1], 1)}
    \cup {Sized(<<o>>, [t \in {o} |-> S1], -1) : o \in {1, 2}}
    \cup {TwoIn([t \in 0 .. 2 |-> S1], <<>>),
          TwoIn([t \in 0 .. 2 |-> IF t = 1 THEN C1 ELSE S1], <<>>),
          TwoIn([t \in 0 .. 4 |-> IF t = 3 THEN C1 ELSE S1], <<T(3), T(4)>>),
          TwoIn([t \in 0 .. 2 |-> S1], <<T(0)>>),
          TwoIn([t \in 0 .. 2 |-> IF t = 1 THEN S8 ELSE S1], <<>>)}
    \cup {TwoStages(<<T(2)>>, <<T(0), T(1)>>, [t \in 0 .. 2 |-> S1]), NoProgram}

(* A parser that loops, and two empty stages that lead to each other.      *)
Looping ==
    {[Sized(<<0>>, [t \in {0} |-> S1], -1) EXCEPT
        !.parser = [l \in 0 .. 1 |-> IF l = 0 THEN {P(1, 1)} ELSE {P(2, 1)}]],
     [stage |-> [s \in 0 .. 2 |->
        [headers |-> {}, switch |-> <<T(s)>>,
         acts |-> IF s = 0 THEN <<A(1, 1), A(2, None)>> ELSE <<A(10 + s, 3 - s)>>]],
      table |-> Small, parser |-> OneLevel, params |-> {},
      prims |-> [a \in {1, 2, 11, 12} |-> Assign({a} \cap {1, 2}, a)]]}

MCJunk == {-1, 0, 2}
MCProgram == Mergeable \cup Parsing \cup Looping \cup Session
=============================================================================
