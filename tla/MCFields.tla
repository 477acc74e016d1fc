------------------------------ MODULE MCFields ------------------------------
(***************************************************************************)
(* Fields of 1 to 18 bits at each bit of a byte, and values that are       *)
(* all ones, one bit at either end, or alternating.                        *)
(***************************************************************************)
EXTENDS Fields

Val(len) == {2^len - 1, 2^(len - 1), 1, ((2^(len + 1)) \div 3) % (2^len)}
F(begin, len, val, want) ==
    [type |-> "FIELD", begin |-> begin, len |-> len, val |-> val, want |-> want]
V(val, want) == [type |-> "VALID", begin |-> 0, len |-> 1, val |-> val, want |-> want]
P(len, val) == [len |-> len, val |-> val]
S(fields, params, slot, from, begin, len, ground) ==
    [fields |-> fields, action |-> 2, params |-> params, slot |-> slot, from |-> from,
     target |-> [begin |-> begin, len |-> len], ground |-> ground]

(* One field as the key, with the entry's value or another, and copied to  *)
(* a field of its length.                                                  *)
Keys ==
    UNION {{S(<<F(b, n, v, w)>>, <<P(8, 1)>>, 0, "FIELD", 26, n, g) :
              b \in 0 .. 8, v \in Val(n), w \in {1, 2^(n - 1)}, g \in {0, 255}} : n \in 1 .. 18}
    \cup {S(<<V(v, w)>>, <<P(1, 1)>>, 128, "PARAM", 3, 1, 0) : v \in 0 .. 1, w \in 0 .. 1}

(* A last parameter of any length that begins at any bit of the value,     *)
(* assigned to a field of the same length or longer.                       *)
Params ==
    UNION {{S(<<F(0, 4, 5, 5)>>, <<P(m, 2^m - 1), P(n, v)>>, slot, "PARAM", b, n + more, g) :
              m \in {3, 8}, v \in {1, 2^n - 1}, slot \in {0, 165},
              b \in 4 .. 11, more \in {0, 3}, g \in {0, 255}} :
           n \in 1 .. 18}

(* Two key fields.                                                         *)
Others ==
    {S(<<F(0, m, 1, 1), F(20, n, 1, 1)>>, <<P(m, 1), P(n, 1)>>, 90, "PARAM", 3, n, 0) :
       m \in {4, 8, 9, 16}, n \in 1 .. 12}

MCScenario == Keys \cup Params \cup Others

(* An entry as the runtime compiler writes it: the action's id beside its  *)
(* parameters.                                                             *)
MCUpdate ==
    {S(<<F(0, n, 1, 1)>>, <<P(8, 1), P(16, v)>>, 0, "PARAM", 3, 16, 0) :
       n \in {8, 16}, v \in Val(16)}
=============================================================================
