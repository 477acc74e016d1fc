------------------------------ MODULE MCSwitch ------------------------------
(***************************************************************************)
(* Two processors with two tables each, and three configurations: one that *)
(* uses both processors; an update of the first alone, which replaces its  *)
(* exact table by a ternary one with other actions over the same block and *)
(* has an odd number of expressions; and an update of the second whose     *)
(* default entry leads back and whose miss action takes a parameter.       *)
(***************************************************************************)
EXTENDS Switch

Full ==
    [procs   |-> {0, 1},
     exps    |-> [p \in {0, 1} |-> 1],
     default |-> [p \in {0, 1} |-> IF p = 0 THEN Stage(1) ELSE Stage(Out)],
     entries |-> [p \in {0, 1} |-> [k \in {1} |-> Table(p)]],
     tabs    |-> [p \in {0, 1} |-> {p}],
     exact   |-> [p \in {0, 1} |-> {p}],
     miss    |-> [p \in {0, 1} |-> [t \in {p} |-> 1]],
     next    |-> [p \in {0, 1} |-> [t \in {p} |->
                    [a \in {0, 1} |-> IF p = 0 /\ a # 1 THEN 1 ELSE Out]]],
     heads   |-> [p \in {0, 1} |-> [t \in {p} |-> {p}]],
     rest    |-> [p \in {0, 1} |-> [t \in {p} |-> {}]],
     acts    |-> [p \in {0, 1} |-> {0, 1}]]

Patch ==
    [procs   |-> {0},
     exps    |-> [p \in {0} |-> 3],
     default |-> [p \in {0} |-> Stage(Out)],
     entries |-> [p \in {0} |-> [k \in {0} |-> Table(1)]],
     tabs    |-> [p \in {0} |-> {1}],
     exact   |-> [p \in {0} |-> {}],
     miss    |-> [p \in {0} |-> [t \in {1} |-> 0]],
     next    |-> [p \in {0} |-> [t \in {1} |-> [a \in {0, 2} |-> 1]]],
     heads   |-> [p \in {0} |-> [t \in {1} |-> {0}]],
     rest    |-> [p \in {0} |-> [t \in {1} |-> {}]],
     acts    |-> [p \in {0} |-> {0, 2}]]

Back ==
    [procs   |-> {1},
     exps    |-> [p \in {1} |-> 1],
     default |-> [p \in {1} |-> Stage(0)],
     entries |-> [p \in {1} |-> [k \in {0} |-> Table(1)]],
     tabs    |-> [p \in {1} |-> {1}],
     exact   |-> [p \in {1} |-> {1}],
     miss    |-> [p \in {1} |-> [t \in {1} |-> 2]],
     next    |-> [p \in {1} |-> [t \in {1} |-> [a \in {0, 2} |-> Out]]],
     heads   |-> [p \in {1} |-> [t \in {1} |-> {1}]],
     rest    |-> [p \in {1} |-> [t \in {1} |-> {0}]],
     acts    |-> [p \in {1} |-> {0, 2}]]

MCConfig == {Full, Patch, Back}
=============================================================================
