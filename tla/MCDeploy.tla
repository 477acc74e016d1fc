------------------------------ MODULE MCDeploy ------------------------------
(***************************************************************************)
(* The sizes of ipsa_configuration.h and of defs.h, and a chain of stages  *)
(* with one table each, of one or of two blocks' depth.                    *)
(***************************************************************************)
EXTENDS Deploy

Chain(n, depth) ==
    [stage |-> [s \in 0 .. n - 1 |->
        [headers |-> {},
         switch |-> <<[default |-> FALSE, kind |-> "TABLE", id |-> s],
                      [default |-> TRUE, kind |-> "STAGE", id |-> None]>>,
         acts |-> <<[act |-> 1, next |-> IF s = n - 1 THEN None ELSE s + 1],
                    [act |-> 2, next |-> None]>>]],
     table |-> [s \in 0 .. n - 1 |->
                  [keyless |-> FALSE, mem |-> "SRAM", kw |-> 1, vw |-> 1, depth |-> depth[s]]],
     parser |-> [l \in {0} |-> {}], params |-> {}, prims |-> [a \in {1, 2} |-> {}]]

Chains == UNION {{Chain(n, d) : d \in [0 .. n - 1 -> {1, 2}]} : n \in 1 .. 6}
=============================================================================
