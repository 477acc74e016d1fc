------------------------------- MODULE Deploy -------------------------------
(***************************************************************************)
(* What the compiler puts out, on the processors of the switch.            *)
(*                                                                         *)
(* The compiler gives each table of one of its clusters its own blocks     *)
(* (ipsa_configuration.h); the dataplane takes block numbers relative to   *)
(* the cluster of the processor (matcher_c.h), and has its own idea of     *)
(* which processors form one (defs.h).                                     *)
(***************************************************************************)
EXTENDS Compiler

CONSTANTS
    ProcPerCluster,         \* PROC_NUM_PER_CLUSTER
    SramPerCluster          \* SRAM_NUM_PER_CLUSTER

(* The physical block behind block b of processor i: glb.srams[...].       *)
SramBlock(i, b) == (i \div ProcPerCluster) * SramPerCluster + b

(* The SRAM blocks of a table of processor i.                              *)
SramBlocks(i, t) == {SramBlock(i, b[2]) : b \in {c \in Blocks(t) : c[1] = "SRAM"}}

(* Tables of different processors have different memory.  The compiler's   *)
(* README has 16 processors in 4 clusters, and each matcher point to the   *)
(* memory of its own cluster.                                              *)
TablesApart ==
    Done /\ ~err /\ ~incremental =>
        \A i, k \in Proc :
            place[i] # None /\ place[k] # None /\ i # k =>
                \A t \in Elements(stages[place[i]].tables),
                   u \in Elements(stages[place[k]].tables) :
                    SramBlocks(i, t) \cap SramBlocks(k, u) = {}
=============================================================================
