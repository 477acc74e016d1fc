----------------------------- MODULE MCGateway -----------------------------
(***************************************************************************)
(* A gateway of four bits.  The expressions differ on the packets, so that *)
(* a stale or a misplaced one changes the decision.                        *)
(***************************************************************************)
EXTENDS Gateway

Param(t, v) == [type |-> t, val |-> v, fd |-> v, hdr |-> v]

MCExp ==
    {[param1 |-> Param("CONST", 1), param2 |-> Param("VALID", 1), relation |-> "EQ"],
     [param1 |-> Param("FIELD", 1), param2 |-> Param("MISS", 0), relation |-> "LT"]}

MCPacket ==
    {[valid |-> [x \in {1} |-> v], field |-> [x \in {1} |-> 2], hit |-> h] :
        v \in {0, 1}, h \in {0, 1}}

MCMapKey == {{}, {3}}

Table(n) == [type |-> "TABLE", val |-> n]
Stage(n) == [type |-> "STAGE", val |-> n]
MCGateEntry == {Table(0), Table(1)}
MCNullEntry == Table(0)
=============================================================================
