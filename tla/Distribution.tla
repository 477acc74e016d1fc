---------------------------- MODULE Distribution ----------------------------
(***************************************************************************)
(* How the rP4 back end distributes the levels of a program's parser over  *)
(* its stages (rP4-compiler/rp4c/ipsa_distribution.h).                     *)
(*                                                                         *)
(* A parser is a function from levels to the entries that extract a header *)
(* and lead to another level (accept_drop = 2); entries that accept or     *)
(* drop are left out, the code skips them.  A graph is a function from     *)
(* nodes to the set of their successors.                                   *)
(***************************************************************************)
EXTENDS Naturals, FiniteSets, Sequences, FiniteSetsExt

Elements(seq) == {seq[i] : i \in DOMAIN seq}

(* The entries at the positions I, in their order.                         *)
Picked(seq, I) ==
    LET upTo[n \in 0 .. Len(seq)] ==
            IF n = 0 THEN <<>>
            ELSE IF n \in I THEN Append(upTo[n - 1], seq[n]) ELSE upTo[n - 1]
    IN upTo[Len(seq)]

Preds(next, x) == {y \in DOMAIN next : x \in next[y]}

(* The nodes whose in_degree has come down to 0.                           *)
Ready(next, done) == {x \in DOMAIN next \ done : Preds(next, x) \subseteq done}

(* topologicalSort: again and again the smallest node that is ready.  On a *)
(* cycle no node is, the code looks up the successors of -1 and dies; the  *)
(* sequence is then too short.                                             *)
topologicalSort(next) ==
    LET sorted[k \in 0 .. Cardinality(DOMAIN next)] ==
            IF k = 0 THEN <<>>
            ELSE LET ready == Ready(next, Elements(sorted[k - 1])) IN
                 IF ready = {} THEN sorted[k - 1] ELSE Append(sorted[k - 1], Min(ready))
    IN sorted[Cardinality(DOMAIN next)]

Acyclic(next) == Len(topologicalSort(next)) = Cardinality(DOMAIN next)

-----------------------------------------------------------------------------
NextLevels(parser) == [l \in DOMAIN parser |-> {e.next : e \in parser[l]}]

(* header_level: the levels at which a header of the set is extracted.     *)
HeaderLevels(parser, headers) ==
    {l \in DOMAIN parser : \E e \in parser[l] : e.header \in headers}

(* level_level: a level and all the levels before it.                      *)
LevelLevels(parser) ==
    LET upTo[l \in DOMAIN parser] ==
            {l} \cup UNION {upTo[m] : m \in Preds(NextLevels(parser), l)}
    IN upTo

(* proc_level: the levels a stage that reads these headers needs.          *)
ProcLevels(parser, headers) ==
    UNION {LevelLevels(parser)[l] : l \in HeaderLevels(parser, headers)}

(* Mutant: a level one predecessor has parsed is taken for parsed.         *)
CommonAny(next, total, x) == UNION {total[y] : y \in Preds(next, x)}

(* What every predecessor of a stage has parsed or found parsed.           *)
Common(next, total, x) ==
    {l \in UNION {total[y] : y \in Preds(next, x)} :
        \A y \in Preds(next, x) : l \in total[y]}

(* total_levels: what has been parsed when a packet leaves a stage.        *)
TotalLevels(next, need) ==
    LET total[x \in DOMAIN next] == Common(next, total, x) \cup need[x] IN total

(* distributed_levels: what a stage has to parse itself, in the order of   *)
(* the levels.                                                             *)
distributeParsers(parser, next, headers) ==
    LET need == [x \in DOMAIN next |-> ProcLevels(parser, headers[x])]
        total == TotalLevels(next, need)
        order == topologicalSort(NextLevels(parser))
        own(x) == need[x] \ Common(next, total, x)
    IN [x \in DOMAIN next |-> Picked(order, {i \in DOMAIN order : order[i] \in own(x)})]
=============================================================================
