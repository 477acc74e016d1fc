--------------------------- MODULE CompilerProofs ---------------------------
(***************************************************************************)
(* Proofs about the rP4 back end (module Compiler): its types, where the   *)
(* stages of a program are placed, and where the actions lead afterwards.  *)
(*                                                                         *)
(* The compiler's own recursive functions are proved about by induction    *)
(* over sets of natural numbers, which the least element principle of      *)
(* WellFoundedInduction justifies.                                         *)
(***************************************************************************)
EXTENDS Compiler, FiniteSetTheorems, TLAPS

-----------------------------------------------------------------------------
(***************************************************************************)
(* Natural numbers.                                                        *)
(***************************************************************************)
(* A set of naturals that is not empty has a least element.                *)
LEMMA LeastNatural ==
    ASSUME NEW S \in SUBSET Nat, S # {}
    PROVE  \E m \in S : \A n \in S : m <= n
<1> DEFINE R == OpToRel(<, Nat)
<1>1. \A x, y \in Nat : <<x, y>> \in R <=> x < y
  BY DEF OpToRel
<1>2. IsWellFoundedOn(R, Nat)
  BY NatLessThanWellFounded
<1> HIDE DEF R
<1>3. PICK m \in S : \A n \in S : ~(<<n, m>> \in R)
  BY <1>2, WFMin
<1>4. ASSUME NEW n \in S PROVE m <= n
  <2>1. m \in Nat /\ n \in Nat
    OBVIOUS
  <2>2. ~(n < m)
    BY <1>1, <1>3, <2>1, Zenon
  <2> QED
    BY <2>1, <2>2
<1> QED
  BY <1>4

(* Min(S), as the loops that search for the first find it.                 *)
LEMMA MinLeast ==
    ASSUME NEW S \in SUBSET Nat, S # {}
    PROVE  Min(S) \in S /\ \A n \in S : Min(S) <= n
<1>1. \E m \in S : \A n \in S : m <= n
  BY LeastNatural
<1> QED
  BY <1>1, Zenon DEF Min

(* Induction over the naturals in a set.                                   *)
LEMMA SetInduction ==
    ASSUME NEW S, 0 \in S, \A n \in Nat : n \in S => n + 1 \in S
    PROVE  Nat \subseteq S
<1> SUFFICES ASSUME Nat \ S # {} PROVE FALSE
  OBVIOUS
<1>1. PICK m \in Nat \ S : \A n \in Nat \ S : m <= n
  BY LeastNatural
<1>2. m # 0 /\ m - 1 \in Nat /\ m - 1 \notin Nat \ S
  BY <1>1
<1> QED
  BY <1>1, <1>2

-----------------------------------------------------------------------------
(***************************************************************************)
(* The compiler's recursive functions have the values their equations      *)
(* give.                                                                   *)
(***************************************************************************)
IsSum(g, w, n) == g = [i \in 0 .. n |-> IF i = 0 THEN 0 ELSE g[i - 1] + w[i]]

(* A running sum over the tables of a stage exists.                        *)
LEMMA SumExists ==
    ASSUME NEW w, NEW n \in Nat
    PROVE  \E g : IsSum(g, w, n)
<1> DEFINE S == {k \in Nat : \E g : IsSum(g, w, k)}
<1>1. 0 \in S
  <2> DEFINE h == [i \in 0 .. 0 |-> 0]
  <2>1. IsSum(h, w, 0)
    BY DEF IsSum
  <2> QED
    BY <2>1
<1>2. ASSUME NEW k \in Nat, k \in S PROVE k + 1 \in S
  <2>1. PICK g : IsSum(g, w, k)
    BY <1>2
  <2> DEFINE h == [i \in 0 .. k + 1 |-> IF i = k + 1 THEN g[k] + w[k + 1] ELSE g[i]]
  <2>2. ASSUME NEW i \in 0 .. k + 1 PROVE h[i] = IF i = 0 THEN 0 ELSE h[i - 1] + w[i]
    BY <2>1 DEF IsSum
  <2>3. DOMAIN h = 0 .. k + 1 /\ h = [i \in DOMAIN h |-> h[i]]
    OBVIOUS
  <2> HIDE DEF h
  <2>4. h = [i \in 0 .. k + 1 |-> IF i = 0 THEN 0 ELSE h[i - 1] + w[i]]
    BY <2>2, <2>3
  <2> QED
    BY <2>4 DEF IsSum
<1> HIDE DEF S
<1>3. Nat \subseteq S
  BY <1>1, <1>2, SetInduction
<1> QED
  BY <1>3 DEF S

(* The space of a stage is a number (calculateTableSpace).                 *)
LEMMA TotalInt ==
    ASSUME NEW w, NEW n \in Nat, \A i \in 1 .. n : w[i] \in Int
    PROVE  Total(w, n) \in Int
<1> DEFINE f == CHOOSE g : g = [i \in 0 .. n |-> IF i = 0 THEN 0 ELSE g[i - 1] + w[i]]
           S == {k \in Nat : k <= n => f[k] \in Int}
<1>1. Total(w, n) = f[n]
  BY DEF Total
<1>2. f = [i \in 0 .. n |-> IF i = 0 THEN 0 ELSE f[i - 1] + w[i]]
  BY SumExists DEF IsSum
<1> HIDE DEF f
<1>3. 0 \in S
  BY <1>2
<1>4. ASSUME NEW k \in Nat, k \in S PROVE k + 1 \in S
  <2> SUFFICES ASSUME k + 1 <= n PROVE f[k + 1] \in Int
    OBVIOUS
  <2>1. f[k] \in Int /\ k + 1 \in 0 .. n /\ k + 1 # 0 /\ w[k + 1] \in Int
    BY <1>4
  <2>2. f[k + 1] = f[k] + w[k + 1]
    BY <1>2, <2>1
  <2> QED
    BY <2>1, <2>2
<1> HIDE DEF S
<1>5. n \in S
  BY <1>3, <1>4, SetInduction
<1> QED
  BY <1>1, <1>5 DEF S

IsPick(g, seq, I, n) ==
    g = [k \in 0 .. n |->
           IF k = 0 THEN <<>> ELSE IF k \in I THEN Append(g[k - 1], seq[k]) ELSE g[k - 1]]

(* The entries of a switch are picked one after the other.                 *)
LEMMA PickExists ==
    ASSUME NEW seq, NEW I, NEW n \in Nat
    PROVE  \E g : IsPick(g, seq, I, n)
<1> DEFINE S == {k \in Nat : \E g : IsPick(g, seq, I, k)}
<1>1. 0 \in S
  <2> DEFINE h == [i \in 0 .. 0 |-> <<>>]
  <2>1. IsPick(h, seq, I, 0)
    BY DEF IsPick
  <2> QED
    BY <2>1
<1>2. ASSUME NEW k \in Nat, k \in S PROVE k + 1 \in S
  <2>1. PICK g : IsPick(g, seq, I, k)
    BY <1>2
  <2> DEFINE last == IF k + 1 \in I THEN Append(g[k], seq[k + 1]) ELSE g[k]
             h == [i \in 0 .. k + 1 |-> IF i = k + 1 THEN last ELSE g[i]]
  <2>2. ASSUME NEW i \in 0 .. k + 1
        PROVE  h[i] = IF i = 0 THEN <<>>
                      ELSE IF i \in I THEN Append(h[i - 1], seq[i]) ELSE h[i - 1]
    <3>1. \A j \in 0 .. k : g[j] = IF j = 0 THEN <<>>
                                   ELSE IF j \in I THEN Append(g[j - 1], seq[j]) ELSE g[j - 1]
      BY <2>1 DEF IsPick
    <3>2. CASE i = k + 1
      <4>1. h[k + 1] = last /\ h[k] = g[k] /\ (k + 1) - 1 = k /\ k + 1 # 0
        OBVIOUS
      <4> HIDE DEF h
      <4> QED
        BY <3>2, <4>1
    <3>3. CASE i = 0
      BY <3>1, <3>3
    <3>4. CASE i \in 1 .. k
      <4>1. h[i] = g[i] /\ h[i - 1] = g[i - 1] /\ i \in 0 .. k /\ i # 0
        BY <3>4
      <4> HIDE DEF h
      <4> QED
        BY <3>1, <4>1
    <3> QED
      BY <3>2, <3>3, <3>4
  <2>3. DOMAIN h = 0 .. k + 1 /\ h = [i \in DOMAIN h |-> h[i]]
    OBVIOUS
  <2> HIDE DEF h
  <2>4. h = [i \in 0 .. k + 1 |-> IF i = 0 THEN <<>>
               ELSE IF i \in I THEN Append(h[i - 1], seq[i]) ELSE h[i - 1]]
    BY <2>2, <2>3
  <2> QED
    BY <2>4 DEF IsPick
<1> HIDE DEF S
<1>3. Nat \subseteq S
  BY <1>1, <1>2, SetInduction
<1> QED
  BY <1>3 DEF S

(* What is picked are entries of the switch.                               *)
LEMMA PickedSeq ==
    ASSUME NEW seq, Len(seq) \in Nat, NEW I, NEW T, \A i \in I : seq[i] \in T
    PROVE  Picked(seq, I) \in Seq(T)
<1> DEFINE n == Len(seq)
           f == CHOOSE g : g = [k \in 0 .. n |->
                  IF k = 0 THEN <<>> ELSE IF k \in I THEN Append(g[k - 1], seq[k]) ELSE g[k - 1]]
           S == {k \in Nat : k <= n => f[k] \in Seq(T)}
<1>1. Picked(seq, I) = f[n]
  BY DEF Picked
<1>2. \A k \in 0 .. n : f[k] =
        IF k = 0 THEN <<>> ELSE IF k \in I THEN Append(f[k - 1], seq[k]) ELSE f[k - 1]
  <2>1. \E g : g = [k \in 0 .. n |->
          IF k = 0 THEN <<>> ELSE IF k \in I THEN Append(g[k - 1], seq[k]) ELSE g[k - 1]]
    <3>1. \E g : IsPick(g, seq, I, n)
      BY PickExists
    <3> QED
      BY <3>1, Zenon DEF IsPick
  <2>2. f = [k \in 0 .. n |->
          IF k = 0 THEN <<>> ELSE IF k \in I THEN Append(f[k - 1], seq[k]) ELSE f[k - 1]]
    BY <2>1, Zenon
  <2> HIDE DEF f
  <2> QED
    BY <2>2
<1> HIDE DEF f
<1>3. 0 \in S
  <2>1. f[0] = <<>> /\ <<>> \in Seq(T)
    BY <1>2
  <2> QED
    BY <2>1
<1>4. ASSUME NEW k \in Nat, k \in S PROVE k + 1 \in S
  <2> SUFFICES ASSUME k + 1 <= n PROVE f[k + 1] \in Seq(T)
    OBVIOUS
  <2>1. f[k] \in Seq(T) /\ k + 1 \in 0 .. n /\ k + 1 # 0 /\ (k + 1) - 1 = k
    BY <1>4
  <2>2. f[k + 1] = IF k + 1 \in I THEN Append(f[k], seq[k + 1]) ELSE f[k]
    BY <1>2, <2>1
  <2> QED
    BY <2>1, <2>2
<1> HIDE DEF S
<1>5. n \in S
  BY <1>3, <1>4, SetInduction
<1> QED
  BY <1>1, <1>5 DEF S

-----------------------------------------------------------------------------
(***************************************************************************)
(* topologicalSort.                                                        *)
(***************************************************************************)
SortStep(next, seq) ==
    LET ready == Ready(next, Elements(seq))
    IN IF ready = {} THEN seq ELSE Append(seq, Min(ready))

IsSort(g, next, n) ==
    g = [k \in 0 .. n |-> IF k = 0 THEN <<>> ELSE SortStep(next, g[k - 1])]

(* The loop of topologicalSort can be followed to its end.                 *)
LEMMA SortExists ==
    ASSUME NEW next, NEW n \in Nat
    PROVE  \E g : IsSort(g, next, n)
<1> DEFINE S == {k \in Nat : \E g : IsSort(g, next, k)}
<1>1. 0 \in S
  <2> DEFINE h == [i \in 0 .. 0 |-> <<>>]
  <2>1. IsSort(h, next, 0)
    BY DEF IsSort
  <2> QED
    BY <2>1
<1>2. ASSUME NEW k \in Nat, k \in S PROVE k + 1 \in S
  <2>1. PICK g : IsSort(g, next, k)
    BY <1>2
  <2> DEFINE h == [i \in 0 .. k + 1 |-> IF i = k + 1 THEN SortStep(next, g[k]) ELSE g[i]]
  <2>2. ASSUME NEW i \in 0 .. k + 1
        PROVE  h[i] = IF i = 0 THEN <<>> ELSE SortStep(next, h[i - 1])
    BY <2>1 DEF IsSort
  <2>3. DOMAIN h = 0 .. k + 1 /\ h = [i \in DOMAIN h |-> h[i]]
    OBVIOUS
  <2> HIDE DEF h
  <2>4. h = [i \in 0 .. k + 1 |-> IF i = 0 THEN <<>> ELSE SortStep(next, h[i - 1])]
    BY <2>2, <2>3
  <2> QED
    BY <2>4 DEF IsSort
<1> HIDE DEF S
<1>3. Nat \subseteq S
  BY <1>1, <1>2, SetInduction
<1> QED
  BY <1>3 DEF S

(* A sequence of nodes, each one once and after those that lead to it.     *)
InOrder(next, seq) ==
    /\ seq \in Seq(DOMAIN next)
    /\ \A i, k \in 1 .. Len(seq) : seq[i] = seq[k] => i = k
    /\ \A i \in 1 .. Len(seq) : \A y \in Preds(next, seq[i]) :
         \E k \in 1 .. i - 1 : y = seq[k]

(* One iteration keeps the order.                                          *)
LEMMA SortStepInOrder ==
    ASSUME NEW next, DOMAIN next \in SUBSET Nat, NEW seq, InOrder(next, seq)
    PROVE  InOrder(next, SortStep(next, seq))
<1> DEFINE ready == Ready(next, Elements(seq))
           m == Min(ready)
<1>1. CASE ready = {}
  BY <1>1 DEF SortStep
<1>2. CASE ready # {}
  <2>1. m \in ready
    BY <1>2, MinLeast DEF Ready
  <2>2. SortStep(next, seq) = Append(seq, m)
    BY <1>2 DEF SortStep
  <2> HIDE DEF m
  <2>3. /\ m \in DOMAIN next
        /\ \A k \in 1 .. Len(seq) : seq[k] # m
        /\ \A y \in Preds(next, m) : \E k \in 1 .. Len(seq) : y = seq[k]
    <3>1. DOMAIN seq = 1 .. Len(seq)
      BY DEF InOrder
    <3>2. m \in DOMAIN next \ Elements(seq) /\ Preds(next, m) \subseteq Elements(seq)
      BY <2>1 DEF Ready
    <3> QED
      BY <3>1, <3>2 DEF Elements
  <2> DEFINE new == Append(seq, m)
  <2>4. /\ new \in Seq(DOMAIN next) /\ Len(new) = Len(seq) + 1 /\ Len(seq) \in Nat
        /\ new[Len(seq) + 1] = m /\ \A i \in 1 .. Len(seq) : new[i] = seq[i]
    BY <2>3 DEF InOrder
  <2> HIDE DEF new
  <2>5. \A i, k \in 1 .. Len(new) : new[i] = new[k] => i = k
    BY <2>3, <2>4 DEF InOrder
  <2>6. ASSUME NEW i \in 1 .. Len(new), NEW y \in Preds(next, new[i])
        PROVE  \E k \in 1 .. i - 1 : y = new[k]
    <3>1. CASE i = Len(seq) + 1
      <4>1. PICK k \in 1 .. Len(seq) : y = seq[k]
        BY <3>1, <2>3, <2>4, <2>6
      <4> QED
        BY <3>1, <2>4, <4>1
    <3>2. CASE i \in 1 .. Len(seq)
      <4>1. PICK k \in 1 .. i - 1 : y = seq[k]
        BY <3>2, <2>4, <2>6 DEF InOrder
      <4> QED
        BY <3>2, <2>4, <4>1
    <3> QED
      BY <3>1, <3>2, <2>4
  <2>7. InOrder(next, new)
    BY <2>4, <2>5, <2>6 DEF InOrder
  <2> QED
    BY <2>2, <2>7 DEF new
<1> QED
  BY <1>1, <1>2

(* What topologicalSort returns is in order.                               *)
LEMMA SortInOrder ==
    ASSUME NEW next, DOMAIN next \in SUBSET Nat, IsFiniteSet(DOMAIN next)
    PROVE  InOrder(next, topologicalSort(next))
<1> DEFINE n == Cardinality(DOMAIN next)
           f == CHOOSE g : g = [k \in 0 .. n |->
                  IF k = 0 THEN <<>> ELSE SortStep(next, g[k - 1])]
           S == {k \in Nat : k <= n => InOrder(next, f[k])}
<1>1. topologicalSort(next) = f[n]
  BY DEF topologicalSort, SortStep
<1>2. n \in Nat
  BY FS_CardinalityType
<1> HIDE DEF n
<1>3. \A k \in 0 .. n : f[k] = IF k = 0 THEN <<>> ELSE SortStep(next, f[k - 1])
  <2>1. f = [k \in 0 .. n |-> IF k = 0 THEN <<>> ELSE SortStep(next, f[k - 1])]
    BY <1>2, SortExists DEF IsSort
  <2> HIDE DEF f
  <2> QED
    BY <2>1
<1> HIDE DEF f
<1>4. 0 \in S
  <2>1. f[0] = <<>>
    BY <1>2, <1>3
  <2>2. InOrder(next, <<>>)
    BY DEF InOrder
  <2> QED
    BY <2>1, <2>2
<1>5. ASSUME NEW k \in Nat, k \in S PROVE k + 1 \in S
  <2> SUFFICES ASSUME k + 1 <= n PROVE InOrder(next, f[k + 1])
    OBVIOUS
  <2>1. InOrder(next, f[k]) /\ k + 1 \in 0 .. n /\ k + 1 # 0 /\ (k + 1) - 1 = k
    BY <1>2, <1>5
  <2>2. f[k + 1] = SortStep(next, f[k])
    BY <1>3, <2>1
  <2> QED
    BY <2>1, <2>2, SortStepInOrder
<1> HIDE DEF S
<1>6. n \in S
  BY <1>2, <1>4, <1>5, SetInduction
<1> QED
  BY <1>1, <1>2, <1>6 DEF S

(* Without a cycle it holds every node.                                    *)
LEMMA SortComplete ==
    ASSUME NEW next, DOMAIN next \in SUBSET Nat, IsFiniteSet(DOMAIN next), Acyclic(next)
    PROVE  Elements(topologicalSort(next)) = DOMAIN next
<1> DEFINE s == topologicalSort(next)
           n == Len(s)
<1>1. InOrder(next, s) /\ n = Cardinality(DOMAIN next)
  BY SortInOrder DEF Acyclic
<1> HIDE DEF s
<1>2. n \in Nat /\ s \in [1 .. n -> DOMAIN next] /\ DOMAIN s = 1 .. n
  BY <1>1 DEF InOrder
<1>3. s \in Injection(1 .. n, DOMAIN next)
  BY <1>1, <1>2 DEF Injection, InOrder, IsInjective
<1>4. Cardinality(1 .. n) = n
  BY <1>2, FS_Interval
<1>5. s \in Surjection(1 .. n, DOMAIN next)
  BY <1>1, <1>3, <1>4, FS_Injection
<1> QED
  BY <1>2, <1>5 DEF Surjection, Elements, s

-----------------------------------------------------------------------------
(***************************************************************************)
(* The inductive invariant.                                                *)
(***************************************************************************)
(* The program and the stages that are left of it.                         *)
StageInv ==
    /\ WellFormed(prog)
    /\ DOMAIN size = DOMAIN prog.table
    /\ \A t \in DOMAIN size : size[t].kw \in Int /\ size[t].vw \in Int /\ size[t].depth \in Int
    /\ \E n \in Nat : DOMAIN stages = 0 .. n - 1
    /\ \A x \in DOMAIN stages :
         /\ \A i \in DOMAIN stages[x].acts : stages[x].acts[i].next \in DOMAIN stages \cup {None}
         /\ stages[x].default.kind = "STAGE" => stages[x].default.id \in DOMAIN stages \cup {None}
         /\ stages[x].tables \in Seq(DOMAIN prog.table)

(* The compilation has come to the allocation, or past it.                 *)
Sorted == phase \in {"keep", "new", "place", "config", "build"} \/ Done

(* The stages are sorted once, and then for good.                          *)
SortInv ==
    /\ ~Sorted /\ phase # "dead" => topo = <<>>
    /\ Sorted => InOrder(NextStages, topo) /\ Elements(topo) = DOMAIN stages

(* Nothing is allocated before the allocation.                             *)
FreshInv ==
    /\ phase \in {"remove", "parsers", "keep"} =>
         /\ ~err /\ ~incremental
         /\ phase = "keep" => prev # NoTask
         /\ place = [i \in Proc |-> None]
         /\ space = [c \in Cluster |-> [sram |-> NSram, tcam |-> NTcam]]
    /\ phase \in {"remove", "parsers", "keep", "new", "place", "config"} => processors = Empty

(* The first n stages of topo have one processor each, unless there was an *)
(* error, and the first of them is on processor 0.                         *)
PlacedUpTo(n) ==
    /\ place \in [Proc -> DOMAIN stages \cup {None}]
    /\ \A i, k \in Proc : place[i] = place[k] /\ place[i] # None => i = k
    /\ \A i \in Proc : place[i] # None => \E k \in 1 .. n : place[i] = topo[k]
    /\ ~err => \A k \in 1 .. n : \E i \in Proc : place[i] = topo[k]
    /\ ~err /\ n > 0 => place[0] = topo[1]

(* Each cluster is filled from its first processor on.                     *)
Dense ==
    \A c \in Cluster : \E m \in 0 .. ClusterProcs :
        InCluster(c) = c * ClusterProcs .. c * ClusterProcs + m - 1

(* The full allocation.                                                    *)
FullInv ==
    /\ phase \in {"place", "config"} => ~incremental
    /\ phase = "place" =>
         /\ cursor \in 1 .. Len(topo) + 1
         /\ PlacedUpTo(cursor - 1) /\ Dense
         /\ cursor = 1 => space = [c \in Cluster |-> [sram |-> NSram, tcam |-> NTcam]]
    /\ (phase \in {"config", "build"} \/ Done) /\ ~incremental => PlacedUpTo(Len(topo))

(* What was there is kept: a stage is on a processor of its old cluster,   *)
(* which is that of its old tables, and these have their old blocks.       *)
Carried ==
    /\ prev # NoTask
    /\ \A i \in Proc : place[i] \in DOMAIN stages \ {0} => ClusterOf(i) = OldCluster(place[i])
    /\ \A t \in Existing :
         /\ config[t] = OldBlocks(t)
         /\ table_at[t].stage \in DOMAIN stages =>
              OldCluster(table_at[t].stage) = NonNeg(ClusterOf(prev[t].proc))

(* The allocation that keeps what was there gives every stage a processor. *)
KeptInv ==
    phase = "new" \/ (incremental /\ phase \in {"build", "idle"}) =>
        /\ incremental
        /\ place \in [Proc -> DOMAIN stages \cup {0}]
        /\ \A x \in DOMAIN stages : \E i \in Proc : place[i] = x
        /\ phase # "idle" => Carried

(* The processors that are built hold the stages that were placed, and     *)
(* those that only parse have numbers beyond the stages'.                  *)
Built(i) == i \in DOMAIN processors /\ ~processors[i].only /\ processors[i].id = place[i]

BuildInv ==
    phase = "build" \/ Done =>
        /\ DOMAIN processors \subseteq Proc
        /\ \A i \in Proc : place[i] # None /\ (phase = "build" => i < cursor) => Built(i)
        /\ \A i \in DOMAIN processors :
             IF processors[i].only
             THEN place[i] = None /\ processors[i].id \in Nat
                  /\ \A x \in DOMAIN stages : x < processors[i].id
             ELSE place[i] # None /\ processors[i].id = place[i]
        /\ extra \in Nat /\ \A x \in DOMAIN stages : x < extra

(* What was put out, and what the next compilation sees of it.             *)
OutInv ==
    /\ phase # "idle" => compiles > 0
    /\ Done => /\ DOMAIN route = Ids \cup {None} /\ route[None] = None
               /\ \A x \in Ids \ {None} :
                    route[x] \in DOMAIN processors /\ processors[route[x]].id = x
    /\ prev # NoTask => \A t \in DOMAIN prev : prev[t].proc \in Proc \cup {None}

CompilerInv ==
    TypeOK /\ StageInv /\ SortInv /\ FreshInv /\ FullInv /\ KeptInv /\ BuildInv /\ OutInv

-----------------------------------------------------------------------------
(***************************************************************************)
(* Renumbering the stages that are left.                                   *)
(***************************************************************************)
(* The stages of a program are numbers, and there are finitely many.       *)
LEMMA StagesFinite ==
    ASSUME WellFormed(prog), removed \subseteq DOMAIN prog.stage
    PROVE  /\ Kept \subseteq Nat /\ IsFiniteSet(Kept) /\ Cardinality(Kept) \in Nat
           /\ \A s : IsFiniteSet({r \in Kept : r < s})
           /\ \A s : Rank(s) \in Nat
<1>1. DOMAIN prog.stage \subseteq Nat /\ IsFiniteSet(DOMAIN prog.stage)
  <2>1. IsFiniteSet(DOMAIN prog.stage)
        /\ DOMAIN prog.stage = 0 .. Cardinality(DOMAIN prog.stage) - 1
    BY DEF WellFormed
  <2>2. Cardinality(DOMAIN prog.stage) \in Nat
    BY <2>1, FS_CardinalityType
  <2> QED
    BY <2>1, <2>2
<1>2. Kept \subseteq Nat /\ IsFiniteSet(Kept)
  BY <1>1, FS_Subset DEF Kept
<1>3. \A s : IsFiniteSet({r \in Kept : r < s})
  BY <1>2, FS_Subset
<1> QED
  BY <1>2, <1>3, FS_CardinalityType DEF Rank

(* Rank counts, so a later stage has a larger one.                         *)
LEMMA RankGrows ==
    ASSUME WellFormed(prog), removed \subseteq DOMAIN prog.stage,
           NEW r \in Kept, NEW s \in Kept, r < s
    PROVE  Rank(r) < Rank(s)
<1> DEFINE R == {q \in Kept : q < r}
           S == {q \in Kept : q < s}
<1>1. Kept \subseteq Nat /\ IsFiniteSet(S)
  BY StagesFinite
<1>2. R \subseteq S /\ r \in S /\ r \notin R
  <2>1. r \in Nat /\ s \in Nat /\ r < s /\ ~(r < r) /\ \A q \in Nat : q < r => q < s
    BY <1>1
  <2> QED
    BY <1>1, <2>1
<1>3. Cardinality(R) <= Cardinality(S) /\ (Cardinality(S) = Cardinality(R) => S = R)
  BY <1>1, <1>2, FS_Subset
<1>4. Cardinality(R) \in Nat /\ Cardinality(S) \in Nat
  BY StagesFinite DEF Rank
<1>5. Cardinality(R) # Cardinality(S)
  BY <1>2, <1>3
<1> QED
  BY <1>3, <1>4, <1>5 DEF Rank

(* The ranks are the numbers of the stages that are left ...               *)
LEMMA RankRange ==
    ASSUME WellFormed(prog), removed \subseteq DOMAIN prog.stage, NEW s \in Kept
    PROVE  Rank(s) \in 0 .. Cardinality(Kept) - 1
<1> DEFINE S == {q \in Kept : q < s}
<1>1. Kept \subseteq Nat /\ IsFiniteSet(Kept) /\ Cardinality(Kept) \in Nat
  BY StagesFinite
<1>2. S \subseteq Kept /\ s \notin S
  BY <1>1
<1>3. Cardinality(S) <= Cardinality(Kept) /\ (Cardinality(Kept) = Cardinality(S) => Kept = S)
  BY <1>1, <1>2, FS_Subset
<1>4. Cardinality(S) \in Nat
  BY StagesFinite DEF Rank
<1>5. Cardinality(Kept) # Cardinality(S)
  BY <1>2, <1>3
<1> QED
  BY <1>1, <1>3, <1>4, <1>5 DEF Rank

(* ... and each number is one stage's rank.                                *)
LEMMA RankOnto ==
    ASSUME WellFormed(prog), removed \subseteq DOMAIN prog.stage,
           NEW x \in 0 .. Cardinality(Kept) - 1
    PROVE  \E s \in Kept : Rank(s) = x
<1> DEFINE N == 0 .. Cardinality(Kept) - 1
           f == [s \in Kept |-> Rank(s)]
<1>1. Kept \subseteq Nat /\ IsFiniteSet(Kept) /\ Cardinality(Kept) \in Nat
  BY StagesFinite
<1>2. IsFiniteSet(N) /\ Cardinality(N) = Cardinality(Kept)
  BY <1>1, FS_Interval
<1>3. f \in [Kept -> N]
  BY RankRange
<1>4. ASSUME NEW r \in Kept, NEW s \in Kept, f[r] = f[s] PROVE r = s
  <2>1. Rank(r) = Rank(s) /\ Rank(r) \in Nat /\ r \in Nat /\ s \in Nat
    BY <1>1, <1>4, StagesFinite
  <2>2. ~(r < s) /\ ~(s < r)
    BY <2>1, RankGrows
  <2> QED
    BY <2>1, <2>2
<1> HIDE DEF N, f
<1>5. f \in Injection(Kept, N)
  BY <1>3, <1>4 DEF Injection, IsInjective
<1>6. f \in Surjection(Kept, N)
  BY <1>2, <1>5, FS_Injection
<1> QED
  BY <1>6 DEF Surjection, N, f

(* A number that is reordered is that of a stage, or None.                 *)
LEMMA ReorderRange ==
    ASSUME WellFormed(prog), removed \subseteq DOMAIN prog.stage, Kept # {},
           NEW j \in {None} \cup 0 .. Cardinality(Kept) - 1, NEW s
    PROVE  Reorder(s, j) \in {None} \cup 0 .. Cardinality(Kept) - 1
<1> DEFINE N == {None} \cup 0 .. Cardinality(Kept) - 1
<1>1. \A r \in Kept : Rank(r) \in N
  BY RankRange
<1>2. 0 \in N
  BY RankRange, StagesFinite
<1> HIDE DEF N
<1>3. None \in N /\ j \in N
  BY DEF N
<1>4. Reorder(s, j) \in N
  BY <1>1, <1>2, <1>3 DEF Reorder
<1> QED
  BY <1>4 DEF N

(* The tables of a stage are tables of the program.                        *)
LEMMA StageTablesSeq ==
    ASSUME WellFormed(prog), NEW s \in DOMAIN prog.stage
    PROVE  StageTables(s) \in Seq(DOMAIN prog.table)
<1> DEFINE switch == prog.stage[s].switch
           I == {i \in DOMAIN switch : switch[i].kind = "TABLE"}
           T == {switch[i] : i \in I}
           tables == Picked(switch, I)
<1>1. Len(switch) \in Nat /\ \A i \in I : switch[i].id \in DOMAIN prog.table
  BY DEF WellFormed
<1>2. StageTables(s) = [i \in DOMAIN tables |-> tables[i].id]
  BY DEF StageTables
<1>3. \A e \in T : e.id \in DOMAIN prog.table
  BY <1>1
<1>4. \A i \in I : switch[i] \in T
  OBVIOUS
<1> HIDE DEF switch, I, T
<1>5. tables \in Seq(T)
  BY <1>1, <1>4, PickedSeq
<1> HIDE DEF tables
<1>6. \A i \in 1 .. Len(tables) : tables[i].id \in DOMAIN prog.table
  BY <1>3, <1>5
<1>7. DOMAIN tables = 1 .. Len(tables) /\ Len(tables) \in Nat
  BY <1>5
<1> QED
  BY <1>2, <1>6, <1>7

(* The parts of a renumbered stage.                                        *)
LEMMA RecordParts ==
    ASSUME NEW s, NEW j
    PROVE  /\ StageRecord(s, j).from = s /\ StageRecord(s, j).tables = StageTables(s)
           /\ StageRecord(s, j).acts = [i \in DOMAIN acts[s] |->
                [act |-> acts[s][i].act, next |-> Reorder(acts[s][i].next, j)]]
           /\ \E e : StageRecord(s, j).default = Target(e, j)
<1> DEFINE switch == prog.stage[s].switch
           defaults == Picked(switch, {i \in DOMAIN switch : switch[i].default})
           entries == Picked(switch, {i \in DOMAIN switch : ~switch[i].default})
           e == IF defaults = <<>> THEN entries[1] ELSE defaults[Len(defaults)]
           h == prog.stage[s].headers
           t == StageTables(s)
           a == [i \in DOMAIN acts[s] |->
                   [act |-> acts[s][i].act, next |-> Reorder(acts[s][i].next, j)]]
           d == Target(e, j)
           sh == defaults = <<>>
           es == [i \in DOMAIN entries |-> Target(entries[i], j)]
<1>1. StageRecord(s, j) = [from |-> s, headers |-> h, tables |-> t, acts |-> a, default |-> d,
                           shared |-> sh, entries |-> es]
  BY Zenon DEF StageRecord
<1>2. d = Target(e, j)
  OBVIOUS
<1> HIDE DEF e, h, t, a, d, sh, es
<1>3. /\ StageRecord(s, j).from = s /\ StageRecord(s, j).tables = t
      /\ StageRecord(s, j).acts = a /\ StageRecord(s, j).default = d
  BY <1>1
<1> QED
  BY <1>2, <1>3, Zenon DEF t, a

-----------------------------------------------------------------------------
(***************************************************************************)
(* The initial state and the steps of a compilation up to the allocation.  *)
(***************************************************************************)
(* Nothing is compiled when the session starts.                            *)
LEMMA InitInv == Init => CompilerInv
<1> SUFFICES ASSUME Init PROVE CompilerInv
  OBVIOUS
<1> USE SizeAssumption DEF SizeAssumption, Init
<1>1. DOMAIN Empty = {}
  BY DEF Empty
<1>2. TypeOK
  <2>1. place \in [Proc -> DOMAIN stages \cup {None, 0}]
    BY DEF None
  <2>2. Elements(topo) = {}
    BY DEF Elements
  <2>3. DOMAIN prog.table = {} /\ removed \subseteq DOMAIN prog.stage
    BY <1>1 DEF NoProgram
  <2>4. /\ space \in [Cluster -> [sram : Int, tcam : Int]]
        /\ number \in [Cluster -> [sram : Nat, tcam : Nat]]
    OBVIOUS
  <2>5. DOMAIN config = {} /\ DOMAIN route = {}
    BY <1>1
  <2>6. /\ phase = "idle" /\ cursor = 0 /\ item = 0 /\ compiles = 0 /\ extra = 0
        /\ err \in BOOLEAN /\ incremental \in BOOLEAN /\ spoiled \subseteq Trouble
    OBVIOUS
  <2> HIDE DEF Init
  <2> QED
    BY <2>1, <2>2, <2>3, <2>4, <2>5, <2>6 DEF TypeOK
<1>3. StageInv
  <2>1. WellFormed(prog)
    <3>1. DOMAIN prog.stage = {} /\ DOMAIN prog.table = {} /\ DOMAIN prog.parser = {}
      BY <1>1 DEF NoProgram
    <3>2. /\ IsFiniteSet(DOMAIN prog.stage) /\ Cardinality(DOMAIN prog.stage) = 0
          /\ IsFiniteSet(DOMAIN prog.parser)
      BY <3>1, FS_EmptySet
    <3> QED
      BY <3>1, <3>2 DEF WellFormed
  <2>2. DOMAIN size = DOMAIN prog.table /\ DOMAIN size = {}
    BY <1>1 DEF NoProgram
  <2>3. DOMAIN stages = 0 .. 0 - 1
    BY <1>1
  <2> QED
    BY <1>1, <2>1, <2>2, <2>3 DEF StageInv
<1>4. ~Done
  BY DEF Done
<1>5. SortInv /\ FreshInv /\ FullInv /\ KeptInv /\ BuildInv /\ OutInv
  BY <1>4 DEF SortInv, Sorted, FreshInv, FullInv, KeptInv, BuildInv, OutInv
<1> QED
  BY <1>2, <1>3, <1>5 DEF CompilerInv

(* emitTask begins with a task of its own.                                 *)
LEMMA EmitTaskInv == CompilerInv /\ EmitTask => CompilerInv'
<1> SUFFICES ASSUME CompilerInv, EmitTask PROVE CompilerInv'
  OBVIOUS
<1> USE SizeAssumption DEF SizeAssumption
<1>1. PICK p \in Program, j \in Junk : Load(p, j)
  BY DEF EmitTask
<1>2. WellFormed(p) /\ j \in Int
  BY ProgramAssumption DEF ProgramAssumption
<1>3. DOMAIN Empty = {}
  BY DEF Empty
<1>4. TypeOK'
  <2>1. compiles' \in 0 .. MaxCompile
    BY <1>1 DEF EmitTask, Load, CompilerInv, TypeOK
  <2>2. place' \in [Proc -> DOMAIN stages' \cup {None, 0}]
    BY <1>1 DEF Load, None
  <2>3. Elements(topo)' = {}
    BY <1>1 DEF Load, Elements
  <2>4. /\ space' \in [Cluster -> [sram : Int, tcam : Int]]
        /\ number' \in [Cluster -> [sram : Nat, tcam : Nat]]
    BY <1>1 DEF Load
  <2>5. DOMAIN config' = DOMAIN prog'.table /\ DOMAIN route' = {}
    BY <1>1, <1>3 DEF Load
  <2>6. /\ phase' = "remove" /\ cursor' = 0 /\ item' = 0 /\ removed' = {} /\ extra' = 0
        /\ err' \in BOOLEAN /\ incremental' \in BOOLEAN /\ spoiled' \subseteq Trouble
    BY <1>1 DEF Load, CompilerInv, TypeOK
  <2> QED
    BY <2>1, <2>2, <2>3, <2>4, <2>5, <2>6 DEF TypeOK
<1>5. StageInv'
  <2>1. WellFormed(prog)'
    BY <1>1, <1>2 DEF Load, WellFormed
  <2>2. /\ DOMAIN size' = DOMAIN prog'.table
        /\ \A t \in DOMAIN size' :
             size'[t].kw \in Int /\ size'[t].vw \in Int /\ size'[t].depth \in Int
    BY <1>1, <1>2 DEF Load, WellFormed
  <2>3. DOMAIN stages' = {} /\ DOMAIN stages' = 0 .. 0 - 1
    BY <1>1, <1>3 DEF Load
  <2> QED
    BY <2>1, <2>2, <2>3 DEF StageInv
<1>6. phase' = "remove" /\ ~Done'
  BY <1>1 DEF Load, Done
<1>7. SortInv' /\ FreshInv' /\ FullInv' /\ KeptInv' /\ BuildInv'
  BY <1>1, <1>6 DEF Load, SortInv, Sorted, FreshInv, FullInv, KeptInv, BuildInv
<1>8. OutInv'
  BY <1>1, <1>6 DEF Load, OutInv, CompilerInv, TypeOK
<1> QED
  BY <1>4, <1>5, <1>7, <1>8 DEF CompilerInv

(* Merging a stage touches nothing that was allocated.                     *)
LEMMA RemoveEmptyInv == CompilerInv /\ RemoveEmpty => CompilerInv'
<1> SUFFICES ASSUME CompilerInv, RemoveEmpty PROVE CompilerInv'
  OBVIOUS
<1>1. /\ phase = "remove" /\ phase' = "remove" /\ cursor' \in Nat
      /\ removed' \subseteq DOMAIN prog.stage
      /\ UNCHANGED <<item, compiles, prev, spoiled, prog, size, stages, table_at, levelVars,
                     memVars, outVars, flagVars>>
  BY DEF RemoveEmpty, CompilerInv, TypeOK
<1>2. TypeOK'
  BY <1>1 DEF CompilerInv, TypeOK, levelVars, memVars, outVars, flagVars, Elements
<1>3. StageInv'
  BY <1>1 DEF CompilerInv, StageInv, WellFormed
<1>4. ~Done /\ ~Done'
  BY <1>1 DEF Done
<1>5. SortInv' /\ FreshInv' /\ FullInv' /\ KeptInv' /\ BuildInv' /\ OutInv'
  BY <1>1, <1>4 DEF CompilerInv, SortInv, Sorted, FreshInv, FullInv, KeptInv, BuildInv, OutInv,
                    levelVars, memVars, outVars, flagVars
<1> QED
  BY <1>2, <1>3, <1>5 DEF CompilerInv

(* After the renumbering every number is that of a stage, or None.         *)
LEMMA RenumberInv == CompilerInv /\ Renumber => CompilerInv'
<1> SUFFICES ASSUME CompilerInv, Renumber PROVE CompilerInv'
  OBVIOUS
<1>1. PICK j \in {None} \cup 0 .. Cardinality(Kept) - 1 :
        stages' = [x \in 0 .. Cardinality(Kept) - 1 |->
                     StageRecord(CHOOSE s \in Kept : Rank(s) = x, j)]
  BY DEF Renumber
<1>2. /\ phase = "remove" /\ phase' = "parsers"
      /\ UNCHANGED <<cursor, item, compiles, prev, spoiled, prog, size, acts, prims, removed,
                     levelVars, memVars, outVars, flagVars>>
  BY DEF Renumber
<1>3. WellFormed(prog) /\ removed \subseteq DOMAIN prog.stage /\ Cardinality(Kept) \in Nat
  BY StagesFinite DEF CompilerInv, StageInv, TypeOK
<1>4. topo = <<>> /\ place = [i \in Proc |-> None]
  BY <1>2 DEF CompilerInv, SortInv, Sorted, FreshInv, Done
<1>5. DOMAIN stages' = 0 .. Cardinality(Kept) - 1
  BY <1>1
<1>6. TypeOK'
  <2>1. place' \in [Proc -> DOMAIN stages' \cup {None, 0}] /\ Elements(topo') = {}
    BY <1>2, <1>4 DEF memVars, levelVars, Elements
  <2> QED
    BY <1>2, <2>1 DEF CompilerInv, TypeOK, levelVars, memVars, outVars, flagVars, Elements
<1>7. StageInv'
  <2>1. ASSUME NEW x \in DOMAIN stages'
        PROVE  /\ \A i \in DOMAIN stages'[x].acts :
                    stages'[x].acts[i].next \in DOMAIN stages' \cup {None}
               /\ stages'[x].default.kind = "STAGE" =>
                    stages'[x].default.id \in DOMAIN stages' \cup {None}
               /\ stages'[x].tables \in Seq(DOMAIN prog.table)
    <3> DEFINE s == CHOOSE r \in Kept : Rank(r) = x
    <3>1. s \in Kept
      <4>1. \E r \in Kept : Rank(r) = x
        BY <1>3, <1>5, RankOnto
      <4> QED
        BY <4>1
    <3>2. stages'[x] = StageRecord(s, j)
      BY <1>1, <1>5
    <3> HIDE DEF s
    <3>3. \A r : Reorder(r, j) \in DOMAIN stages' \cup {None}
      BY <1>3, <1>5, <3>1, ReorderRange
    <3>4. \A i \in DOMAIN stages'[x].acts :
            stages'[x].acts[i].next \in DOMAIN stages' \cup {None}
      <4>1. stages'[x].acts = [i \in DOMAIN acts[s] |->
              [act |-> acts[s][i].act, next |-> Reorder(acts[s][i].next, j)]]
        BY <3>2, RecordParts
      <4> QED
        BY <3>3, <4>1
    <3>5. \A e : Target(e, j).kind = "STAGE" => Target(e, j).id \in DOMAIN stages' \cup {None}
      BY <3>3 DEF Target
    <3>6. \E e : stages'[x].default = Target(e, j)
      <4>1. PICK e : StageRecord(s, j).default = Target(e, j)
        BY RecordParts
      <4>2. stages'[x].default = StageRecord(s, j).default
        BY <3>2
      <4> QED
        BY <4>1, <4>2
    <3>7. stages'[x].tables = StageTables(s)
      <4>1. StageRecord(s, j).tables = StageTables(s)
        BY RecordParts
      <4> QED
        BY <3>2, <4>1
    <3> QED
      BY <1>3, <3>1, <3>4, <3>5, <3>6, <3>7, StageTablesSeq DEF Kept
  <2> QED
    BY <1>2, <1>3, <1>5, <2>1 DEF CompilerInv, StageInv, WellFormed
<1>8. ~Done /\ ~Done'
  BY <1>2 DEF Done
<1>9. SortInv' /\ FreshInv' /\ FullInv' /\ KeptInv' /\ BuildInv' /\ OutInv'
  BY <1>2, <1>8 DEF CompilerInv, SortInv, Sorted, FreshInv, FullInv, KeptInv, BuildInv, OutInv,
                    levelVars, memVars, outVars, flagVars
<1> QED
  BY <1>6, <1>7, <1>9 DEF CompilerInv

(* A compiler that has died does nothing more.                             *)
LEMMA DeadInv == CompilerInv /\ phase # "idle" /\ Dead => CompilerInv'
<1> SUFFICES ASSUME CompilerInv, phase # "idle", Dead PROVE CompilerInv'
  OBVIOUS
<1>1. phase' = "dead" /\ UNCHANGED <<cursor, item, compiles, prev, spoiled, stageVars, levelVars,
                                     memVars, outVars, flagVars>>
  BY DEF Dead
<1>2. TypeOK'
  BY <1>1 DEF CompilerInv, TypeOK, stageVars, levelVars, memVars, outVars, flagVars, Elements
<1>3. StageInv'
  BY <1>1 DEF CompilerInv, StageInv, WellFormed, stageVars
<1>4. ~Done'
  BY <1>1 DEF Done
<1>5. SortInv' /\ FreshInv' /\ FullInv' /\ KeptInv' /\ BuildInv' /\ OutInv'
  BY <1>1, <1>4 DEF CompilerInv, SortInv, Sorted, FreshInv, FullInv, KeptInv, BuildInv, OutInv
<1> QED
  BY <1>2, <1>3, <1>5 DEF CompilerInv

(* The stages are numbered from 0 on, without a gap.                       *)
LEMMA StageNumbers ==
    ASSUME StageInv
    PROVE  /\ DOMAIN NextStages = DOMAIN stages
           /\ DOMAIN stages \subseteq Nat /\ IsFiniteSet(DOMAIN stages)
           /\ DOMAIN stages # {} => 0 \in DOMAIN stages
<1>1. PICK n \in Nat : DOMAIN stages = 0 .. n - 1
  BY DEF StageInv
<1>2. IsFiniteSet(DOMAIN stages)
  BY <1>1, FS_Interval
<1> QED
  BY <1>1, <1>2 DEF NextStages

(* Nothing after the sort changes the stages or their order.               *)
LEMMA SortFrame ==
    ASSUME CompilerInv, Sorted, Sorted', UNCHANGED <<stageVars, levelVars>>
    PROVE  StageInv' /\ SortInv'
<1>1. UNCHANGED <<prog, size, stages, topo>> /\ NextStages' = NextStages
  BY DEF stageVars, levelVars, NextStages
<1>2. StageInv'
  BY <1>1 DEF CompilerInv, StageInv, WellFormed
<1>3. InOrder(NextStages, topo) /\ Elements(topo) = DOMAIN stages
  BY DEF CompilerInv, SortInv
<1>4. InOrder(NextStages, topo)'
  BY <1>1, <1>3 DEF InOrder, Preds
<1>5. Elements(topo)' = DOMAIN stages'
  BY <1>1, <1>3 DEF Elements
<1>6. SortInv'
  BY <1>4, <1>5 DEF SortInv
<1> QED
  BY <1>2, <1>6

(* The stages in their order, once they are sorted.                        *)
LEMMA TopoFacts ==
    ASSUME CompilerInv, Sorted
    PROVE  /\ topo \in Seq(DOMAIN stages) /\ Len(topo) \in Nat /\ DOMAIN topo = 1 .. Len(topo)
           /\ \A i, k \in 1 .. Len(topo) : topo[i] = topo[k] => i = k
           /\ \A x \in DOMAIN stages : \E k \in 1 .. Len(topo) : topo[k] = x
           /\ \A x \in DOMAIN stages : x \in Nat /\ x # None
<1>1. InOrder(NextStages, topo) /\ Elements(topo) = DOMAIN stages
  BY DEF CompilerInv, SortInv
<1>2. DOMAIN NextStages = DOMAIN stages
  BY DEF NextStages
<1>3. DOMAIN stages \subseteq Nat
  BY StageNumbers DEF CompilerInv
<1> QED
  BY <1>1, <1>2, <1>3 DEF InOrder, Elements, None

(* The full allocation starts with nothing placed.                         *)
LEMMA FullStart ==
    ASSUME phase' = "place", cursor' = 1, Len(topo') \in Nat, ~incremental',
           place' = [i \in Proc |-> None],
           space' = [c \in Cluster |-> [sram |-> NSram, tcam |-> NTcam]]
    PROVE  FullInv'
<1>1. cursor' \in 1 .. Len(topo') + 1 /\ cursor' - 1 = 0 /\ ~Done'
  BY DEF Done
<1>2. \A i \in Proc : place'[i] = None
  OBVIOUS
<1>3. \A c \in Cluster : InCluster(c)' = {}
  BY <1>2 DEF InCluster
<1>4. ASSUME NEW c \in Cluster
      PROVE  \E m \in 0 .. ClusterProcs :
               InCluster(c)' = c * ClusterProcs .. c * ClusterProcs + m - 1
  <2>1. c \in Int /\ ClusterProcs \in Nat /\ c * ClusterProcs \in Int
    BY SizeAssumption DEF SizeAssumption, Cluster
  <2>2. c * ClusterProcs .. c * ClusterProcs + 0 - 1 = {} /\ 0 \in 0 .. ClusterProcs
    BY <2>1
  <2> QED
    BY <1>3, <2>2
<1>5. place' \in [Proc -> DOMAIN stages' \cup {None}]
  OBVIOUS
<1> QED
  BY <1>1, <1>2, <1>4, <1>5 DEF FullInv, PlacedUpTo, Dense

(* allocateParsers sorts all the stages.                                   *)
LEMMA AllocateParsersInv == CompilerInv /\ AllocateParsers => CompilerInv'
<1> SUFFICES ASSUME CompilerInv, AllocateParsers PROVE CompilerInv'
  OBVIOUS
<1>1. /\ phase = "parsers" /\ cursor' = 1
      /\ topo' = topologicalSort(NextStages) /\ Acyclic(NextStages)
      /\ phase' = IF prev = NoTask THEN "place" ELSE "keep"
      /\ UNCHANGED <<item, compiles, prev, spoiled, stageVars, memVars, outVars, flagVars>>
  BY DEF AllocateParsers
<1>2. /\ DOMAIN NextStages = DOMAIN stages
      /\ DOMAIN stages \subseteq Nat /\ IsFiniteSet(DOMAIN stages)
  BY StageNumbers DEF CompilerInv
<1>3. InOrder(NextStages, topo') /\ Elements(topo') = DOMAIN stages
  BY <1>1, <1>2, SortInOrder, SortComplete
<1>4. /\ stages' = stages /\ NextStages' = NextStages /\ place' = place /\ space' = space
      /\ processors' = processors /\ UNCHANGED <<prog, size, err, incremental, removed>>
  BY <1>1 DEF stageVars, NextStages, memVars, outVars, flagVars
<1>5. TypeOK'
  BY <1>1, <1>3 DEF CompilerInv, TypeOK, stageVars, memVars, outVars, flagVars, Elements
<1>6. StageInv'
  BY <1>4 DEF CompilerInv, StageInv, WellFormed
<1>7. SortInv'
  <2>1. Sorted'
    BY <1>1 DEF Sorted
  <2>2. InOrder(NextStages, topo)'
    BY <1>3, <1>4 DEF InOrder, Preds
  <2> QED
    BY <1>3, <1>4, <2>1, <2>2 DEF SortInv, Elements
<1>8. /\ ~err /\ ~incremental /\ place = [i \in Proc |-> None]
      /\ space = [c \in Cluster |-> [sram |-> NSram, tcam |-> NTcam]]
      /\ processors = Empty
  BY <1>1 DEF CompilerInv, FreshInv
<1>9. ~Done'
  BY <1>1 DEF Done
<1>10. FreshInv' /\ KeptInv' /\ BuildInv' /\ OutInv'
  BY <1>1, <1>4, <1>8, <1>9 DEF CompilerInv, FreshInv, KeptInv, BuildInv, OutInv
<1>11. FullInv'
  <2>1. CASE phase' = "place"
    <3>1. Len(topo') \in Nat
      BY <1>3 DEF InOrder
    <3> QED
      BY <1>1, <1>4, <1>8, <2>1, <3>1, FullStart DEF CompilerInv, TypeOK
  <2>2. CASE phase' # "place"
    BY <1>1, <1>9, <2>2 DEF FullInv
  <2> QED
    BY <2>1, <2>2
<1> QED
  BY <1>5, <1>6, <1>7, <1>10, <1>11 DEF CompilerInv

(* When nothing can be kept everything is allocated anew.                  *)
LEMMA KeepFailsInv == CompilerInv /\ KeepFails => CompilerInv'
<1> SUFFICES ASSUME CompilerInv, KeepFails PROVE CompilerInv'
  OBVIOUS
<1>1. /\ phase = "keep" /\ phase' = "place" /\ cursor' = 1
      /\ UNCHANGED <<item, compiles, prev, spoiled, stageVars, levelVars, memVars, outVars, flagVars>>
  BY DEF KeepFails
<1>2. /\ stages' = stages /\ NextStages' = NextStages /\ place' = place /\ space' = space
      /\ UNCHANGED <<prog, size, err, incremental, removed, topo>>
  BY <1>1 DEF stageVars, NextStages, memVars, flagVars, levelVars
<1>3. TypeOK'
  BY <1>1 DEF CompilerInv, TypeOK, stageVars, levelVars, memVars, outVars, flagVars, Elements
<1>4. Sorted /\ Sorted'
  BY <1>1 DEF Sorted
<1>5. Len(topo) \in Nat
  BY <1>4, TopoFacts
<1>6. StageInv' /\ SortInv'
  BY <1>1, <1>4, SortFrame
<1>7. /\ ~err /\ ~incremental /\ place = [i \in Proc |-> None]
      /\ space = [c \in Cluster |-> [sram |-> NSram, tcam |-> NTcam]]
  BY <1>1 DEF CompilerInv, FreshInv
<1>8. ~Done'
  BY <1>1 DEF Done
<1>9. FreshInv' /\ KeptInv' /\ BuildInv' /\ OutInv'
  BY <1>1, <1>2, <1>7, <1>8 DEF CompilerInv, FreshInv, KeptInv, BuildInv, OutInv, outVars
<1>10. FullInv'
  <2>1. Len(topo') \in Nat
    BY <1>2, <1>5
  <2> QED
    BY <1>1, <1>2, <1>7, <2>1, FullStart
<1> QED
  BY <1>3, <1>6, <1>9, <1>10 DEF CompilerInv

-----------------------------------------------------------------------------
(***************************************************************************)
(* The full allocation.                                                    *)
(***************************************************************************)
(* Processor m of cluster c.                                               *)
LEMMA ProcOfCluster ==
    ASSUME NEW c \in Cluster, NEW m \in 0 .. ClusterProcs - 1
    PROVE  c * ClusterProcs + m \in Proc /\ ClusterOf(c * ClusterProcs + m) = c
<1> DEFINE P == ClusterProcs
<1>1. c \in Nat /\ P \in Nat \ {0} /\ NCluster \in Nat \ {0} /\ c + 1 <= NCluster
  BY SizeAssumption DEF SizeAssumption, Cluster
<1>2. m \in Nat /\ m < P
  BY <1>1
<1> HIDE DEF P
<1>3. c * P \in Nat /\ NCluster * P \in Nat
  BY <1>1, Z3
<1>4. (c + 1) * P <= NCluster * P
  BY <1>1, Z3
<1>5. (c + 1) * P = c * P + P
  BY <1>1, Z3
<1>6. c * P + m \in 0 .. NCluster * P - 1
  BY <1>1, <1>2, <1>3, <1>4, <1>5
<1>7. (c * P + m) \div P = c
  BY <1>1, <1>2, <1>3, <1>5, Z3
<1> QED
  BY <1>6, <1>7 DEF P, Proc, ClusterOf

(* The space of a stage is a number.                                       *)
LEMMA SpaceInt ==
    ASSUME StageInv, NEW x \in DOMAIN stages
    PROVE  SramSpace(x) \in Int /\ TcamSpace(x) \in Int
<1> DEFINE tables == stages[x].tables
           v == [i \in DOMAIN tables |-> SramOf(tables[i])]
           w == [i \in DOMAIN tables |-> TcamOf(tables[i])]
<1>1. tables \in Seq(DOMAIN prog.table)
  BY DEF StageInv
<1>2. \A t \in DOMAIN prog.table : KeyBlocks(t) \in Int /\ ValueBlocks(t) \in Int
  BY DEF StageInv, KeyBlocks, ValueBlocks
<1>3. \A t \in DOMAIN prog.table : SramOf(t) \in Int /\ TcamOf(t) \in Int
  BY <1>2 DEF SramOf, TcamOf
<1> HIDE DEF tables
<1>4. Len(tables) \in Nat /\ DOMAIN tables = 1 .. Len(tables)
      /\ \A i \in 1 .. Len(tables) : tables[i] \in DOMAIN prog.table
  BY <1>1
<1>5. \A i \in 1 .. Len(tables) : v[i] \in Int /\ w[i] \in Int
  BY <1>3, <1>4
<1> HIDE DEF v, w
<1>6. Total(v, Len(tables)) \in Int /\ Total(w, Len(tables)) \in Int
  BY <1>4, <1>5, TotalInt
<1> QED
  BY <1>6 DEF SramSpace, TcamSpace, v, w, tables

(* The cluster that is found has room, and a free processor.               *)
LEMMA FirstFitRoom ==
    ASSUME NEW x, \E d \in Cluster : HasRoom(d, x)
    PROVE  /\ FirstFit(x) \in Cluster /\ HasRoom(FirstFit(x), x)
           /\ \A d \in Cluster : HasRoom(d, x) => FirstFit(x) <= d
<1> DEFINE S == {c \in Cluster : HasRoom(c, x)}
<1>1. S \subseteq Nat /\ S # {}
  BY SizeAssumption DEF SizeAssumption, Cluster
<1>2. Min(S) \in S /\ \A d \in S : Min(S) <= d
  BY <1>1, MinLeast
<1> QED
  BY <1>2 DEF FirstFit

(* First fit keeps the stages apart and the clusters dense, and puts the   *)
(* first stage on processor 0: with nothing placed all clusters are equal. *)
LEMMA PlaceStageInv == CompilerInv /\ PlaceStage => CompilerInv'
<1> SUFFICES ASSUME CompilerInv, PlaceStage PROVE CompilerInv'
  OBVIOUS
<1> DEFINE x == topo[cursor]
           c == FirstFit(x)
           p == c * ClusterProcs + Cardinality(InCluster(c))
           room == \E d \in Cluster : HasRoom(d, x)
<1>1. /\ phase = "place" /\ phase' = "place" /\ cursor \in DOMAIN topo /\ cursor' = cursor + 1
      /\ UNCHANGED <<item, compiles, prev, spoiled, stageVars, levelVars, number, bitmap, config,
                     outVars, incremental>>
  BY DEF PlaceStage
<1>2. /\ room => /\ place' = [place EXCEPT ![p] = x]
                 /\ space' = [space EXCEPT ![c] = [sram |-> @.sram - SramSpace(x),
                                                   tcam |-> @.tcam - TcamSpace(x)]]
                 /\ err' = err
      /\ ~room => err' = TRUE /\ UNCHANGED <<place, space>>
  BY DEF PlaceStage
<1>3. /\ stages' = stages /\ NextStages' = NextStages
      /\ UNCHANGED <<prog, size, removed, topo, route, extra, incremental>>
  BY <1>1 DEF stageVars, NextStages, outVars, levelVars
<1>4. /\ InOrder(NextStages, topo) /\ Elements(topo) = DOMAIN stages
      /\ topo \in Seq(DOMAIN stages) /\ Len(topo) \in Nat /\ DOMAIN topo = 1 .. Len(topo)
      /\ \A i, k \in 1 .. Len(topo) : topo[i] = topo[k] => i = k
  <2>1. InOrder(NextStages, topo) /\ Elements(topo) = DOMAIN stages
    BY <1>1 DEF CompilerInv, SortInv, Sorted
  <2>2. DOMAIN NextStages = DOMAIN stages
    BY DEF NextStages
  <2> QED
    BY <2>1, <2>2 DEF InOrder
<1>5. /\ x \in DOMAIN stages /\ x # None /\ cursor \in 1 .. Len(topo) /\ cursor \in Nat
      /\ \A y \in DOMAIN stages : y # None
  BY <1>1, <1>4, StageNumbers DEF CompilerInv, None
<1>6. ~incremental /\ cursor' - 1 = cursor
  BY <1>1, <1>5 DEF CompilerInv, FullInv
<1>7. /\ place \in [Proc -> DOMAIN stages \cup {None}]
      /\ \A i, k \in Proc : place[i] = place[k] /\ place[i] # None => i = k
      /\ \A i \in Proc : place[i] # None => \E k \in 1 .. cursor - 1 : place[i] = topo[k]
      /\ ~err => \A k \in 1 .. cursor - 1 : \E i \in Proc : place[i] = topo[k]
      /\ ~err /\ cursor > 1 => place[0] = topo[1]
      /\ \A d \in Cluster : \E m \in 0 .. ClusterProcs :
           InCluster(d) = d * ClusterProcs .. d * ClusterProcs + m - 1
      /\ cursor = 1 => space = [d \in Cluster |-> [sram |-> NSram, tcam |-> NTcam]]
  BY <1>1, <1>5, <1>6 DEF CompilerInv, FullInv, PlacedUpTo, Dense
<1>8. ~Done'
  BY <1>1 DEF Done
<1>9. Sorted /\ Sorted'
  BY <1>1 DEF Sorted
<1>10. StageInv' /\ SortInv'
  BY <1>1, <1>9, SortFrame
<1>11. FreshInv' /\ KeptInv' /\ BuildInv' /\ OutInv'
  BY <1>1, <1>3, <1>6, <1>8 DEF CompilerInv, FreshInv, KeptInv, BuildInv, OutInv, outVars
<1> HIDE DEF x
<1>12. CASE ~room
  <2>1. UNCHANGED <<place, space>> /\ err' = TRUE
    BY <1>2, <1>12
  <2>2. TypeOK'
    BY <1>1, <1>3, <1>5, <2>1
       DEF CompilerInv, TypeOK, stageVars, levelVars, outVars, Elements
  <2>3. \A d : InCluster(d)' = InCluster(d)
    BY <2>1 DEF InCluster
  <2>4. FullInv'
    BY <1>1, <1>3, <1>4, <1>5, <1>6, <1>7, <1>8, <2>1, <2>3 DEF FullInv, PlacedUpTo, Dense
  <2> QED
    BY <1>10, <1>11, <2>2, <2>4 DEF CompilerInv
<1>13. CASE room
  <2>1. c \in Cluster /\ HasRoom(c, x) /\ \A d \in Cluster : HasRoom(d, x) => c <= d
    BY <1>13, FirstFitRoom
  <2> HIDE DEF c
  <2>2. PICK m \in 0 .. ClusterProcs :
          InCluster(c) = c * ClusterProcs .. c * ClusterProcs + m - 1
    BY <1>7, <2>1
  <2>3. /\ c \in Nat /\ ClusterProcs \in Nat \ {0} /\ m \in Nat /\ c * ClusterProcs \in Nat
        /\ 0 \in Cluster /\ 0 \in Proc
    <3>1. c \in Nat /\ ClusterProcs \in Nat \ {0} /\ m \in Nat /\ 0 \in Cluster
      BY <2>1, SizeAssumption DEF SizeAssumption, Cluster
    <3>2. 0 \in 0 .. ClusterProcs - 1 /\ 0 * ClusterProcs + 0 = 0
      BY <3>1
    <3> QED
      BY <3>1, <3>2, ProcOfCluster
  <2>4. Cardinality(InCluster(c)) = m
    BY <2>2, <2>3, FS_Interval
  <2>5. m \in 0 .. ClusterProcs - 1
    BY <2>1, <2>3, <2>4 DEF HasRoom
  <2>6. p = c * ClusterProcs + m /\ p \in Proc /\ ClusterOf(p) = c
    BY <2>1, <2>4, <2>5, ProcOfCluster
  <2>7. place[p] = None
    <3>1. p \notin InCluster(c)
      BY <2>2, <2>3, <2>6
    <3> QED
      BY <2>6, <3>1 DEF InCluster
  <2>8. place' = [place EXCEPT ![p] = x] /\ err' = err
    BY <1>2, <1>13
  <2> HIDE DEF p
  <2>9. /\ place' \in [Proc -> DOMAIN stages \cup {None}]
        /\ place'[p] = x /\ \A i \in Proc : i # p => place'[i] = place[i]
    BY <1>5, <1>7, <2>6, <2>8
  <2>10. space' \in [Cluster -> [sram : Int, tcam : Int]]
    <3>1. SramSpace(x) \in Int /\ TcamSpace(x) \in Int
      BY <1>5, SpaceInt DEF CompilerInv
    <3>2. space[c].sram \in Int /\ space[c].tcam \in Int
      BY <2>1 DEF CompilerInv, TypeOK
    <3> DEFINE r == [sram |-> space[c].sram - SramSpace(x), tcam |-> space[c].tcam - TcamSpace(x)]
    <3>3. r \in [sram : Int, tcam : Int]
      BY <3>1, <3>2
    <3>4. space' = [space EXCEPT ![c] = r]
      BY <1>2, <1>13 DEF c
    <3> HIDE DEF r
    <3> QED
      BY <2>1, <3>3, <3>4 DEF CompilerInv, TypeOK
  <2>11. TypeOK'
    BY <1>1, <1>3, <1>5, <2>8, <2>9, <2>10
       DEF CompilerInv, TypeOK, stageVars, levelVars, outVars, Elements
  <2>12. \A i \in Proc : place[i] # x
    BY <1>1, <1>4, <1>5, <1>7 DEF x
  <2>13. \A i, k \in Proc : place'[i] = place'[k] /\ place'[i] # None => i = k
    BY <1>7, <2>9, <2>12
  <2>14. \A i \in Proc : place'[i] # None => \E k \in 1 .. cursor : place'[i] = topo[k]
    BY <1>5, <1>7, <2>9 DEF x
  <2>15. ASSUME ~err, NEW k \in 1 .. cursor PROVE \E i \in Proc : place'[i] = topo[k]
    <3>1. CASE k = cursor
      BY <2>6, <2>9, <3>1 DEF x
    <3>2. CASE k \in 1 .. cursor - 1
      <4>1. PICK i \in Proc : place[i] = topo[k]
        BY <1>7, <2>15, <3>2
      <4>2. topo[k] # None
        BY <1>4, <1>5
      <4> QED
        BY <2>7, <2>9, <4>1, <4>2
    <3> QED
      BY <1>5, <3>1, <3>2
  <2>16. ASSUME ~err PROVE place'[0] = topo[1]
    <3>1. CASE cursor = 1
      <4>1. \A d \in Cluster : InCluster(d) = {}
        BY <1>7, <3>1 DEF InCluster
      <4>2. HasRoom(0, x)
        <5>1. InCluster(0) = InCluster(c)
          BY <2>1, <2>3, <4>1, Zenon
        <5>2. space = [d \in Cluster |-> [sram |-> NSram, tcam |-> NTcam]]
          BY <1>7, <3>1
        <5>3. space[0] = space[c]
          BY <2>1, <2>3, <5>2
        <5> QED
          BY <2>1, <5>1, <5>3 DEF HasRoom
      <4>3. c = 0
        BY <2>1, <2>3, <4>2
      <4>4. m = 0
        BY <2>1, <2>4, <4>1, FS_EmptySet
      <4>5. p = 0
        BY <2>3, <2>6, <4>3, <4>4
      <4> QED
        BY <2>9, <3>1, <4>5 DEF x
    <3>2. CASE cursor # 1
      <4>1. place[0] = topo[1] /\ topo[1] # None
        BY <1>4, <1>5, <1>7, <2>16, <3>2
      <4> QED
        BY <2>3, <2>7, <2>9, <4>1
    <3> QED
      BY <3>1, <3>2
  <2>17. ASSUME NEW d \in Cluster
         PROVE  \E n \in 0 .. ClusterProcs :
                  InCluster(d)' = d * ClusterProcs .. d * ClusterProcs + n - 1
    <3>1. CASE d = c
      <4>1. InCluster(d)' = InCluster(d) \cup {p}
        BY <1>5, <2>6, <2>9, <3>1 DEF InCluster
      <4>2. InCluster(d) = d * ClusterProcs .. d * ClusterProcs + m - 1
        BY <2>2, <3>1
      <4>3. p = d * ClusterProcs + m /\ d * ClusterProcs \in Nat
        BY <2>3, <2>6, <3>1
      <4>4. InCluster(d)' = d * ClusterProcs .. d * ClusterProcs + (m + 1) - 1
        BY <2>3, <4>1, <4>2, <4>3
      <4> QED
        BY <2>3, <2>5, <4>4
    <3>2. CASE d # c
      <4>1. InCluster(d)' = InCluster(d)
        BY <2>6, <2>9, <3>2 DEF InCluster
      <4> QED
        BY <1>7, <4>1
    <3> QED
      BY <3>1, <3>2
  <2>18. FullInv'
    BY <1>1, <1>3, <1>4, <1>5, <1>6, <2>8, <2>9, <2>13, <2>14, <2>15, <2>16, <2>17, <1>8
       DEF FullInv, PlacedUpTo, Dense
  <2> QED
    BY <1>10, <1>11, <2>11, <2>18 DEF CompilerInv
<1> QED
  BY <1>12, <1>13


(* The allocation is done when every stage has had its turn.               *)
LEMMA PlacedInv == CompilerInv /\ Placed => CompilerInv'
<1> SUFFICES ASSUME CompilerInv, Placed PROVE CompilerInv'
  OBVIOUS
<1>1. /\ phase = "place" /\ phase' = "config" /\ cursor \notin DOMAIN topo
      /\ cursor' = 0 /\ item' = 1
      /\ UNCHANGED <<compiles, prev, spoiled, stageVars, levelVars, memVars, outVars, flagVars>>
  BY DEF Placed
<1>2. UNCHANGED <<stages, topo, place, err, incremental, processors>>
  BY <1>1 DEF stageVars, levelVars, memVars, outVars, flagVars
<1>3. TypeOK'
  BY <1>1 DEF CompilerInv, TypeOK, stageVars, levelVars, memVars, outVars, flagVars, Elements
<1>4. Sorted /\ Sorted' /\ ~Done'
  BY <1>1 DEF Sorted, Done
<1>5. StageInv' /\ SortInv'
  BY <1>1, <1>4, SortFrame
<1>6. FreshInv' /\ KeptInv' /\ BuildInv' /\ OutInv'
  BY <1>1, <1>2, <1>4 DEF CompilerInv, FreshInv, KeptInv, BuildInv, OutInv
<1>7. cursor \in 1 .. Len(topo) + 1 /\ PlacedUpTo(cursor - 1) /\ ~incremental
  BY <1>1 DEF CompilerInv, FullInv
<1>8. cursor - 1 = Len(topo)
  BY <1>1, <1>4, <1>7, TopoFacts
<1>9. PlacedUpTo(Len(topo))
  BY <1>7, <1>8
<1>10. FullInv'
  BY <1>1, <1>2, <1>7, <1>9 DEF FullInv, PlacedUpTo
<1> QED
  BY <1>3, <1>5, <1>6, <1>10 DEF CompilerInv

(* setConfig only changes the blocks of a table and the next numbers.      *)
LEMMA SetConfigInv == CompilerInv /\ SetConfig => CompilerInv'
<1> SUFFICES ASSUME CompilerInv, SetConfig PROVE CompilerInv'
  OBVIOUS
<1> DEFINE t == stages[cursor].tables[item]
           c == StageCluster(cursor)
           keys == NonNeg(KeyBlocks(t))
           values == NonNeg(ValueBlocks(t))
           y1 == IF InTcam(t) THEN number[c].sram ELSE number[c].sram + keys
           r == [tcam |-> IF InTcam(t) THEN number[c].tcam + keys ELSE number[c].tcam,
                 sram |-> y1 + values]
<1>1. /\ phase = "config" /\ phase' = "config" /\ cursor \in DOMAIN stages
      /\ item \in DOMAIN stages[cursor].tables /\ item' = item + 1
      /\ number' = [number EXCEPT ![c] = r]
      /\ UNCHANGED <<cursor, compiles, prev, spoiled, stageVars, levelVars, place, space, bitmap,
                     outVars, flagVars>>
  BY DEF SetConfig
<1>2. DOMAIN config' = DOMAIN config
  BY DEF SetConfig
<1>3. keys \in Nat /\ values \in Nat
  <2>1. stages[cursor].tables \in Seq(DOMAIN prog.table)
    BY <1>1 DEF CompilerInv, StageInv
  <2>2. t \in DOMAIN prog.table
    BY <1>1, <2>1
  <2> HIDE DEF t
  <2>3. KeyBlocks(t) \in Int /\ ValueBlocks(t) \in Int
    BY <2>2 DEF CompilerInv, StageInv, KeyBlocks, ValueBlocks
  <2> QED
    BY <2>3 DEF NonNeg
<1> HIDE DEF keys, values, t
<1>4. c \in Cluster => r \in [sram : Nat, tcam : Nat]
  <2>1. c \in Cluster => number[c].sram \in Nat /\ number[c].tcam \in Nat
    BY DEF CompilerInv, TypeOK
  <2> HIDE DEF c
  <2> QED
    BY <1>3, <2>1
<1> HIDE DEF c, r, y1
<1>5. number' \in [Cluster -> [sram : Nat, tcam : Nat]]
  BY <1>1, <1>4 DEF CompilerInv, TypeOK
<1>6. UNCHANGED <<stages, topo, err, incremental, processors, prog, removed, route, extra>>
  BY <1>1 DEF stageVars, levelVars, outVars, flagVars
<1>7. TypeOK'
  BY <1>1, <1>2, <1>5, <1>6 DEF CompilerInv, TypeOK, Elements
<1>8. Sorted /\ Sorted' /\ ~Done'
  BY <1>1 DEF Sorted, Done
<1>9. StageInv' /\ SortInv'
  BY <1>1, <1>8, SortFrame
<1>10. FreshInv' /\ FullInv' /\ KeptInv' /\ BuildInv' /\ OutInv'
  BY <1>1, <1>6, <1>8
     DEF CompilerInv, FreshInv, FullInv, KeptInv, BuildInv, OutInv, PlacedUpTo
<1> QED
  BY <1>7, <1>9, <1>10 DEF CompilerInv

(* The next stage's tables.                                                *)
LEMMA NextConfigInv == CompilerInv /\ NextConfig => CompilerInv'
<1> SUFFICES ASSUME CompilerInv, NextConfig PROVE CompilerInv'
  OBVIOUS
<1>1. /\ phase = "config" /\ phase' = "config" /\ cursor' = cursor + 1 /\ item' = 1
      /\ UNCHANGED <<compiles, prev, spoiled, stageVars, levelVars, memVars, outVars, flagVars>>
  BY DEF NextConfig
<1>2. UNCHANGED <<stages, topo, place, err, incremental, processors>>
  BY <1>1 DEF stageVars, levelVars, memVars, outVars, flagVars
<1>3. TypeOK'
  BY <1>1 DEF CompilerInv, TypeOK, stageVars, levelVars, memVars, outVars, flagVars, Elements
<1>4. Sorted /\ Sorted' /\ ~Done'
  BY <1>1 DEF Sorted, Done
<1>5. StageInv' /\ SortInv'
  BY <1>1, <1>4, SortFrame
<1>6. FreshInv' /\ FullInv' /\ KeptInv' /\ BuildInv' /\ OutInv'
  BY <1>1, <1>2, <1>4 DEF CompilerInv, FreshInv, FullInv, KeptInv, BuildInv, OutInv, PlacedUpTo
<1> QED
  BY <1>3, <1>5, <1>6 DEF CompilerInv

(* The processors that only parse are numbered beyond the stages.          *)
LEMMA FirstExtraBeyond ==
    ASSUME CompilerInv, Sorted
    PROVE  FirstExtra \in Nat /\ \A x \in DOMAIN stages : x < FirstExtra
<1> DEFINE S == Elements(topo) \cup {0}
<1>1. Elements(topo) = DOMAIN stages
  BY DEF CompilerInv, SortInv
<1>2. PICK n \in Nat : DOMAIN stages = 0 .. n - 1
  BY DEF CompilerInv, StageInv
<1>3. \E m \in S : \A x \in S : m >= x
  <2>1. CASE n = 0
    <3>1. S = {0}
      BY <1>1, <1>2, <2>1
    <3> QED
      BY <3>1
  <2>2. CASE n # 0
    <3>1. n - 1 \in S /\ \A x \in S : n - 1 >= x
      BY <1>1, <1>2, <2>2
    <3> QED
      BY <3>1
  <2> QED
    BY <2>1, <2>2
<1>4. S \subseteq Nat
  BY <1>1, <1>2
<1> HIDE DEF S
<1>5. Max(S) \in S /\ \A x \in S : Max(S) >= x
  BY <1>3, Zenon DEF Max
<1> DEFINE m == Max(S)
<1>6. m \in Nat /\ \A x \in S : m >= x
  BY <1>4, <1>5
<1> HIDE DEF m
<1>7. m + 1 \in Nat /\ \A x \in S : x < m + 1
  BY <1>4, <1>6
<1>8. \A x \in DOMAIN stages : x \in S
  BY <1>1 DEF S
<1> QED
  BY <1>7, <1>8 DEF FirstExtra, S, m

(* The processors are built from the placement, one after the other.       *)
LEMMA BuildStart ==
    ASSUME CompilerInv, Sorted, phase' = "build", cursor' = 0, extra' = FirstExtra,
           processors = Empty, UNCHANGED <<processors, stages>>
    PROVE  BuildInv'
<1>1. DOMAIN processors' = {}
  BY DEF Empty
<1>2. \A i \in Proc : i \in Nat
  BY SizeAssumption DEF SizeAssumption, Proc
<1>3. \A i \in Proc : ~(i < cursor')
  BY <1>2
<1>4. FirstExtra \in Nat /\ \A x \in DOMAIN stages : x < FirstExtra
  BY FirstExtraBeyond
<1> QED
  BY <1>1, <1>3, <1>4 DEF BuildInv

(* The full allocation hands over to the build.                            *)
LEMMA ConfiguredInv == CompilerInv /\ Configured => CompilerInv'
<1> SUFFICES ASSUME CompilerInv, Configured PROVE CompilerInv'
  OBVIOUS
<1>1. /\ phase = "config" /\ phase' = "build" /\ cursor' = 0 /\ extra' = FirstExtra
      /\ UNCHANGED <<item, compiles, prev, spoiled, stageVars, levelVars, memVars, processors, route,
                     flagVars>>
  BY DEF Configured
<1>2. UNCHANGED <<stages, topo, place, err, incremental, processors>>
  BY <1>1 DEF stageVars, levelVars, memVars, flagVars
<1>3. Sorted /\ Sorted' /\ ~Done'
  BY <1>1 DEF Sorted, Done
<1>4. TypeOK'
  BY <1>1, <1>3, FirstExtraBeyond
     DEF CompilerInv, TypeOK, stageVars, levelVars, memVars, flagVars, Elements
<1>5. StageInv' /\ SortInv'
  BY <1>1, <1>3, SortFrame
<1>6. processors = Empty
  BY <1>1 DEF CompilerInv, FreshInv
<1>7. BuildInv'
  BY <1>1, <1>2, <1>3, <1>6, BuildStart
<1>8. FreshInv' /\ FullInv' /\ KeptInv' /\ OutInv'
  BY <1>1, <1>2, <1>3 DEF CompilerInv, FreshInv, FullInv, KeptInv, OutInv, PlacedUpTo
<1> QED
  BY <1>4, <1>5, <1>7, <1>8 DEF CompilerInv


-----------------------------------------------------------------------------
(***************************************************************************)
(* The allocation that keeps what was there.                               *)
(***************************************************************************)
(* Every processor is one of a cluster.                                    *)
LEMMA ClusterRange ==
    ASSUME NEW i \in Proc
    PROVE  ClusterOf(i) \in Cluster
<1> DEFINE P == ClusterProcs
           q == i \div P
<1>1. P \in Nat \ {0} /\ NCluster \in Nat \ {0} /\ i \in Nat
  BY SizeAssumption DEF SizeAssumption, Proc
<1>2. i < NCluster * P
  <2>1. NCluster * P \in Nat
    BY <1>1, Z3
  <2> HIDE DEF P
  <2> QED
    BY <1>1, <2>1 DEF Proc, P
<1> HIDE DEF P
<1>3. q \in Nat /\ q * P <= i
  BY <1>1, Z3
<1> HIDE DEF q
<1>4. q < NCluster
  <2> SUFFICES ASSUME NCluster <= q PROVE FALSE
    BY <1>1, <1>3
  <2>1. NCluster * P <= q * P
    BY <1>1, <1>3, Z3
  <2>2. NCluster * P \in Nat /\ q * P \in Nat
    BY <1>1, <1>3, Z3
  <2> QED
    BY <1>1, <1>2, <1>3, <2>1, <2>2
<1> QED
  BY <1>1, <1>3, <1>4 DEF q, P, Cluster, ClusterOf

(* The old clusters of a stage are clusters.                               *)
LEMMA OldClustersRange ==
    ASSUME OutInv, prev # NoTask, NEW x
    PROVE  OldClusters(x) \subseteq Cluster
<1>0. 0 \in Cluster
  BY SizeAssumption DEF SizeAssumption, Cluster
<1> SUFFICES ASSUME NEW c \in OldClusters(x), c # 0 PROVE c \in Cluster
  BY <1>0
<1>1. PICK t \in Existing : c = NonNeg(ClusterOf(prev[t].proc))
  BY DEF OldClusters
<1> DEFINE p == prev[t].proc
<1>2. p \in Proc \cup {None}
  BY DEF OutInv, Existing
<1> HIDE DEF p
<1>3. CASE p \in Proc
  <2>1. ClusterOf(p) \in Cluster
    BY <1>3, ClusterRange
  <2> QED
    BY <1>1, <2>1, SizeAssumption DEF NonNeg, p, SizeAssumption, Cluster
<1>4. CASE p = None
  <2>1. 0 \in Cluster /\ ClusterProcs \in Nat \ {0}
    BY SizeAssumption DEF SizeAssumption, Cluster
  <2>2. (-1) \div ClusterProcs < 0
    BY <2>1, Z3
  <2>3. ClusterOf(p) < 0
    BY <1>4, <2>2 DEF ClusterOf, None
  <2> QED
    BY <1>1, <2>1, <2>3 DEF NonNeg, p
<1> QED
  BY <1>2, <1>3, <1>4

(* The stages of a cluster up to one of them are counted in their order.   *)
LEMMA UpToGrows ==
    ASSUME CompilerInv, Sorted, NEW a \in 1 .. Len(topo)
    PROVE  /\ Cardinality(UpTo(topo[a])) \in Nat \ {0}
           /\ \A b \in 1 .. Len(topo) :
                a < b /\ OldCluster(topo[a]) = OldCluster(topo[b])
                => Cardinality(UpTo(topo[a])) < Cardinality(UpTo(topo[b]))
<1> DEFINE U(b) == {topo[k] : k \in {i \in 1 .. b : OldCluster(topo[i]) = OldCluster(topo[b])}}
<1>1. /\ Len(topo) \in Nat /\ DOMAIN topo = 1 .. Len(topo)
      /\ \A i, k \in 1 .. Len(topo) : topo[i] = topo[k] => i = k
      /\ \A k \in 1 .. Len(topo) : topo[k] \in DOMAIN stages
  BY TopoFacts
<1>2. IsFiniteSet(DOMAIN stages)
  BY StageNumbers DEF CompilerInv
<1>3. ASSUME NEW b \in 1 .. Len(topo)
      PROVE  UpTo(topo[b]) = U(b) /\ IsFiniteSet(U(b)) /\ Cardinality(U(b)) \in Nat
  <2> DEFINE n == CHOOSE k \in DOMAIN topo : topo[k] = topo[b]
  <2>1. n \in DOMAIN topo /\ topo[n] = topo[b]
    BY <1>1
  <2> HIDE DEF n
  <2>2. n = b
    BY <1>1, <2>1
  <2>3. UpTo(topo[b]) = {topo[k] : k \in {i \in 1 .. n : OldCluster(topo[i]) = OldCluster(topo[b])}}
    BY DEF UpTo, n
  <2>4. UpTo(topo[b]) = U(b)
    BY <2>2, <2>3
  <2>5. U(b) \subseteq DOMAIN stages
    BY <1>1
  <2>6. IsFiniteSet(U(b))
    BY <1>2, <2>5, FS_Subset
  <2> QED
    BY <2>4, <2>6, FS_CardinalityType
<1>4. topo[a] \in U(a)
  BY <1>1
<1>5. ASSUME NEW b \in 1 .. Len(topo), a < b, OldCluster(topo[a]) = OldCluster(topo[b])
      PROVE  Cardinality(U(a)) < Cardinality(U(b))
  <2>1. U(a) \subseteq U(b)
    BY <1>1, <1>5
  <2>2. topo[b] \in U(b) /\ topo[b] \notin U(a)
    BY <1>1, <1>5
  <2> HIDE DEF U
  <2>3. IsFiniteSet(U(b)) /\ Cardinality(U(a)) \in Nat /\ Cardinality(U(b)) \in Nat
    BY <1>3
  <2>4. Cardinality(U(a)) <= Cardinality(U(b)) /\ (Cardinality(U(a)) = Cardinality(U(b)) => U(b) = U(a))
    BY <2>1, <2>3, FS_Subset
  <2> QED
    BY <2>2, <2>3, <2>4
<1> HIDE DEF U
<1>6. Cardinality(U(a)) # 0
  BY <1>3, <1>4, FS_EmptySet
<1> QED
  BY <1>3, <1>5, <1>6


(* Where a stage is put in its old cluster.                                *)
Slot(x) == OldCluster(x) * ClusterProcs + Cardinality(UpTo(x)) - 1

(* Each stage gets a processor of its own in its old cluster.              *)
LEMMA SlotsApart ==
    ASSUME CompilerInv, Sorted, prev # NoTask, CanKeep, NEW x \in DOMAIN stages
    PROVE  /\ Slot(x) \in Proc /\ ClusterOf(Slot(x)) = OldCluster(x)
           /\ \A y \in DOMAIN stages : Slot(y) = Slot(x) => y = x
<1>1. ASSUME NEW y \in DOMAIN stages
      PROVE  /\ OldCluster(y) \in Cluster
             /\ Cardinality(UpTo(y)) \in 1 .. ClusterProcs
             /\ Slot(y) \in Proc /\ ClusterOf(Slot(y)) = OldCluster(y)
             /\ Slot(y) = OldCluster(y) * ClusterProcs + Cardinality(UpTo(y)) - 1
             /\ OldCluster(y) * ClusterProcs \in Int
  <2>1. OldCluster(y) \in OldClusters(y)
    BY Zenon DEF CanKeep, OldCluster
  <2>2. OldCluster(y) \in Cluster
    BY <2>1, OldClustersRange DEF CompilerInv
  <2>3. PICK k \in 1 .. Len(topo) : topo[k] = y
    BY TopoFacts
  <2> DEFINE n == Cardinality(UpTo(y))
             c == OldCluster(y)
  <2>4. n \in Nat \ {0}
    BY <2>3, UpToGrows
  <2>5. n <= ClusterProcs /\ ClusterProcs \in Nat
    BY SizeAssumption DEF CanKeep, SizeAssumption
  <2> HIDE DEF n, c
  <2>6. c \in Cluster /\ n - 1 \in 0 .. ClusterProcs - 1
    BY <2>2, <2>4, <2>5 DEF c
  <2>7. c * ClusterProcs + (n - 1) \in Proc /\ ClusterOf(c * ClusterProcs + (n - 1)) = c
    BY <2>6, ProcOfCluster
  <2>8. c \in Int /\ c * ClusterProcs \in Int
    BY <2>5, <2>6, SizeAssumption DEF SizeAssumption, Cluster
  <2>9. c * ClusterProcs + (n - 1) = c * ClusterProcs + n - 1
    BY <2>4, <2>8
  <2> QED
    BY <2>2, <2>4, <2>5, <2>7, <2>8, <2>9 DEF Slot, n, c
<1>2. ASSUME NEW y \in DOMAIN stages, Slot(y) = Slot(x) PROVE y = x
  <2>1. OldCluster(y) = OldCluster(x)
    BY <1>1, <1>2
  <2>2. Cardinality(UpTo(y)) = Cardinality(UpTo(x))
    <3> DEFINE m == Cardinality(UpTo(y))
               n == Cardinality(UpTo(x))
               d == OldCluster(x) * ClusterProcs
    <3>1. m \in 1 .. ClusterProcs /\ n \in 1 .. ClusterProcs /\ d \in Int
      BY <1>1
    <3>2. d + m - 1 = d + n - 1
      BY <1>1, <1>2, <2>1
    <3> HIDE DEF m, n, d
    <3>3. m = n
      BY <3>1, <3>2, SizeAssumption DEF SizeAssumption
    <3> QED
      BY <3>3 DEF m, n
  <2>3. PICK a \in 1 .. Len(topo) : topo[a] = x
    BY TopoFacts
  <2>4. PICK b \in 1 .. Len(topo) : topo[b] = y
    BY TopoFacts
  <2>5. Cardinality(UpTo(x)) \in Nat
    BY <2>3, UpToGrows
  <2>6. ~(a < b)
    BY <2>1, <2>2, <2>3, <2>4, <2>5, UpToGrows
  <2>7. ~(b < a)
    BY <2>1, <2>2, <2>3, <2>4, <2>5, UpToGrows
  <2>8. a \in Int /\ b \in Int
    BY TopoFacts
  <2>9. a = b
    BY <2>6, <2>7, <2>8
  <2> QED
    BY <2>3, <2>4, <2>9
<1> QED
  BY <1>1, <1>2

(* What is found for an old table in its stage is its own old cluster.     *)
LEMMA OldClusterAgrees ==
    ASSUME CompilerInv, prev # NoTask, CanKeep,
           NEW t \in Existing, table_at[t].stage \in DOMAIN stages
    PROVE  OldCluster(table_at[t].stage) = NonNeg(ClusterOf(prev[t].proc))
<1> DEFINE x == table_at[t].stage
           S == OldClusters(x)
<1>1. NonNeg(ClusterOf(prev[t].proc)) \in S
  BY DEF OldClusters
<1>2. Cardinality(S) = 1
  BY DEF CanKeep
<1>3. S \subseteq Cluster
  BY OldClustersRange DEF CompilerInv
<1>4. IsFiniteSet(Cluster)
  BY FS_Interval, SizeAssumption DEF Cluster, SizeAssumption
<1> HIDE DEF S
<1>5. PICK c : S = {c}
  BY <1>2, <1>3, <1>4, FS_Subset, FS_Singleton
<1>6. OldCluster(x) \in S
  BY <1>1, Zenon DEF OldCluster, S
<1> QED
  BY <1>1, <1>5, <1>6


(* The old clusters only depend on the stages and the last program.        *)
LEMMA OldFrame ==
    ASSUME UNCHANGED <<prev, stageVars>>
    PROVE  /\ UNCHANGED <<prog, stages, table_at>> /\ Existing' = Existing
           /\ \A x : OldCluster(x)' = OldCluster(x)
           /\ \A t : OldBlocks(t)' = OldBlocks(t)
<1>1. UNCHANGED <<prog, stages, table_at>>
  BY DEF stageVars
<1>2. Existing' = Existing
  BY <1>1 DEF Existing
<1>3. \A x : OldClusters(x)' = OldClusters(x)
  BY <1>1, <1>2 DEF OldClusters
<1> QED
  BY <1>1, <1>2, <1>3 DEF OldCluster, OldBlocks

(* allocateMemory with a previous task puts every stage into its cluster.  *)
LEMMA KeepMemoryInv == CompilerInv /\ KeepMemory => CompilerInv'
<1> SUFFICES ASSUME CompilerInv, KeepMemory PROVE CompilerInv'
  OBVIOUS
<1> DEFINE here(i) == {x \in DOMAIN stages : Slot(x) = i}
<1>1. /\ phase = "keep" /\ phase' = "new" /\ CanKeep /\ incremental' = TRUE /\ cursor' = 0
      /\ UNCHANGED <<item, compiles, prev, spoiled, stageVars, levelVars, space, number, outVars, err>>
  BY DEF KeepMemory
<1>2. place' = [i \in Proc |-> IF here(i) = {} THEN 0 ELSE CHOOSE x \in here(i) : TRUE]
  BY DEF KeepMemory, Slot
<1>3. config' = [t \in DOMAIN prog.table |-> IF t \in Existing THEN OldBlocks(t) ELSE NoBlocks]
  BY DEF KeepMemory
<1>4. Sorted /\ Sorted' /\ ~Done'
  BY <1>1 DEF Sorted, Done
<1>5. StageInv' /\ SortInv'
  BY <1>1, <1>4, SortFrame
<1>6. prev # NoTask /\ processors = Empty
  BY <1>1 DEF CompilerInv, FreshInv
<1>7. UNCHANGED <<prog, stages, topo, removed, route, extra, processors>>
  BY <1>1 DEF stageVars, levelVars, outVars
<1>8. ASSUME NEW i \in Proc
      PROVE  /\ here(i) = {} => place'[i] = 0
             /\ here(i) # {} => place'[i] \in DOMAIN stages /\ Slot(place'[i]) = i
  <2>1. here(i) # {} => (CHOOSE x \in here(i) : TRUE) \in here(i)
    OBVIOUS
  <2> QED
    BY <1>2, <2>1
<1>9. place' \in [Proc -> DOMAIN stages \cup {0}]
  <2>1. DOMAIN place' = Proc /\ place' = [i \in Proc |-> place'[i]]
    BY <1>2
  <2> QED
    BY <1>8, <2>1
<1>10. ASSUME NEW x \in DOMAIN stages PROVE \E i \in Proc : place'[i] = x
  <2>1. Slot(x) \in Proc /\ \A y \in DOMAIN stages : Slot(y) = Slot(x) => y = x
    BY <1>1, <1>4, <1>6, SlotsApart
  <2>2. x \in here(Slot(x))
    OBVIOUS
  <2>3. place'[Slot(x)] = x
    BY <1>8, <2>1, <2>2
  <2> QED
    BY <2>1, <2>3
<1>11. ASSUME NEW i \in Proc, place'[i] \in DOMAIN stages \ {0}
       PROVE  ClusterOf(i) = OldCluster(place'[i])
  <2>1. Slot(place'[i]) = i
    BY <1>8, <1>11
  <2>2. ClusterOf(Slot(place'[i])) = OldCluster(place'[i])
    BY <1>1, <1>4, <1>6, <1>11, SlotsApart
  <2> QED
    BY <2>1, <2>2
<1> HIDE DEF here
<1>12. Carried'
  <2>1. /\ Existing' = Existing /\ table_at' = table_at
        /\ \A x : OldCluster(x)' = OldCluster(x)
        /\ \A t : OldBlocks(t)' = OldBlocks(t)
    BY <1>1, OldFrame
  <2>2. \A t \in Existing : config'[t] = OldBlocks(t)
    BY <1>3 DEF Existing
  <2>3. \A t \in Existing : table_at[t].stage \in DOMAIN stages =>
          OldCluster(table_at[t].stage) = NonNeg(ClusterOf(prev[t].proc))
    BY <1>1, <1>6, OldClusterAgrees
  <2>4. \A i \in Proc : place'[i] \in DOMAIN stages' \ {0} =>
          ClusterOf(i) = OldCluster(place[i])'
    <3> SUFFICES ASSUME NEW i \in Proc, place'[i] \in DOMAIN stages' \ {0}
                 PROVE  ClusterOf(i) = OldCluster(place[i])'
      OBVIOUS
    <3>1. OldClusters(place[i])' = OldClusters(place'[i])
      BY <1>1, <1>7, <2>1 DEF OldClusters
    <3> QED
      BY <1>7, <1>11, <3>1 DEF OldCluster
  <2>5. \A t \in Existing' :
          /\ config'[t] = OldBlocks(t)'
          /\ table_at'[t].stage \in DOMAIN stages' =>
               OldCluster(table_at[t].stage)' = NonNeg(ClusterOf(prev'[t].proc))
    <3> SUFFICES ASSUME NEW t \in Existing
                 PROVE  /\ config'[t] = OldBlocks(t)'
                        /\ table_at'[t].stage \in DOMAIN stages' =>
                             OldCluster(table_at[t].stage)' = NonNeg(ClusterOf(prev'[t].proc))
      BY <2>1
    <3>1. OldClusters(table_at[t].stage)' = OldClusters(table_at[t].stage)
      BY <1>1, <1>7, <2>1 DEF OldClusters
    <3> QED
      BY <1>1, <1>7, <2>1, <2>2, <2>3, <3>1 DEF OldCluster
  <2> QED
    BY <1>1, <1>6, <2>4, <2>5 DEF Carried
<1>13. KeptInv'
  BY <1>1, <1>7, <1>9, <1>10, <1>12 DEF KeptInv
<1>14. TypeOK'
  <2>1. DOMAIN config' = DOMAIN prog.table
    BY <1>3
  <2>2. place' \in [Proc -> DOMAIN stages \cup {None, 0}]
    BY <1>9
  <2> QED
    BY <1>1, <1>7, <2>1, <2>2 DEF CompilerInv, TypeOK, Elements
<1>15. FreshInv' /\ FullInv' /\ BuildInv' /\ OutInv'
  BY <1>1, <1>4, <1>6, <1>7 DEF CompilerInv, FreshInv, FullInv, BuildInv, OutInv
<1> QED
  BY <1>5, <1>13, <1>14, <1>15 DEF CompilerInv

(* What was carried over stays while the rest is allocated and built.      *)
LEMMA KeptFrame ==
    ASSUME KeptInv, UNCHANGED <<prev, stageVars, place, incremental>>,
           \A t \in Existing : config'[t] = config[t],
           (phase = "new" /\ phase' \in {"new", "build"}) \/ (phase = "build" /\ phase' = "build")
    PROVE  KeptInv'
<1>1. /\ Existing' = Existing /\ UNCHANGED <<prog, stages, table_at>>
      /\ \A x : OldCluster(x)' = OldCluster(x)
      /\ \A t : OldBlocks(t)' = OldBlocks(t)
  BY OldFrame
<1>2. CASE phase = "new" \/ (incremental /\ phase = "build")
  <2>1. /\ incremental /\ Carried /\ place \in [Proc -> DOMAIN stages \cup {0}]
        /\ \A x \in DOMAIN stages : \E i \in Proc : place[i] = x
    BY <1>2 DEF KeptInv
  <2>2. Carried'
    BY <1>1, <2>1 DEF Carried, OldCluster, OldClusters
  <2> QED
    BY <1>1, <2>1, <2>2 DEF KeptInv
<1>3. CASE ~(phase = "new" \/ (incremental /\ phase = "build"))
  BY <1>3 DEF KeptInv
<1> QED
  BY <1>2, <1>3


(* A new table gets blocks, the old ones keep theirs.                      *)
LEMMA NewTableInv == CompilerInv /\ NewTable => CompilerInv'
<1> SUFFICES ASSUME CompilerInv, NewTable PROVE CompilerInv'
  OBVIOUS
<1> DEFINE t == Min(New)
<1>1. /\ phase = "new" /\ phase' = "new" /\ New # {} /\ cursor' = t + 1
      /\ UNCHANGED <<item, compiles, prev, spoiled, stageVars, levelVars, place, space, number,
                     outVars, flagVars>>
  BY DEF NewTable
<1>2. t \in Nat /\ t \notin Existing
  <2>1. New \subseteq Nat
    BY DEF New, CompilerInv, StageInv, WellFormed
  <2>2. t \in New
    BY <1>1, <2>1, MinLeast
  <2> QED
    BY <2>1, <2>2 DEF New
<1>3. \E r : config' = [config EXCEPT ![t] = r]
  BY DEF NewTable
<1> HIDE DEF t
<1>4. DOMAIN config' = DOMAIN config /\ \A u \in Existing : config'[u] = config[u]
  <2>1. Existing \subseteq DOMAIN config
    BY DEF Existing, CompilerInv, TypeOK
  <2> QED
    BY <1>2, <1>3, <2>1
<1>5. UNCHANGED <<prog, stages, topo, removed, route, extra, processors, err, incremental>>
  BY <1>1 DEF stageVars, levelVars, outVars, flagVars
<1>6. Sorted /\ Sorted' /\ ~Done'
  BY <1>1 DEF Sorted, Done
<1>7. StageInv' /\ SortInv'
  BY <1>1, <1>6, SortFrame
<1>8. KeptInv'
  <2>1. KeptInv /\ UNCHANGED <<prev, stageVars, place, incremental>>
    BY <1>1, <1>5 DEF CompilerInv
  <2>2. \A u \in Existing : config'[u] = config[u]
    BY <1>4
  <2> QED
    BY <1>1, <2>1, <2>2, KeptFrame
<1>9. TypeOK'
  BY <1>1, <1>2, <1>4, <1>5 DEF CompilerInv, TypeOK, Elements
<1>10. FreshInv' /\ FullInv' /\ BuildInv' /\ OutInv'
  BY <1>1, <1>5, <1>6 DEF CompilerInv, FreshInv, FullInv, BuildInv, OutInv
<1> QED
  BY <1>7, <1>8, <1>9, <1>10 DEF CompilerInv

(* The allocation that keeps what was there hands over to the build.       *)
LEMMA KeepDoneInv == CompilerInv /\ KeepDone => CompilerInv'
<1> SUFFICES ASSUME CompilerInv, KeepDone PROVE CompilerInv'
  OBVIOUS
<1>1. /\ phase = "new" /\ phase' = "build" /\ cursor' = 0 /\ extra' = FirstExtra
      /\ UNCHANGED <<item, compiles, prev, spoiled, stageVars, levelVars, memVars, processors, route,
                     flagVars>>
  BY DEF KeepDone
<1>2. UNCHANGED <<stages, topo, place, config, err, incremental, processors>>
  BY <1>1 DEF stageVars, levelVars, memVars, flagVars
<1>3. Sorted /\ Sorted' /\ ~Done'
  BY <1>1 DEF Sorted, Done
<1>4. TypeOK'
  BY <1>1, <1>3, FirstExtraBeyond
     DEF CompilerInv, TypeOK, stageVars, levelVars, memVars, flagVars, Elements
<1>5. StageInv' /\ SortInv'
  BY <1>1, <1>3, SortFrame
<1>6. processors = Empty /\ incremental
  BY <1>1 DEF CompilerInv, FreshInv, KeptInv
<1>7. BuildInv'
  BY <1>1, <1>2, <1>3, <1>6, BuildStart
<1>8. KeptInv'
  BY <1>1, <1>2, KeptFrame DEF CompilerInv
<1>9. FreshInv' /\ FullInv' /\ OutInv'
  BY <1>1, <1>2, <1>3, <1>6 DEF CompilerInv, FreshInv, FullInv, OutInv
<1> QED
  BY <1>4, <1>5, <1>7, <1>8, <1>9 DEF CompilerInv

-----------------------------------------------------------------------------
(***************************************************************************)
(* The processors and the output.                                          *)
(***************************************************************************)
(* A processor is built for the stage that was placed on it, and free ones *)
(* take the levels it has no room for.                                     *)
LEMMA BuildProcessorInv == CompilerInv /\ BuildProcessor => CompilerInv'
<1> SUFFICES ASSUME CompilerInv, BuildProcessor PROVE CompilerInv'
  OBVIOUS
<1> DEFINE x == place[cursor]
           lv == levels[x]
           more == IF lv = <<>> THEN 0 ELSE (Len(lv) - 1) \div MaxLevel
           free == {k \in Proc \ DOMAIN processors : place[k] = None}
           before(k) == Cardinality({j \in free : j < k})
           taken == {k \in free : before(k) < more}
           only(n) == [id |-> extra + n, levels |-> Chunk(lv, n), only |-> TRUE,
                       next |-> IF (n + 2) * MaxLevel < Len(lv) THEN extra + n + 1 ELSE x]
           rest == [id |-> x, only |-> FALSE, next |-> None,
                    levels |-> SubSeq(lv, Cardinality(taken) * MaxLevel + 1, Len(lv))]
<1>1. /\ phase = "build" /\ phase' = "build" /\ cursor \in Proc /\ cursor' = cursor + 1
      /\ x = None \/ x \in DOMAIN stages
      /\ UNCHANGED <<item, compiles, prev, spoiled, stageVars, levelVars, memVars, route, incremental>>
  BY DEF BuildProcessor
<1>2. IF x = None THEN UNCHANGED <<processors, extra, err>>
      ELSE /\ processors' = [k \in DOMAIN processors \cup taken \cup {cursor} |->
                 IF k = cursor THEN rest
                 ELSE IF k \in taken THEN only(before(k))
                 ELSE processors[k]]
           /\ extra' = extra + Cardinality(taken)
           /\ err' = (err \/ Cardinality(taken) < more)
  BY DEF BuildProcessor
<1>3. UNCHANGED <<prog, stages, topo, removed, place, config, space, number>>
  BY <1>1 DEF stageVars, levelVars, memVars
<1>4. /\ DOMAIN processors \subseteq Proc
      /\ \A i \in Proc : place[i] # None /\ i < cursor => Built(i)
      /\ \A i \in DOMAIN processors :
           IF processors[i].only
           THEN place[i] = None /\ processors[i].id \in Nat
                /\ \A y \in DOMAIN stages : y < processors[i].id
           ELSE place[i] # None /\ processors[i].id = place[i]
      /\ extra \in Nat /\ \A y \in DOMAIN stages : y < extra
  BY <1>1 DEF CompilerInv, BuildInv
<1>5. Sorted /\ Sorted' /\ ~Done'
  BY <1>1 DEF Sorted, Done
<1>6. StageInv' /\ SortInv'
  BY <1>1, <1>5, SortFrame
<1>7. KeptInv'
  BY <1>1, <1>3, KeptFrame DEF CompilerInv
<1>8. \A i \in Proc : i \in Nat
  BY SizeAssumption DEF SizeAssumption, Proc
<1>9. \A y \in DOMAIN stages : y \in Nat /\ y # None
  BY <1>5, TopoFacts
<1>10. OutInv' /\ FreshInv'
  BY <1>1, <1>5 DEF OutInv, FreshInv, CompilerInv
<1>11. /\ Cardinality(taken) \in Nat
       /\ \A k : before(k) \in Nat
       /\ taken \subseteq Proc /\ \A k \in taken : place[k] = None /\ k \notin DOMAIN processors
  <2>1. IsFiniteSet(Proc)
    BY FS_Interval, SizeAssumption DEF Proc, SizeAssumption
  <2>2. free \subseteq Proc /\ taken \subseteq free /\ \A k : {j \in free : j < k} \subseteq Proc
    OBVIOUS
  <2>3. IsFiniteSet(taken) /\ \A k : IsFiniteSet({j \in free : j < k})
    BY <2>1, <2>2, FS_Subset
  <2> QED
    BY <2>2, <2>3, FS_CardinalityType
<1> HIDE DEF taken, before
<1>12. CASE x = None
  <2>1. UNCHANGED <<processors, extra, err>>
    BY <1>2, <1>12
  <2>2. TypeOK'
    BY <1>1, <1>3, <1>8, <2>1 DEF CompilerInv, TypeOK, Elements
  <2>3. \A i \in Proc : place[i] # None /\ i < cursor + 1 => Built(i)
    BY <1>1, <1>4, <1>8, <1>12
  <2>4. BuildInv'
    BY <1>1, <1>3, <1>4, <1>5, <2>1, <2>3 DEF BuildInv, Built
  <2>5. FullInv'
    BY <1>1, <1>3, <1>5, <2>1 DEF CompilerInv, FullInv, PlacedUpTo
  <2> QED
    BY <1>6, <1>7, <1>10, <2>2, <2>4, <2>5 DEF CompilerInv
<1>13. CASE x # None
  <2>1. /\ DOMAIN processors' = DOMAIN processors \cup taken \cup {cursor}
        /\ processors'[cursor] = rest
        /\ \A k \in taken : k # cursor => processors'[k] = only(before(k))
        /\ \A k \in DOMAIN processors : k # cursor /\ k \notin taken => processors'[k] = processors[k]
    BY <1>2, <1>13
  <2>2. extra' = extra + Cardinality(taken) /\ err' \in BOOLEAN /\ (err => err')
    BY <1>2, <1>13 DEF CompilerInv, TypeOK
  <2>3. processors'[cursor].id = x /\ processors'[cursor].only = FALSE
    BY <2>1
  <2>4. \A k \in taken : k # cursor =>
          processors'[k].only = TRUE /\ processors'[k].id = extra + before(k)
    BY <2>1
  <2> HIDE DEF rest, only, more, lv, free
  <2>5. extra' \in Nat /\ \A y \in DOMAIN stages : y < extra'
    BY <1>4, <1>9, <1>11, <2>2
  <2>6. TypeOK'
    BY <1>1, <1>3, <1>8, <2>2, <2>5 DEF CompilerInv, TypeOK, Elements
  <2>7. ASSUME NEW i \in Proc, place[i] # None, i < cursor + 1
        PROVE  i \in DOMAIN processors' /\ ~processors'[i].only /\ processors'[i].id = place[i]
    <3>1. CASE i = cursor
      BY <2>1, <2>3, <3>1
    <3>2. CASE i # cursor
      <4>1. Built(i) /\ i \notin taken
        BY <1>1, <1>4, <1>8, <1>11, <2>7, <3>2
      <4> QED
        BY <2>1, <3>2, <4>1 DEF Built
    <3> QED
      BY <3>1, <3>2
  <2>8. ASSUME NEW i \in DOMAIN processors'
        PROVE  IF processors'[i].only
               THEN place[i] = None /\ processors'[i].id \in Nat
                    /\ \A y \in DOMAIN stages : y < processors'[i].id
               ELSE place[i] # None /\ processors'[i].id = place[i]
    <3>1. CASE i = cursor
      BY <1>13, <2>3, <3>1
    <3>2. CASE i # cursor /\ i \in taken
      <4>1. before(i) \in Nat
        BY <1>11
      <4>2. extra + before(i) \in Nat /\ \A y \in DOMAIN stages : y < extra + before(i)
        BY <1>4, <1>9, <4>1
      <4> QED
        BY <1>11, <2>4, <3>2, <4>2
    <3>3. CASE i # cursor /\ i \notin taken
      BY <1>4, <2>1, <3>3
    <3> QED
      BY <3>1, <3>2, <3>3
  <2>9. BuildInv'
    BY <1>1, <1>3, <1>4, <1>5, <1>11, <2>1, <2>5, <2>7, <2>8 DEF BuildInv, Built
  <2>10. FullInv'
    BY <1>1, <1>3, <1>5, <2>2 DEF CompilerInv, FullInv, PlacedUpTo
  <2> QED
    BY <1>6, <1>7, <1>10, <2>6, <2>9, <2>10 DEF CompilerInv
<1> QED
  BY <1>12, <1>13


(* Every number of a stage, and no other number, is mapped to a processor  *)
(* that has it (proc_proc).                                                *)
LEMMA OutputInv == CompilerInv /\ Output => CompilerInv'
<1> SUFFICES ASSUME CompilerInv, Output PROVE CompilerInv'
  OBVIOUS
<1> DEFINE at(x) == Min({i \in DOMAIN processors : processors[i].id = x})
           r == [x \in Ids \cup {None} |-> IF x = None THEN None ELSE at(x)]
<1>1. /\ phase = "build" /\ cursor \notin Proc /\ phase' = "idle" /\ cursor' = 0 /\ route' = r
      /\ prev' = [t \in DOMAIN prog.table |->
            [proc |-> IF table_at[t].stage \in DOMAIN r THEN r[table_at[t].stage] ELSE 0,
             mem |-> prog.table[t].mem, key |-> config[t].key, value |-> config[t].value]]
      /\ spoiled' = (IF incremental THEN spoiled ELSE {}) \cup Spoils(r)
      /\ UNCHANGED <<item, compiles, stageVars, levelVars, memVars, processors, extra, flagVars>>
  BY DEF Output
<1>2. UNCHANGED <<prog, stages, topo, removed, place, config, space, number, err, incremental>>
  BY <1>1 DEF stageVars, levelVars, memVars, flagVars
<1>3. Sorted
  BY <1>1 DEF Sorted
<1>4. Done' => Sorted'
  BY DEF Sorted
<1>5. /\ DOMAIN processors \subseteq Proc
      /\ \A i \in Proc : place[i] # None /\ i < cursor => Built(i)
      /\ \A i \in DOMAIN processors :
           IF processors[i].only
           THEN place[i] = None /\ processors[i].id \in Nat
                /\ \A y \in DOMAIN stages : y < processors[i].id
           ELSE place[i] # None /\ processors[i].id = place[i]
      /\ extra \in Nat /\ \A y \in DOMAIN stages : y < extra
  BY <1>1 DEF CompilerInv, BuildInv
<1>6. ASSUME NEW x \in Ids PROVE at(x) \in DOMAIN processors /\ processors[at(x)].id = x
  <2> DEFINE S == {i \in DOMAIN processors : processors[i].id = x}
  <2>1. S # {}
    BY DEF Ids
  <2>2. S \subseteq Nat
    BY <1>5, SizeAssumption DEF SizeAssumption, Proc
  <2> HIDE DEF S
  <2>3. Min(S) \in S
    BY <2>1, <2>2, MinLeast
  <2> QED
    BY <2>3 DEF S
<1>7. 0 \in Proc
  <2>1. NCluster \in Nat \ {0} /\ ClusterProcs \in Nat \ {0}
    BY SizeAssumption DEF SizeAssumption
  <2>2. NCluster * ClusterProcs \in Nat \ {0}
    BY <2>1, Z3
  <2> QED
    BY <2>2 DEF Proc
<1> HIDE DEF at
<1>8. /\ DOMAIN r = Ids \cup {None} /\ r[None] = None
      /\ \A x \in Ids \ {None} : r[x] \in DOMAIN processors /\ processors[r[x]].id = x
      /\ \A x \in DOMAIN r : r[x] \in Proc \cup {None}
  BY <1>5, <1>6
<1> HIDE DEF r
<1>9. \A i \in Proc : i < cursor
  <2>1. cursor \in Nat /\ cursor \notin Proc /\ NCluster * ClusterProcs \in Int
    BY <1>1, SizeAssumption DEF CompilerInv, TypeOK, SizeAssumption
  <2> QED
    BY <2>1 DEF Proc
<1>10. TypeOK'
  <2>1. spoiled' \subseteq Trouble
    BY <1>1 DEF CompilerInv, TypeOK, Spoils
  <2> QED
    BY <1>1, <1>2, <1>8, <2>1 DEF CompilerInv, TypeOK, Elements
<1>11. StageInv'
  BY <1>2, <1>1 DEF CompilerInv, StageInv, WellFormed, stageVars
<1>12. compiles > 0
  BY <1>1 DEF CompilerInv, SortInv, OutInv
<1>13. Done'
  BY <1>1, <1>12 DEF Done
<1>14. SortInv'
  BY <1>1, <1>3, <1>4, <1>13, SortFrame
<1>15. FreshInv'
  BY <1>1 DEF FreshInv
<1>16. FullInv'
  BY <1>1, <1>2 DEF CompilerInv, FullInv, PlacedUpTo
<1>17. KeptInv'
  BY <1>1, <1>2 DEF CompilerInv, KeptInv
<1>18. BuildInv'
  BY <1>1, <1>2, <1>5, <1>9 DEF BuildInv, Built
<1>19. OutInv'
  <2>1. Ids' = Ids
    BY <1>1 DEF Ids
  <2>2. \A t \in DOMAIN prev' : prev'[t].proc \in Proc \cup {None}
    BY <1>1, <1>7, <1>8
  <2> QED
    BY <1>1, <1>8, <2>1, <2>2 DEF OutInv
<1> QED
  BY <1>10, <1>11, <1>14, <1>15, <1>16, <1>17, <1>18, <1>19 DEF CompilerInv


-----------------------------------------------------------------------------
(***************************************************************************)
(* The theorems.                                                           *)
(***************************************************************************)
(* Every step keeps the invariant.                                         *)
LEMMA NextInv == CompilerInv /\ [Next]_vars => CompilerInv'
<1> SUFFICES ASSUME CompilerInv, [Next]_vars PROVE CompilerInv'
  OBVIOUS
<1>1. CASE RenumberDead \/ AllocateParsersDead \/ BuildProcessorDead
  <2>1. Dead /\ phase # "idle"
    BY <1>1 DEF RenumberDead, AllocateParsersDead, BuildProcessorDead
  <2> QED
    BY <2>1, DeadInv
<1>2. CASE UNCHANGED vars
  <2>1. /\ UNCHANGED <<phase, cursor, item, compiles, prev, spoiled>>
        /\ UNCHANGED <<prog, size, removed, stages, table_at, topo, place, space, number, config,
                       processors, extra, route, err, incremental>>
    BY <1>2 DEF vars, sessionVars, stageVars, levelVars, memVars, outVars, flagVars
  <2>2. Done' = Done /\ Sorted' = Sorted /\ Ids' = Ids /\ NextStages' = NextStages
    BY <2>1 DEF Done, Sorted, Ids, NextStages
  <2>3. TypeOK' /\ StageInv'
    BY <2>1 DEF CompilerInv, TypeOK, StageInv, WellFormed, Elements
  <2>4. SortInv' /\ FreshInv' /\ FullInv' /\ BuildInv' /\ OutInv'
    <3>1. SortInv'
      BY <2>1, <2>2 DEF CompilerInv, SortInv, InOrder, Preds, Elements
    <3>2. FreshInv' /\ BuildInv' /\ OutInv'
      BY <2>1, <2>2 DEF CompilerInv, FreshInv, BuildInv, Built, OutInv
    <3>3. FullInv'
      BY <2>1, <2>2 DEF CompilerInv, FullInv, PlacedUpTo, Dense, InCluster
    <3> QED
      BY <3>1, <3>2, <3>3
  <2>5. KeptInv'
    <3>1. Carried' = Carried
      BY <2>1 DEF Carried, Existing, OldCluster, OldClusters, OldBlocks
    <3> QED
      BY <2>1, <3>1 DEF CompilerInv, KeptInv
  <2> QED
    BY <2>3, <2>4, <2>5 DEF CompilerInv
<1>3. CASE EmitTask \/ RemoveEmpty \/ Renumber \/ AllocateParsers
  BY <1>3, EmitTaskInv, RemoveEmptyInv, RenumberInv, AllocateParsersInv
<1>4. CASE PlaceStage \/ Placed \/ SetConfig \/ NextConfig \/ Configured
  BY <1>4, PlaceStageInv, PlacedInv, SetConfigInv, NextConfigInv, ConfiguredInv
<1>5. CASE KeepMemory \/ KeepFails \/ NewTable \/ KeepDone
  BY <1>5, KeepMemoryInv, KeepFailsInv, NewTableInv, KeepDoneInv
<1>6. CASE BuildProcessor \/ Output
  BY <1>6, BuildProcessorInv, OutputInv
<1> QED
  BY <1>1, <1>2, <1>3, <1>4, <1>5, <1>6 DEF Next

(* The inductive invariant holds in every session of the compiler.         *)
LEMMA Invariance == Spec => []CompilerInv
<1> QED
  BY InitInv, NextInv, PTL DEF Spec

(* The compiler's members have their types throughout a session, whatever  *)
(* programs it is given: in particular a table's blocks are numbered from  *)
(* naturals although its size may be junk, and only stages are placed and  *)
(* routed to.                                                              *)
THEOREM TypeCorrect == Spec => []TypeOK
<1>1. CompilerInv => TypeOK
  BY DEF CompilerInv
<1> QED
  BY <1>1, Invariance, PTL

(* Every stage that is left has a processor, if no error was printed.      *)
LEMMA StageBuilt ==
    ASSUME CompilerInv, Done, ~err, NEW x \in DOMAIN stages
    PROVE  \E i \in Proc : place[i] = x /\ Built(i)
<1>1. Sorted
  BY DEF Sorted
<1>2. \E i \in Proc : place[i] = x
  <2>1. CASE incremental
    BY <2>1 DEF CompilerInv, KeptInv, Done
  <2>2. CASE ~incremental
    <3>1. PICK k \in 1 .. Len(topo) : topo[k] = x
      BY <1>1, TopoFacts
    <3> QED
      BY <2>2, <3>1 DEF CompilerInv, FullInv, PlacedUpTo
  <2> QED
    BY <2>1, <2>2
<1>3. PICK i \in Proc : place[i] = x
  BY <1>2
<1>4. x # None
  BY <1>1, TopoFacts
<1>5. Built(i)
  BY <1>3, <1>4 DEF CompilerInv, BuildInv, Done
<1> QED
  BY <1>3, <1>5

(* ... and then the number of a stage leads to a processor that holds it.  *)
LEMMA StageRouted ==
    ASSUME CompilerInv, Done, ~err, NEW x \in DOMAIN stages \cup {None}
    PROVE  x \in DOMAIN route /\ LeadsTo(route[x], x)
<1>1. CASE x = None
  BY <1>1 DEF CompilerInv, OutInv, LeadsTo
<1>2. CASE x \in DOMAIN stages
  <2>1. PICK i \in Proc : place[i] = x /\ Built(i)
    BY <1>2, StageBuilt
  <2>2. x \in Ids
    BY <2>1 DEF Ids, Built
  <2>3. Sorted
    BY DEF Sorted
  <2>4. x # None
    BY <1>2, <2>3, TopoFacts
  <2> QED
    BY <2>2, <2>4 DEF CompilerInv, OutInv, LeadsTo
<1> QED
  BY <1>1, <1>2

(* Renumbering once.                                                       *)
LEMMA RenumberedOnce ==
    ASSUME NEW x \in DOMAIN route
    PROVE  Renumbered(x, 1) = route[x]
<1> DEFINE F(g) == [k \in 0 .. 1 |->
                      IF k = 0 THEN x
                      ELSE IF g[k - 1] \in DOMAIN route THEN route[g[k - 1]] ELSE g[k - 1]]
           h == [k \in 0 .. 1 |-> IF k = 0 THEN x ELSE route[x]]
           f == CHOOSE g : g = F(g)
<1>1. h = F(h)
  <2>1. h[0] = x /\ h[1] = route[x] /\ DOMAIN h = 0 .. 1
    OBVIOUS
  <2>2. \A k \in 0 .. 1 : h[k] = IF k = 0 THEN x
          ELSE IF h[k - 1] \in DOMAIN route THEN route[h[k - 1]] ELSE h[k - 1]
    BY <2>1
  <2>3. h = [k \in 0 .. 1 |-> h[k]]
    OBVIOUS
  <2> HIDE DEF h
  <2> QED
    BY <2>2, <2>3
<1>2. Renumbered(x, 1) = f[1]
  BY DEF Renumbered
<1> HIDE DEF h
<1>3. f = F(f)
  BY <1>1
<1> HIDE DEF f
<1>4. f[0] = x /\ f[1] = IF f[0] \in DOMAIN route THEN route[f[0]] ELSE f[0]
  BY <1>3
<1> QED
  BY <1>2, <1>4

(* After a full allocation a stage is on one processor only.               *)
LEMMA OneProcessor ==
    ASSUME CompilerInv, Done, ~err, ~incremental, NEW x \in DOMAIN stages
    PROVE  Cardinality({i \in DOMAIN processors : processors[i].id = x}) = 1
<1>1. PICK i \in Proc : place[i] = x /\ Built(i)
  BY StageBuilt
<1>2. Sorted
  BY DEF Sorted
<1>3. x \in Nat /\ x # None
  BY <1>2, TopoFacts
<1>4. ASSUME NEW k \in DOMAIN processors, processors[k].id = x PROVE k = i
  <2>1. k \in Proc
    BY DEF CompilerInv, BuildInv
  <2>2. ~processors[k].only
    <3>1. processors[k].only => x < x
      BY <1>4 DEF CompilerInv, BuildInv
    <3> QED
      BY <1>3, <3>1
  <2>3. place[k] = x
    BY <1>4, <2>2 DEF CompilerInv, BuildInv
  <2> QED
    BY <1>1, <1>3, <2>1, <2>3 DEF CompilerInv, FullInv, PlacedUpTo
<1>5. {k \in DOMAIN processors : processors[k].id = x} = {i}
  BY <1>1, <1>4 DEF Built
<1> QED
  BY <1>5, FS_Singleton

(* Whatever programs a session compiles, in full or keeping what was       *)
(* there: if a compilation printed no error, every action of its output    *)
(* leads to a processor that holds the stage the action led to, and after  *)
(* a full one the default entries of the gateways do too (reorderStages,   *)
(* setNextId).                                                             *)
THEOREM ActionsReachTheirStages == Spec => []RoutesKept
<1>1. CompilerInv => RoutesKept
  <2> SUFFICES ASSUME CompilerInv, Done, ~err, NEW x \in DOMAIN stages
               PROVE  /\ \A i \in DOMAIN stages[x].acts :
                           LeadsTo(Physical(stages[x].acts[i].next), stages[x].acts[i].next)
                      /\ ~incremental /\ stages[x].default.kind = "STAGE" =>
                           LeadsTo(DefaultOut(x), stages[x].default.id)
    BY DEF RoutesKept
  <2>1. ASSUME NEW i \in DOMAIN stages[x].acts
        PROVE  LeadsTo(Physical(stages[x].acts[i].next), stages[x].acts[i].next)
    <3> DEFINE n == stages[x].acts[i].next
    <3>1. n \in DOMAIN stages \cup {None}
      BY DEF CompilerInv, StageInv
    <3> HIDE DEF n
    <3>2. n \in DOMAIN route /\ LeadsTo(route[n], n)
      BY <3>1, StageRouted
    <3>3. LeadsTo(Physical(n), n)
      BY <3>2 DEF Physical
    <3> QED
      BY <3>3 DEF n
  <2>2. ASSUME ~incremental, stages[x].default.kind = "STAGE"
        PROVE  LeadsTo(DefaultOut(x), stages[x].default.id)
    <3> DEFINE d == stages[x].default.id
    <3>1. d \in DOMAIN stages \cup {None}
      BY <2>2 DEF CompilerInv, StageInv
    <3>2. DefaultOut(x) = Renumbered(d, 1)
      BY <2>2, OneProcessor DEF DefaultOut
    <3> HIDE DEF d
    <3>3. d \in DOMAIN route /\ LeadsTo(route[d], d)
      BY <3>1, StageRouted
    <3>4. LeadsTo(DefaultOut(x), d)
      BY <3>2, <3>3, RenumberedOnce
    <3> QED
      BY <3>4 DEF d
  <2> QED
    BY <2>1, <2>2
<1> QED
  BY <1>1, Invariance, PTL

(* The dataplane starts every packet at processor 0.  After a full         *)
(* compilation without an error processor 0 holds a stage that nothing     *)
(* leads to: first fit puts the first stage of the topological order       *)
(* there, because all clusters are equal as long as nothing is placed.     *)
THEOREM EntryOnProcessorZero == Spec => []EntryFirst
<1>1. CompilerInv => EntryFirst
  <2> SUFFICES ASSUME CompilerInv, Done, ~err, ~incremental, DOMAIN stages # {}
               PROVE  /\ 0 \in DOMAIN processors /\ ~processors[0].only
                      /\ Preds(NextStages, processors[0].id) = {}
    BY DEF EntryFirst
  <2>1. Sorted
    BY DEF Sorted
  <2>2. Len(topo) > 0 /\ 1 \in 1 .. Len(topo) /\ topo[1] \in DOMAIN stages /\ topo[1] # None
    <3>1. PICK x \in DOMAIN stages : TRUE
      OBVIOUS
    <3>2. PICK k \in 1 .. Len(topo) : topo[k] = x
      BY <2>1, TopoFacts
    <3>3. Len(topo) \in Nat
      BY <2>1, TopoFacts
    <3>4. Len(topo) > 0 /\ 1 \in 1 .. Len(topo)
      BY <3>2, <3>3
    <3> QED
      BY <2>1, <3>4, TopoFacts
  <2>3. place[0] = topo[1] /\ 0 \in Proc
    <3>1. PlacedUpTo(Len(topo))
      BY DEF CompilerInv, FullInv
    <3>2. PICK i \in Proc : place[i] = topo[1]
      BY <2>2, StageBuilt
    <3>3. 0 \in Proc
      BY <3>2, SizeAssumption DEF Proc, SizeAssumption
    <3> QED
      BY <2>2, <3>1, <3>3 DEF PlacedUpTo
  <2>4. Built(0)
    BY <2>2, <2>3 DEF CompilerInv, BuildInv, Done
  <2>5. Preds(NextStages, topo[1]) = {}
    <3>1. \A y \in Preds(NextStages, topo[1]) : \E k \in 1 .. 1 - 1 : y = topo[k]
      BY <2>1, <2>2 DEF CompilerInv, SortInv, InOrder
    <3> QED
      BY <3>1
  <2> QED
    BY <2>3, <2>4, <2>5 DEF Built
<1> QED
  BY <1>1, Invariance, PTL

(* An incremental compilation leaves every table that had a processor in   *)
(* its cluster and on its blocks, whichever stages moved, came or went     *)
(* around it (allocateMemory with a previous task).                        *)
THEOREM TablesStay == Spec => KeptInPlace
<1> DEFINE A == phase = "build" /\ phase' = "idle" /\ incremental =>
                  \A t \in Existing :
                     table_at[t].stage \in DOMAIN stages \ {0} /\ prev[t].proc # None =>
                         /\ ClusterOf(prev'[t].proc) = ClusterOf(prev[t].proc)
                         /\ prev'[t].key = prev[t].key /\ prev'[t].value = prev[t].value
<1>1. CompilerInv /\ CompilerInv' /\ [Next]_vars => A
  <2> SUFFICES ASSUME CompilerInv, CompilerInv', [Next]_vars,
                      phase = "build", phase' = "idle", incremental,
                      NEW t \in Existing,
                      table_at[t].stage \in DOMAIN stages \ {0}, prev[t].proc # None
               PROVE  /\ ClusterOf(prev'[t].proc) = ClusterOf(prev[t].proc)
                      /\ prev'[t].key = prev[t].key /\ prev'[t].value = prev[t].value
    OBVIOUS
  <2> DEFINE x == table_at[t].stage
  <2>1. Output
    BY DEF Next, vars, sessionVars, EmitTask, Load, RemoveEmpty, Renumber, RenumberDead,
           AllocateParsers, AllocateParsersDead, PlaceStage, Placed, SetConfig, NextConfig,
           Configured, KeepMemory, KeepFails, NewTable, KeepDone, BuildProcessor,
           BuildProcessorDead, Dead
  <2>2. /\ x \in DOMAIN route' => prev'[t].proc = route'[x]
        /\ prev'[t].key = config[t].key /\ prev'[t].value = config[t].value
    BY <2>1 DEF Output, Existing
  <2>3. UNCHANGED <<stages, place, processors, incremental>>
    BY <2>1 DEF Output, stageVars, memVars, flagVars
  <2>4. Carried
    BY DEF CompilerInv, KeptInv
  <2>5. prev'[t].key = prev[t].key /\ prev'[t].value = prev[t].value
    <3>1. config[t] = OldBlocks(t)
      BY <2>4 DEF Carried
    <3>2. config[t].key = prev[t].key /\ config[t].value = prev[t].value
      BY <3>1 DEF OldBlocks
    <3> QED
      BY <2>2, <3>2
  <2>6. prev[t].proc \in Proc
    BY <2>4 DEF Carried, CompilerInv, OutInv, Existing
  <2>7. OldCluster(x) = ClusterOf(prev[t].proc)
    <3>1. ClusterOf(prev[t].proc) \in Cluster
      BY <2>6, ClusterRange
    <3>2. NonNeg(ClusterOf(prev[t].proc)) = ClusterOf(prev[t].proc)
      BY <3>1, SizeAssumption DEF NonNeg, Cluster, SizeAssumption
    <3> QED
      BY <2>4, <3>2 DEF Carried
  <2>8. Sorted /\ compiles > 0
    BY DEF Sorted, CompilerInv, OutInv
  <2>9. x \in Nat /\ x # None /\ x \in DOMAIN stages /\ x # 0
    BY <2>8, TopoFacts
  <2> HIDE DEF x
  <2>10. Done'
    BY <2>1, <2>8 DEF Done, Output
  <2>11. PICK i \in Proc : place[i] = x
    BY <2>9 DEF CompilerInv, KeptInv
  <2>12. Built(i)'
    BY <2>3, <2>9, <2>10, <2>11 DEF CompilerInv, BuildInv, Done
  <2>13. x \in Ids'
    BY <2>3, <2>11, <2>12 DEF Ids, Built
  <2> DEFINE q == route'[x]
  <2>14. x \in DOMAIN route' /\ q \in DOMAIN processors' /\ processors'[q].id = x
    BY <2>9, <2>10, <2>13 DEF CompilerInv, OutInv
  <2>15. q \in Proc /\ place[q] = x
    <3>1. q \in Proc
      BY <2>3, <2>14 DEF CompilerInv, BuildInv
    <3>2. ~processors[q].only
      <4>1. processors[q].only => x < x
        BY <2>3, <2>9, <2>14 DEF CompilerInv, BuildInv
      <4> QED
        BY <2>9, <4>1
    <3> QED
      BY <2>3, <2>14, <3>1, <3>2 DEF CompilerInv, BuildInv
  <2>16. ClusterOf(q) = OldCluster(x)
    BY <2>4, <2>9, <2>15 DEF Carried
  <2> QED
    BY <2>2, <2>5, <2>7, <2>14, <2>16
<1>2. [Next]_vars /\ CompilerInv /\ CompilerInv' => [A]_vars
  BY <1>1
<1> QED
  BY <1>2, Invariance, PTL DEF Spec, KeptInPlace


(* The loop along merged stages that are in no circle ends at one of them. *)
LEMMA LastIsMerged ==
    ASSUME ~Endless, NEW s \in removed
    PROVE  LastMerged(s) \in removed
<1> DEFINE C == MergedFrom(s)
           Closed(S) == \A q \in S : Goto(q) \in removed => Goto(q) \in S
<1>1. \A r : r \in C <=>
        r \in removed /\ \A S \in SUBSET removed : s \in S /\ Closed(S) => r \in S
  BY DEF MergedFrom
<1>2. LastMerged(s) = CHOOSE r \in C : Goto(r) \notin removed
  BY DEF LastMerged
<1>3. \A S \in SUBSET removed : S # {} => \E q \in S : Goto(q) \notin S
  BY DEF Endless
<1> HIDE DEF C
<1>4. s \in C /\ C \subseteq removed
  BY <1>1
<1>5. \E r \in C : Goto(r) \notin removed
  <2> SUFFICES ASSUME \A r \in C : Goto(r) \in removed PROVE FALSE
    OBVIOUS
  <2>1. ASSUME NEW r \in C PROVE Goto(r) \in C
    <3>1. ASSUME NEW S \in SUBSET removed, s \in S, Closed(S) PROVE Goto(r) \in S
      <4>1. r \in S
        BY <1>1, <3>1
      <4> QED
        BY <3>1, <4>1
    <3> HIDE DEF Closed
    <3> QED
      BY <1>1, <3>1
  <2> QED
    BY <1>3, <1>4, <2>1
<1> QED
  BY <1>2, <1>4, <1>5

(* A table knows the stage that lists it and its place there, if it is     *)
(* listed once.                                                            *)
TableInv ==
    OwnTables => \A x \in DOMAIN stages : \A i \in DOMAIN stages[x].tables :
        table_at[stages[x].tables[i]] = [stage |-> x, matcher |-> i]

(* The greatest element of a set with one.                                 *)
LEMMA MaxOne ==
    ASSUME NEW n \in Nat
    PROVE  Max({n}) = n
<1>1. \E m \in {n} : \A x \in {n} : m >= x
  OBVIOUS
<1>2. Max({n}) \in {n}
  BY <1>1, Zenon DEF Max
<1> QED
  BY <1>2

(* setMatcherId: the copies of merged stages do not give a table its ids.  *)
LEMMA TableAtOwn ==
    ASSUME WellFormed(prog), removed \subseteq DOMAIN prog.stage, ~Endless, OwnTables,
           NEW j, NEW s \in Kept, NEW i \in DOMAIN StageTables(s)
    PROVE  TableAt(StageTables(s)[i], j) = [stage |-> Rank(s), matcher |-> i]
<1> DEFINE t == StageTables(s)[i]
           users == {r \in DOMAIN prog.stage : t \in Elements(StageTables(LastMerged(r)))}
           places == {k \in DOMAIN StageTables(s) : StageTables(s)[k] = t}
<1>1. s \in DOMAIN prog.stage /\ s \notin removed /\ s \in Nat /\ s # None
  <2>1. s \in Nat
    BY StagesFinite
  <2> QED
    BY <2>1 DEF Kept, None
<1>2. LastMerged(s) = s
  BY <1>1 DEF LastMerged
<1>3. ASSUME NEW r \in DOMAIN prog.stage, t \in Elements(StageTables(LastMerged(r))) PROVE r = s
  <2>1. LastMerged(r) \in DOMAIN prog.stage
    BY LastIsMerged DEF LastMerged
  <2>2. LastMerged(r) = s
    BY <1>1, <1>3, <2>1 DEF Elements, OwnTables
  <2>3. r \notin removed
    BY <1>1, <2>2, LastIsMerged
  <2> QED
    BY <2>2, <2>3 DEF LastMerged
<1>4. s \in users
  BY <1>1, <1>2 DEF Elements
<1>5. users = {s}
  BY <1>3, <1>4
<1>6. i \in Nat
  <2>1. StageTables(s) \in Seq(DOMAIN prog.table)
    BY <1>1, StageTablesSeq
  <2> QED
    BY <2>1
<1>7. places = {i}
  BY <1>1 DEF OwnTables
<1>8. Max(users) = s /\ Max(places) = i
  BY <1>1, <1>5, <1>6, <1>7, MaxOne
<1>9. TableAt(t, j) =
        IF users = {} THEN [stage |-> 0, matcher |-> 1]
        ELSE [stage |-> Reorder(LastMerged(Max(users)), j),
              matcher |-> Max({k \in DOMAIN StageTables(LastMerged(Max(users))) :
                                 StageTables(LastMerged(Max(users)))[k] = t})]
  BY Zenon DEF TableAt
<1>10. Reorder(s, j) = Rank(s)
  BY <1>1 DEF Reorder
<1> HIDE DEF users, t
<1> QED
  BY <1>2, <1>5, <1>8, <1>9, <1>10 DEF t

(* Only the renumbering gives ids.                                         *)
LEMMA TableInvStep == CompilerInv /\ TableInv /\ [Next]_vars => TableInv'
<1> SUFFICES ASSUME CompilerInv, TableInv, [Next]_vars PROVE TableInv'
  OBVIOUS
<1>1. CASE EmitTask
  <2>1. stages' = Empty
    BY <1>1 DEF EmitTask, Load
  <2> QED
    BY <2>1 DEF TableInv, Empty
<1>2. CASE Renumber
  <2>1. PICK j \in {None} \cup 0 .. Cardinality(Kept) - 1 :
          /\ stages' = [x \in 0 .. Cardinality(Kept) - 1 |->
                          StageRecord(CHOOSE s \in Kept : Rank(s) = x, j)]
          /\ table_at' = [t \in DOMAIN prog.table |-> TableAt(t, j)]
    BY <1>2 DEF Renumber
  <2>2. WellFormed(prog) /\ removed \subseteq DOMAIN prog.stage /\ ~Endless /\ prog' = prog
    BY <1>2 DEF CompilerInv, StageInv, TypeOK, Renumber
  <2>3. OwnTables' = OwnTables
    BY <2>2 DEF OwnTables, StageTables
  <2>4. ASSUME OwnTables, NEW x \in DOMAIN stages', NEW i \in DOMAIN stages'[x].tables
        PROVE  table_at'[stages'[x].tables[i]] = [stage |-> x, matcher |-> i]
    <3> DEFINE s == CHOOSE r \in Kept : Rank(r) = x
    <3>1. x \in 0 .. Cardinality(Kept) - 1
      BY <2>1, <2>4
    <3>2. s \in Kept /\ Rank(s) = x
      <4>1. \E r \in Kept : Rank(r) = x
        BY <2>2, <3>1, RankOnto
      <4> QED
        BY <4>1
    <3>3. stages'[x] = StageRecord(s, j)
      BY <2>1, <3>1
    <3> HIDE DEF s
    <3>4. stages'[x].tables = StageTables(s)
      <4>1. StageRecord(s, j).tables = StageTables(s)
        BY RecordParts
      <4> QED
        BY <3>3, <4>1
    <3>5. StageTables(s) \in Seq(DOMAIN prog.table)
      BY <2>2, <3>2, StageTablesSeq DEF Kept
    <3>6. StageTables(s)[i] \in DOMAIN prog.table
      BY <2>4, <3>4, <3>5
    <3>7. table_at'[StageTables(s)[i]] = TableAt(StageTables(s)[i], j)
      BY <2>1, <3>6
    <3>8. TableAt(StageTables(s)[i], j) = [stage |-> Rank(s), matcher |-> i]
      BY <2>2, <2>4, <3>2, <3>4, TableAtOwn
    <3> QED
      BY <3>2, <3>4, <3>7, <3>8
  <2> QED
    BY <2>3, <2>4 DEF TableInv
<1>3. CASE ~(EmitTask \/ Renumber)
  <2>1. UNCHANGED <<prog, stages, table_at>>
    BY <1>3 DEF Next, vars, stageVars, RemoveEmpty, RenumberDead,
           AllocateParsers, AllocateParsersDead, PlaceStage, Placed, SetConfig, NextConfig,
           Configured, KeepMemory, KeepFails, NewTable, KeepDone, BuildProcessor,
           BuildProcessorDead, Dead, Output
  <2>2. OwnTables' = OwnTables
    BY <2>1 DEF OwnTables, StageTables
  <2> QED
    BY <2>1, <2>2 DEF TableInv
<1> QED
  BY <1>1, <1>2, <1>3

(* Whatever programs a session compiles: if a compilation printed no error *)
(* and no table is listed twice, the processor and the matcher that        *)
(* emitUpdate writes for a table of a remaining stage are those where the  *)
(* table is (setMatcherId, reorderStages).                                 *)
THEOREM UpdatesReachTheirTables == Spec => []UpdatesReach
<1>1. Init => TableInv
  BY DEF Init, TableInv, Empty
<1>2. CompilerInv /\ TableInv => UpdatesReach
  <2> SUFFICES ASSUME CompilerInv, TableInv, Done, ~err, OwnTables,
                      NEW x \in DOMAIN stages, NEW t \in Elements(stages[x].tables)
               PROVE  /\ LeadsTo(UpdateProc(t), x)
                      /\ stages[x].tables[UpdateMatcher(t)] = t
    BY DEF UpdatesReach
  <2>1. PICK i \in DOMAIN stages[x].tables : t = stages[x].tables[i]
    BY DEF Elements
  <2>2. table_at[t] = [stage |-> x, matcher |-> i]
    BY <2>1 DEF TableInv
  <2>3. x \in DOMAIN route /\ LeadsTo(route[x], x)
    BY StageRouted
  <2>4. UpdateProc(t) = route[x] /\ UpdateMatcher(t) = i
    BY <2>2, <2>3 DEF UpdateProc, UpdateMatcher, Physical
  <2> QED
    BY <2>1, <2>3, <2>4
<1> QED
  BY <1>1, <1>2, TableInvStep, Invariance, PTL DEF Spec


-----------------------------------------------------------------------------
(***************************************************************************)
(* Sums of spaces.                                                         *)
(***************************************************************************)
(* A sum goes on from the sum before it.                                   *)
LEMMA TotalStep ==
    ASSUME NEW w, NEW n \in Nat
    PROVE  Total(w, 0) = 0 /\ Total(w, n + 1) = Total(w, n) + w[n + 1]
<1> DEFINE F(m) == CHOOSE g : g = [i \in 0 .. m |-> IF i = 0 THEN 0 ELSE g[i - 1] + w[i]]
<1>1. \A m \in Nat : Total(w, m) = F(m)[m]
  BY DEF Total
<1>2. ASSUME NEW m \in Nat
      PROVE  \A i \in 0 .. m : F(m)[i] = IF i = 0 THEN 0 ELSE F(m)[i - 1] + w[i]
  <2> DEFINE f == F(m)
  <2>1. f = [i \in 0 .. m |-> IF i = 0 THEN 0 ELSE f[i - 1] + w[i]]
    BY SumExists DEF IsSum
  <2> HIDE DEF f
  <2>2. \A i \in 0 .. m : f[i] = IF i = 0 THEN 0 ELSE f[i - 1] + w[i]
    BY <2>1
  <2> QED
    BY <2>2 DEF f
<1> HIDE DEF F
<1> DEFINE S == {k \in Nat : k <= n => F(n + 1)[k] = F(n)[k]}
<1>3. 0 \in S
  BY <1>2
<1>4. ASSUME NEW k \in Nat, k \in S PROVE k + 1 \in S
  <2> SUFFICES ASSUME k + 1 <= n PROVE F(n + 1)[k + 1] = F(n)[k + 1]
    OBVIOUS
  <2>1. k + 1 \in 0 .. n /\ k + 1 \in 0 .. n + 1 /\ k + 1 # 0 /\ (k + 1) - 1 = k /\ n + 1 \in Nat
    OBVIOUS
  <2>2. F(n + 1)[k] = F(n)[k]
    BY <1>4
  <2>3. F(n + 1)[k + 1] = F(n + 1)[k] + w[k + 1] /\ F(n)[k + 1] = F(n)[k] + w[k + 1]
    BY <1>2, <2>1
  <2> QED
    BY <2>2, <2>3
<1> HIDE DEF S
<1>5. n \in S
  BY <1>3, <1>4, SetInduction
<1>6. F(n + 1)[n] = F(n)[n]
  BY <1>5 DEF S
<1>7. F(n + 1)[n + 1] = F(n + 1)[n] + w[n + 1]
  <2>1. n + 1 \in Nat /\ n + 1 \in 0 .. n + 1 /\ n + 1 # 0 /\ (n + 1) - 1 = n
    OBVIOUS
  <2> QED
    BY <1>2, <2>1
<1>8. F(0)[0] = 0
  BY <1>2
<1> QED
  BY <1>1, <1>6, <1>7, <1>8

(* Sums of the same spaces are the same, and sums of larger ones larger.   *)
LEMMA TotalLess ==
    ASSUME NEW w, NEW v, NEW n \in Nat,
           \A i \in 1 .. n : w[i] \in Int /\ v[i] \in Int /\ w[i] <= v[i]
    PROVE  Total(w, n) <= Total(v, n)
<1> DEFINE S == {k \in Nat : k <= n =>
                   Total(w, k) \in Int /\ Total(v, k) \in Int /\ Total(w, k) <= Total(v, k)}
<1>1. 0 \in S
  BY TotalStep
<1>2. ASSUME NEW k \in Nat, k \in S PROVE k + 1 \in S
  <2> SUFFICES ASSUME k + 1 <= n
               PROVE  /\ Total(w, k + 1) \in Int /\ Total(v, k + 1) \in Int
                      /\ Total(w, k + 1) <= Total(v, k + 1)
    OBVIOUS
  <2>1. Total(w, k) \in Int /\ Total(v, k) \in Int /\ Total(w, k) <= Total(v, k)
    BY <1>2
  <2>2. w[k + 1] \in Int /\ v[k + 1] \in Int /\ w[k + 1] <= v[k + 1]
    OBVIOUS
  <2>3. Total(w, k + 1) = Total(w, k) + w[k + 1] /\ Total(v, k + 1) = Total(v, k) + v[k + 1]
    BY TotalStep
  <2> QED
    BY <2>1, <2>2, <2>3
<1> HIDE DEF S
<1>3. n \in S
  BY <1>1, <1>2, SetInduction
<1> QED
  BY <1>3 DEF S

LEMMA TotalSame ==
    ASSUME NEW w, NEW v, NEW n \in Nat,
           \A i \in 1 .. n : w[i] = v[i]
    PROVE  Total(w, n) = Total(v, n)
<1> DEFINE S == {k \in Nat : k <= n => Total(w, k) = Total(v, k)}
<1>1. 0 \in S
  BY TotalStep
<1>2. ASSUME NEW k \in Nat, k \in S PROVE k + 1 \in S
  <2> SUFFICES ASSUME k + 1 <= n PROVE Total(w, k + 1) = Total(v, k + 1)
    OBVIOUS
  <2>1. Total(w, k) = Total(v, k) /\ w[k + 1] = v[k + 1]
    BY <1>2
  <2>2. Total(w, k + 1) = Total(w, k) + w[k + 1] /\ Total(v, k + 1) = Total(v, k) + v[k + 1]
    BY TotalStep
  <2> QED
    BY <2>1, <2>2
<1> HIDE DEF S
<1>3. n \in S
  BY <1>1, <1>2, SetInduction
<1> QED
  BY <1>3 DEF S

LEMMA TotalZero ==
    ASSUME NEW w, NEW n \in Nat, \A i \in 1 .. n : w[i] = 0
    PROVE  Total(w, n) = 0
<1> DEFINE S == {k \in Nat : k <= n => Total(w, k) = 0}
<1>1. 0 \in S
  BY TotalStep
<1>2. ASSUME NEW k \in Nat, k \in S PROVE k + 1 \in S
  <2> SUFFICES ASSUME k + 1 <= n PROVE Total(w, k + 1) = 0
    OBVIOUS
  <2>1. Total(w, k) = 0 /\ w[k + 1] = 0
    BY <1>2
  <2> QED
    BY <2>1, TotalStep
<1> HIDE DEF S
<1>3. n \in S
  BY <1>1, <1>2, SetInduction
<1> QED
  BY <1>3 DEF S

(* A sum in which one space changes changes by as much.                    *)
LEMMA TotalChange ==
    ASSUME NEW w, NEW v, NEW n \in Nat, NEW m \in 1 .. n,
           \A i \in 1 .. n : w[i] \in Int /\ v[i] \in Int /\ (i # m => w[i] = v[i])
    PROVE  Total(v, n) = Total(w, n) + (v[m] - w[m])
<1> DEFINE d == v[m] - w[m]
           S == {k \in Nat : k <= n =>
                   /\ Total(w, k) \in Int
                   /\ Total(v, k) = IF k < m THEN Total(w, k) ELSE Total(w, k) + d}
<1>1. 0 \in S
  BY TotalStep
<1>2. ASSUME NEW k \in Nat, k \in S PROVE k + 1 \in S
  <2> SUFFICES ASSUME k + 1 <= n
               PROVE  /\ Total(w, k + 1) \in Int
                      /\ Total(v, k + 1) = IF k + 1 < m THEN Total(w, k + 1)
                                           ELSE Total(w, k + 1) + d
    OBVIOUS
  <2>1. /\ Total(w, k) \in Int
        /\ Total(v, k) = IF k < m THEN Total(w, k) ELSE Total(w, k) + d
    BY <1>2
  <2>2. /\ w[k + 1] \in Int /\ v[k + 1] \in Int /\ w[m] \in Int /\ v[m] \in Int
        /\ (k + 1 # m => w[k + 1] = v[k + 1])
    OBVIOUS
  <2>3. Total(w, k + 1) = Total(w, k) + w[k + 1] /\ Total(v, k + 1) = Total(v, k) + v[k + 1]
    BY TotalStep
  <2> QED
    BY <2>1, <2>2, <2>3
<1> HIDE DEF S
<1>3. n \in S
  BY <1>1, <1>2, SetInduction
<1> QED
  BY <1>3 DEF S

-----------------------------------------------------------------------------
(***************************************************************************)
(* Memory blocks.  Kind by kind of memory: what stages and tables need,    *)
(* what is left and what is numbered in a cluster.                         *)
(***************************************************************************)
Kinds == {"SRAM", "TCAM"}

Room(k) == IF k = "SRAM" THEN NSram ELSE NTcam
NeedOf(k) == [x \in DOMAIN stages |-> IF k = "SRAM" THEN SramSpace(x) ELSE TcamSpace(x)]
Takes(k, t) == IF k = "SRAM" THEN SramOf(t) ELSE TcamOf(t)
Left(k, c) == IF k = "SRAM" THEN space[c].sram ELSE space[c].tcam
Taken(k, c) == IF k = "SRAM" THEN number[c].sram ELSE number[c].tcam

(* The processors of a cluster, from the first to the last, and what those *)
(* of them that hold stages of S need.                                     *)
SlotAt(c, i) == c * ClusterProcs + (i - 1)
Weights(pl, need, c, S) ==
    [i \in 1 .. ClusterProcs |->
       IF pl[SlotAt(c, i)] \in S THEN need[pl[SlotAt(c, i)]] ELSE 0]
Used(k, c, S) == Total(Weights(place, NeedOf(k), c, S), ClusterProcs)

(* What the first m tables of a stage take.                                *)
TableWeights(k, x) == [i \in DOMAIN stages[x].tables |-> Takes(k, stages[x].tables[i])]
Part(k, x, m) == Total(TableWeights(k, x), m)

BlocksOf(k, t) ==
    (IF prog.table[t].mem = k THEN Elements(config[t].key) ELSE {})
      \cup (IF k = "SRAM" THEN Elements(config[t].value) ELSE {})

(* The tables of a stage with keys have sizes that nobody left open.       *)
SizeNat ==
    ~Keyless => \A t \in DOMAIN size :
        size[t].kw \in Nat /\ size[t].vw \in Nat /\ size[t].depth \in Nat

FreshBlocks ==
    phase \in {"remove", "parsers", "keep", "place"} =>
        /\ config = [t \in DOMAIN prog.table |-> NoBlocks]
        /\ number = [c \in Cluster |-> [sram |-> 0, tcam |-> 0]]

(* cluster_space accounts for the stages that were placed.                 *)
SpaceKept ==
    phase \in {"place", "config"} =>
        \A k \in Kinds, c \in Cluster :
            Left(k, c) \in Nat /\ Left(k, c) + Used(k, c, DOMAIN stages) = Room(k)

(* The tables that have been numbered, of the stages up to the cursor.     *)
Numbered(x, i) == x < cursor \/ (x = cursor /\ i < item)

(* cluster_number accounts for the tables that were numbered, which are    *)
(* apart and below it.                                                     *)
NumbersKept ==
    \A k \in Kinds, c \in Cluster :
        Taken(k, c) = Used(k, c, 0 .. cursor - 1)
                        + (IF cursor \in DOMAIN stages /\ StageCluster(cursor) = c
                           THEN Part(k, cursor, item - 1) ELSE 0)

NumberedBelow ==
    \A x \in DOMAIN stages : \A i \in DOMAIN stages[x].tables : Numbered(x, i) =>
        \A k \in Kinds :
            BlocksOf(k, stages[x].tables[i]) \subseteq 0 .. Taken(k, StageCluster(x)) - 1

NumberedApart ==
    \A x, y \in DOMAIN stages :
        \A i \in DOMAIN stages[x].tables, j \in DOMAIN stages[y].tables :
            /\ Numbered(x, i) /\ Numbered(y, j) /\ StageCluster(x) = StageCluster(y)
            /\ stages[x].tables[i] # stages[y].tables[j]
            => \A k \in Kinds :
                 BlocksOf(k, stages[x].tables[i]) \cap BlocksOf(k, stages[y].tables[j]) = {}

OthersEmpty ==
    \A t \in DOMAIN prog.table :
        config[t] = NoBlocks
          \/ \E x \in DOMAIN stages : \E i \in DOMAIN stages[x].tables :
               Numbered(x, i) /\ stages[x].tables[i] = t

Regular == ~err /\ ~Keyless /\ OwnTables

ConfigInv ==
    phase = "config" /\ Regular =>
        /\ cursor \in DOMAIN stages => item \in 1 .. Len(stages[cursor].tables) + 1
        /\ \A x \in DOMAIN stages : x >= cursor => cursor \in DOMAIN stages
        /\ NumbersKept /\ NumberedBelow /\ NumberedApart /\ OthersEmpty

(* The tables of a full allocation.                                        *)
FullApart ==
    (phase = "build" \/ Done) /\ ~incremental /\ Regular =>
        /\ \A x \in DOMAIN stages : \A i \in DOMAIN stages[x].tables : \A k \in Kinds :
             BlocksOf(k, stages[x].tables[i]) \subseteq 0 .. Room(k) - 1
        /\ \A x, y \in DOMAIN stages :
             \A i \in DOMAIN stages[x].tables, j \in DOMAIN stages[y].tables :
               /\ StageCluster(x) = StageCluster(y)
               /\ stages[x].tables[i] # stages[y].tables[j]
               => \A k \in Kinds :
                    BlocksOf(k, stages[x].tables[i]) \cap BlocksOf(k, stages[y].tables[j]) = {}
        /\ \A t \in DOMAIN prog.table :
             config[t] = NoBlocks
               \/ \E x \in DOMAIN stages : \E i \in DOMAIN stages[x].tables :
                    stages[x].tables[i] = t

(* The tables of the last compilation, as the next one sees them.          *)
PrevCluster(t) == NonNeg(ClusterOf(prev[t].proc))
PrevBlocks(k, t) ==
    (IF prev[t].mem = k THEN Elements(prev[t].key) ELSE {})
      \cup (IF k = "SRAM" THEN Elements(prev[t].value) ELSE {})

(* Old tables that are kept agree on the cluster of their stage.           *)
KeptAgree ==
    phase = "new" \/ (incremental /\ phase = "build") =>
        \A t \in Existing :
            /\ OldCluster(table_at[t].stage) = PrevCluster(t)
            /\ table_at[t].stage \notin DOMAIN stages => PrevCluster(t) = 0

PrevApart ==
    (prev # NoTask \/ Done) /\ spoiled = {} =>
        /\ \A t \in DOMAIN prev, k \in Kinds : PrevBlocks(k, t) \subseteq 0 .. Room(k) - 1
        /\ \A t, u \in DOMAIN prev :
             t # u /\ PrevCluster(t) = PrevCluster(u) =>
                 \A k \in Kinds : PrevBlocks(k, t) \cap PrevBlocks(k, u) = {}

(* What was put out is what the next compilation sees.                     *)
OutLink ==
    Done => /\ DOMAIN prev = DOMAIN prog.table
            /\ spoiled = {} => ~err /\ OwnTables
            /\ \A t \in DOMAIN prev :
                 /\ prev[t].proc = Physical(table_at[t].stage)
                 /\ prev[t].mem = prog.table[t].mem
                 /\ prev[t].key = config[t].key /\ prev[t].value = config[t].value

BlockInv ==
    /\ SizeNat /\ FreshBlocks /\ SpaceKept /\ ConfigInv /\ FullApart
    /\ KeptAgree /\ PrevApart /\ OutLink

-----------------------------------------------------------------------------
(***************************************************************************)
(* cluster_space.                                                          *)
(***************************************************************************)
(* What the stages need is a number, and only the stages change it.        *)
LEMMA NeedInt ==
    ASSUME StageInv, NEW k
    PROVE  NeedOf(k) \in [DOMAIN stages -> Int]
<1>1. \A x \in DOMAIN stages : SramSpace(x) \in Int /\ TcamSpace(x) \in Int
  BY SpaceInt
<1> QED
  BY <1>1 DEF NeedOf

LEMMA NeedFrame ==
    ASSUME UNCHANGED <<prog, size, stages>>, NEW k
    PROVE  NeedOf(k)' = NeedOf(k)
<1>1. \A t : SramOf(t)' = SramOf(t) /\ TcamOf(t)' = TcamOf(t)
  BY DEF SramOf, TcamOf, ValueBlocks, KeyBlocks, InTcam
<1>2. \A x : SramSpace(x)' = SramSpace(x) /\ TcamSpace(x)' = TcamSpace(x)
  BY <1>1 DEF SramSpace, TcamSpace
<1> QED
  BY <1>2 DEF NeedOf

(* The processors of a cluster.                                            *)
LEMMA SlotInCluster ==
    ASSUME NEW c \in Cluster, NEW i \in 1 .. ClusterProcs
    PROVE  SlotAt(c, i) \in Proc /\ ClusterOf(SlotAt(c, i)) = c
<1>1. ClusterProcs \in Nat
  BY SizeAssumption DEF SizeAssumption
<1> DEFINE m == i - 1
<1>2. m \in 0 .. ClusterProcs - 1
  BY <1>1
<1>3. SlotAt(c, i) = c * ClusterProcs + m
  BY DEF SlotAt
<1> HIDE DEF m
<1>4. c * ClusterProcs + m \in Proc /\ ClusterOf(c * ClusterProcs + m) = c
  BY <1>2, ProcOfCluster
<1> QED
  BY <1>3, <1>4

LEMMA SlotsDiffer ==
    ASSUME NEW c \in Cluster, NEW i \in 1 .. ClusterProcs, NEW j \in 1 .. ClusterProcs,
           SlotAt(c, i) = SlotAt(c, j)
    PROVE  i = j
<1>1. ClusterProcs \in Nat /\ c \in Int
  BY SizeAssumption DEF SizeAssumption, Cluster
<1>2. c * ClusterProcs \in Int
  BY <1>1, Z3
<1> DEFINE b == c * ClusterProcs
<1>3. b + (i - 1) = b + (j - 1)
  BY DEF SlotAt
<1> HIDE DEF b
<1> QED
  BY <1>1, <1>2, <1>3 DEF b

LEMMA SlotOfProc ==
    ASSUME NEW p \in Proc
    PROVE  /\ ClusterOf(p) \in Cluster
           /\ \E i \in 1 .. ClusterProcs : p = SlotAt(ClusterOf(p), i)
<1> DEFINE P == ClusterProcs
           c == ClusterOf(p)
<1>1. P \in Nat \ {0} /\ p \in Nat
  BY SizeAssumption DEF SizeAssumption, Proc
<1>2. c \in Cluster
  BY ClusterRange
<1>3. c \in Nat
  BY <1>2, SizeAssumption DEF Cluster, SizeAssumption
<1>4. c = p \div P
  BY DEF ClusterOf
<1> HIDE DEF P, c
<1>5. c * P <= p /\ p < c * P + P /\ c * P \in Nat
  BY <1>1, <1>3, <1>4, Z3
<1>6. (p - c * P) + 1 \in 1 .. P /\ p = c * P + (((p - c * P) + 1) - 1)
  BY <1>1, <1>5
<1> QED
  BY <1>2, <1>6 DEF P, c, SlotAt

(* Without a stage of S the cluster needs nothing.                         *)
LEMMA UsedNone ==
    ASSUME NEW pl, NEW need, NEW S, NEW c \in Cluster, \A i \in Proc : pl[i] \notin S
    PROVE  Total(Weights(pl, need, c, S), ClusterProcs) = 0
<1> DEFINE w == Weights(pl, need, c, S)
<1>1. ASSUME NEW i \in 1 .. ClusterProcs PROVE w[i] = 0
  <2>1. SlotAt(c, i) \in Proc
    BY SlotInCluster
  <2> QED
    BY <2>1 DEF Weights
<1>2. ClusterProcs \in Nat
  BY SizeAssumption DEF SizeAssumption
<1> HIDE DEF w
<1> QED
  BY <1>1, <1>2, TotalZero DEF w

LEMMA UsedInt ==
    ASSUME NEW pl, NEW D, NEW need \in [D -> Int], NEW S \in SUBSET D, NEW c
    PROVE  /\ Total(Weights(pl, need, c, S), ClusterProcs) \in Int
           /\ \A i \in 1 .. ClusterProcs : Weights(pl, need, c, S)[i] \in Int
<1> DEFINE w == Weights(pl, need, c, S)
<1>1. \A i \in 1 .. ClusterProcs : w[i] \in Int
  BY DEF Weights
<1>2. ClusterProcs \in Nat
  BY SizeAssumption DEF SizeAssumption
<1> HIDE DEF w
<1> QED
  BY <1>1, <1>2, TotalInt DEF w

(* One processor gets a stage of the set: its cluster needs so much more,  *)
(* the others need what they did.                                          *)
Gains(pl, ql, S, T, p) ==
    /\ pl[p] \notin S /\ ql[p] \in T
    /\ \A i \in Proc \ {p} : (pl[i] \in S <=> ql[i] \in T) /\ (pl[i] \in S => pl[i] = ql[i])

Gain(need, ql, p, c) == IF c = ClusterOf(p) THEN need[ql[p]] ELSE 0

LEMMA UsedMore ==
    ASSUME NEW pl, NEW ql, NEW D, NEW need \in [D -> Int], NEW S \in SUBSET D, NEW T \in SUBSET D,
           NEW p \in Proc, Gains(pl, ql, S, T, p), NEW c \in Cluster
    PROVE  Total(Weights(ql, need, c, T), ClusterProcs)
             = Total(Weights(pl, need, c, S), ClusterProcs)
                 + Gain(need, ql, p, c)
<1> DEFINE w == Weights(pl, need, c, S)
           v == Weights(ql, need, c, T)
<1>1. ClusterProcs \in Nat
  BY SizeAssumption DEF SizeAssumption
<1>2. \A i \in 1 .. ClusterProcs : w[i] \in Int /\ v[i] \in Int
  BY UsedInt
<1>3. Total(w, ClusterProcs) \in Int
  BY UsedInt
<1>4. \A i \in 1 .. ClusterProcs : SlotAt(c, i) # p => w[i] = v[i]
  <2> SUFFICES ASSUME NEW i \in 1 .. ClusterProcs, SlotAt(c, i) # p PROVE w[i] = v[i]
    OBVIOUS
  <2>1. SlotAt(c, i) \in Proc
    BY SlotInCluster
  <2> QED
    BY <2>1 DEF Weights, Gains
<1>5. CASE c = ClusterOf(p)
  <2>1. PICK m \in 1 .. ClusterProcs : p = SlotAt(c, m)
    BY <1>5, SlotOfProc
  <2>2. w[m] = 0 /\ v[m] = need[ql[p]]
    BY <2>1 DEF Weights, Gains
  <2>3. \A i \in 1 .. ClusterProcs : i # m => SlotAt(c, i) # p
    BY <2>1, SlotsDiffer
  <2> HIDE DEF w, v
  <2>4. Total(v, ClusterProcs) = Total(w, ClusterProcs) + (v[m] - w[m])
    BY <1>1, <1>2, <1>4, <2>3, TotalChange
  <2>5. need[ql[p]] \in Int
    BY DEF Gains
  <2> QED
    BY <1>3, <1>5, <2>2, <2>4, <2>5 DEF w, v, Gain
<1>6. CASE c # ClusterOf(p)
  <2>1. ASSUME NEW i \in 1 .. ClusterProcs PROVE SlotAt(c, i) # p
    <3>1. ClusterOf(SlotAt(c, i)) = c
      BY SlotInCluster
    <3> QED
      BY <1>6, <3>1
  <2> HIDE DEF w, v
  <2>2. Total(v, ClusterProcs) = Total(w, ClusterProcs)
    BY <1>1, <1>4, <2>1, TotalSame
  <2> QED
    BY <1>3, <1>6, <2>2 DEF w, v, Gain
<1> QED
  BY <1>5, <1>6

(* The parts of a compilation that other steps leave alone.                *)
LEMMA UsedFrame ==
    ASSUME UNCHANGED <<prog, size, stages, place>>, NEW k, NEW c, NEW S
    PROVE  Used(k, c, S)' = Used(k, c, S)
<1>1. NeedOf(k)' = NeedOf(k)
  BY NeedFrame
<1> QED
  BY <1>1 DEF Used

(* First fit takes from cluster_space what the stage it places needs.      *)
LEMMA PlaceSpace ==
    ASSUME CompilerInv, SpaceKept, PlaceStage
    PROVE  SpaceKept'
<1> DEFINE x == topo[cursor]
           c == FirstFit(x)
           p == c * ClusterProcs + Cardinality(InCluster(c))
           room == \E d \in Cluster : HasRoom(d, x)
           D == DOMAIN stages
<1>1. /\ phase = "place" /\ phase' = "place" /\ cursor \in DOMAIN topo
      /\ UNCHANGED <<prog, size, stages>>
  BY DEF PlaceStage, stageVars
<1>2. /\ room => /\ place' = [place EXCEPT ![p] = x]
                 /\ space' = [space EXCEPT ![c] = [sram |-> @.sram - SramSpace(x),
                                                   tcam |-> @.tcam - TcamSpace(x)]]
      /\ ~room => UNCHANGED <<place, space>>
  BY DEF PlaceStage
<1>3. Sorted
  BY <1>1 DEF Sorted
<1>4. x \in D /\ x # None /\ None \notin D
  BY <1>1, <1>3, TopoFacts
<1>5. \A k \in Kinds, d \in Cluster : Left(k, d) \in Nat /\ Left(k, d) + Used(k, d, D) = Room(k)
  BY <1>1 DEF SpaceKept
<1> HIDE DEF x
<1>6. CASE ~room
  <2>1. UNCHANGED <<place, space>>
    BY <1>2, <1>6
  <2>2. ASSUME NEW k \in Kinds, NEW d \in Cluster
        PROVE  Left(k, d)' = Left(k, d) /\ Used(k, d, DOMAIN stages)' = Used(k, d, D)
    <3>1. Left(k, d)' = Left(k, d)
      BY <2>1 DEF Left
    <3>2. NeedOf(k)' = NeedOf(k)
      BY <1>1, NeedFrame
    <3> QED
      BY <1>1, <2>1, <3>1, <3>2 DEF Used
  <2> QED
    BY <1>5, <2>2 DEF SpaceKept
<1>7. CASE room
  <2>1. c \in Cluster /\ HasRoom(c, x)
    BY <1>7, FirstFitRoom
  <2> HIDE DEF c
  <2>2. PICK m \in 0 .. ClusterProcs :
          InCluster(c) = c * ClusterProcs .. c * ClusterProcs + m - 1
    BY <1>1, <2>1 DEF CompilerInv, FullInv, Dense
  <2>3. c \in Nat /\ ClusterProcs \in Nat \ {0} /\ m \in Nat /\ c * ClusterProcs \in Nat
    BY <2>1, SizeAssumption DEF SizeAssumption, Cluster
  <2>4. Cardinality(InCluster(c)) = m
    BY <2>2, <2>3, FS_Interval
  <2>5. m \in 0 .. ClusterProcs - 1
    BY <2>1, <2>3, <2>4 DEF HasRoom
  <2>6. p = c * ClusterProcs + m /\ p \in Proc /\ ClusterOf(p) = c
    BY <2>1, <2>4, <2>5, ProcOfCluster
  <2>7. place[p] = None
    <3>1. p \notin InCluster(c)
      BY <2>2, <2>3, <2>6
    <3> QED
      BY <2>6, <3>1 DEF InCluster
  <2>8. place \in [Proc -> D \cup {None}]
    BY <1>1 DEF CompilerInv, FullInv, PlacedUpTo
  <2>9. place' = [place EXCEPT ![p] = x]
    BY <1>2, <1>7
  <2> HIDE DEF p
  <2>10. place'[p] = x /\ \A i \in Proc \ {p} : place'[i] = place[i]
    BY <2>6, <2>8, <2>9
  <2>11. ASSUME NEW k \in Kinds, NEW d \in Cluster
         PROVE  Left(k, d)' \in Nat /\ Left(k, d)' + Used(k, d, DOMAIN stages)' = Room(k)
    <3> DEFINE n == NeedOf(k)[x]
    <3>1. NeedOf(k) \in [D -> Int] /\ NeedOf(k)' = NeedOf(k)
      BY <1>1, NeedInt, NeedFrame DEF CompilerInv
    <3>2. n \in Int /\ n = IF k = "SRAM" THEN SramSpace(x) ELSE TcamSpace(x)
      BY <1>4, <3>1 DEF NeedOf
    <3>3. Used(k, d, DOMAIN stages)' = Used(k, d, D) + (IF d = ClusterOf(p) THEN n ELSE 0)
      <4> DEFINE need == NeedOf(k)
                 ql == place'
      <4>1. Used(k, d, DOMAIN stages)' = Total(Weights(ql, need, d, D), ClusterProcs)
        BY <1>1, <3>1 DEF Used
      <4>2. need \in [D -> Int] /\ D \in SUBSET D /\ p \in Proc
        BY <2>6, <3>1
      <4>3. Gains(place, ql, D, D, p)
        BY <1>4, <2>7, <2>10 DEF Gains
      <4> HIDE DEF need, ql, D
      <4>4. Total(Weights(ql, need, d, D), ClusterProcs)
              = Total(Weights(place, need, d, D), ClusterProcs)
                  + Gain(need, ql, p, d)
        BY <4>2, <4>3, UsedMore
      <4> QED
        BY <2>10, <4>1, <4>4 DEF Used, Gain, need, ql
    <3>4. Left(k, d)' = IF d = c THEN Left(k, d) - n ELSE Left(k, d)
      <4> DEFINE r == [sram |-> space[c].sram - SramSpace(x), tcam |-> space[c].tcam - TcamSpace(x)]
      <4>1. space' = [space EXCEPT ![c] = r]
        BY <1>2, <1>7 DEF c
      <4>2. r.sram = space[c].sram - SramSpace(x) /\ r.tcam = space[c].tcam - TcamSpace(x)
        OBVIOUS
      <4>3. DOMAIN space = Cluster
        BY DEF CompilerInv, TypeOK
      <4> HIDE DEF r
      <4>4. space'[d] = IF d = c THEN r ELSE space[d]
        BY <2>1, <4>1, <4>3
      <4> QED
        BY <3>2, <4>2, <4>4 DEF Left
    <3>5. d = c => Left(k, d) >= n
      BY <2>1, <3>2 DEF HasRoom, Left
    <3>6. Left(k, d) \in Nat /\ Left(k, d) + Used(k, d, D) = Room(k)
      BY <1>5
    <3>7. Used(k, d, D) \in Int
      <4>1. D \in SUBSET D
        OBVIOUS
      <4> QED
        BY <3>1, <4>1, UsedInt DEF Used
    <3> HIDE DEF n
    <3> QED
      BY <2>6, <3>2, <3>3, <3>4, <3>5, <3>6, <3>7
  <2> QED
    BY <2>11 DEF SpaceKept, Room
<1> QED
  BY <1>6, <1>7

(* cluster_space keeps count.                                              *)
LEMMA SpaceStep == CompilerInv /\ SpaceKept /\ [Next]_vars => SpaceKept'
<1> SUFFICES ASSUME CompilerInv, SpaceKept, [Next]_vars PROVE SpaceKept'
  OBVIOUS
<1>1. CASE AllocateParsers \/ KeepFails
  <2>1. phase \in {"parsers", "keep"} /\ UNCHANGED <<place, space, stages>>
    BY <1>1 DEF AllocateParsers, KeepFails, memVars, stageVars
  <2>2. /\ place = [i \in Proc |-> None]
        /\ space = [c \in Cluster |-> [sram |-> NSram, tcam |-> NTcam]]
    BY <2>1 DEF CompilerInv, FreshInv
  <2>3. None \notin DOMAIN stages
    <3>1. DOMAIN stages \subseteq Nat
      BY StageNumbers DEF CompilerInv
    <3> QED
      BY <3>1 DEF None
  <2>4. /\ place' = [i \in Proc |-> None] /\ None \notin DOMAIN stages'
        /\ space' = [c \in Cluster |-> [sram |-> NSram, tcam |-> NTcam]]
    BY <2>1, <2>2, <2>3
  <2>5. ASSUME NEW k \in Kinds, NEW c \in Cluster
        PROVE  (Left(k, c) \in Nat /\ Left(k, c) + Used(k, c, DOMAIN stages) = Room(k))'
    <3>1. Used(k, c, DOMAIN stages)' = 0
      <4> DEFINE pl == place'
                 D == DOMAIN stages'
                 need == NeedOf(k)'
      <4>1. \A i \in Proc : pl[i] \notin D
        BY <2>4
      <4>2. Used(k, c, DOMAIN stages)' = Total(Weights(pl, need, c, D), ClusterProcs)
        BY DEF Used
      <4> HIDE DEF pl, D, need
      <4> QED
        BY <4>1, <4>2, UsedNone
    <3>2. Left(k, c)' = Room(k) /\ Room(k) \in Nat
      BY <2>4, SizeAssumption DEF Left, Room, SizeAssumption
    <3> QED
      BY <3>1, <3>2 DEF Room
  <2> QED
    BY <2>5 DEF SpaceKept
<1>2. CASE PlaceStage
  BY <1>2, PlaceSpace
<1>3. CASE Placed \/ SetConfig \/ NextConfig \/ UNCHANGED vars
  <2>1. /\ UNCHANGED <<prog, size, stages, place, space>>
        /\ phase' \in {"place", "config"} => phase \in {"place", "config"}
    BY <1>3 DEF Placed, SetConfig, NextConfig, vars, sessionVars, stageVars, memVars
  <2>2. ASSUME NEW k \in Kinds, NEW c \in Cluster
        PROVE  Left(k, c)' = Left(k, c) /\ Used(k, c, DOMAIN stages)' = Used(k, c, DOMAIN stages)
    <3>1. NeedOf(k)' = NeedOf(k)
      BY <2>1, NeedFrame
    <3> QED
      BY <2>1, <3>1 DEF Left, Used
  <2> QED
    BY <2>1, <2>2 DEF SpaceKept, Room
<1>4. CASE ~(AllocateParsers \/ KeepFails \/ PlaceStage \/ Placed \/ SetConfig \/ NextConfig
             \/ UNCHANGED vars)
  <2>1. phase' \notin {"place", "config"}
    BY <1>4 DEF Next, EmitTask, Load, RemoveEmpty, Renumber, RenumberDead, AllocateParsersDead,
           Configured, KeepMemory, NewTable, KeepDone, BuildProcessor, BuildProcessorDead, Dead,
           Output
  <2> QED
    BY <2>1 DEF SpaceKept
<1> QED
  BY <1>1, <1>2, <1>3, <1>4

(* Only load sets the sizes.                                               *)
LEMMA SizeStep == CompilerInv /\ SizeNat /\ [Next]_vars => SizeNat'
<1> SUFFICES ASSUME CompilerInv, SizeNat, [Next]_vars PROVE SizeNat'
  OBVIOUS
<1>1. CASE EmitTask
  <2>1. PICK p \in Program, j \in Junk : Load(p, j)
    BY <1>1, SizeAssumption DEF EmitTask, SizeAssumption
  <2>2. /\ prog' = p
        /\ size' = [t \in DOMAIN p.table |->
                      IF p.table[t].keyless THEN [kw |-> j, vw |-> j, depth |-> 1]
                      ELSE [kw |-> p.table[t].kw, vw |-> p.table[t].vw, depth |-> p.table[t].depth]]
    BY <2>1 DEF Load
  <2>3. \A t \in DOMAIN p.table :
           p.table[t].kw \in Nat /\ p.table[t].vw \in Nat /\ p.table[t].depth \in Nat
    BY <2>1, ProgramAssumption DEF ProgramAssumption, WellFormed
  <2>4. ASSUME ~Keyless', NEW t \in DOMAIN size'
        PROVE  size'[t].kw \in Nat /\ size'[t].vw \in Nat /\ size'[t].depth \in Nat
    <3>1. t \in DOMAIN p.table /\ ~p.table[t].keyless
      BY <2>2, <2>4 DEF Keyless
    <3>2. size'[t] = [kw |-> p.table[t].kw, vw |-> p.table[t].vw, depth |-> p.table[t].depth]
      BY <2>2, <3>1
    <3> QED
      BY <2>3, <3>1, <3>2
  <2> QED
    BY <2>4 DEF SizeNat
<1>2. CASE ~EmitTask
  <2>1. UNCHANGED <<prog, size>>
    BY <1>2 DEF Next, vars, stageVars, RemoveEmpty, Renumber, RenumberDead,
           AllocateParsers, AllocateParsersDead, PlaceStage, Placed, SetConfig, NextConfig,
           Configured, KeepMemory, KeepFails, NewTable, KeepDone, BuildProcessor,
           BuildProcessorDead, Dead, Output
  <2> QED
    BY <2>1 DEF SizeNat, Keyless
<1> QED
  BY <1>1, <1>2

(* No block is given away before setConfig.                                *)
LEMMA FreshStep == FreshBlocks /\ [Next]_vars => FreshBlocks'
<1> SUFFICES ASSUME FreshBlocks, [Next]_vars PROVE FreshBlocks'
  OBVIOUS
<1>1. CASE EmitTask
  BY <1>1 DEF EmitTask, Load, FreshBlocks
<1>2. CASE \/ RemoveEmpty \/ Renumber \/ AllocateParsers \/ KeepFails \/ PlaceStage
           \/ UNCHANGED vars
  <2>1. /\ UNCHANGED <<prog, config, number>>
        /\ phase' \in {"remove", "parsers", "keep", "place"} =>
             phase \in {"remove", "parsers", "keep", "place"}
    BY <1>2 DEF RemoveEmpty, Renumber, AllocateParsers, KeepFails, PlaceStage, vars, sessionVars,
           stageVars, memVars
  <2> QED
    BY <2>1 DEF FreshBlocks
<1>3. CASE ~(EmitTask \/ RemoveEmpty \/ Renumber \/ AllocateParsers \/ KeepFails \/ PlaceStage
             \/ UNCHANGED vars)
  <2>1. phase' \notin {"remove", "parsers", "keep", "place"}
    BY <1>3 DEF Next, RenumberDead, AllocateParsersDead, Placed, SetConfig, NextConfig,
           Configured, KeepMemory, NewTable, KeepDone, BuildProcessor, BuildProcessorDead, Dead,
           Output
  <2> QED
    BY <2>1 DEF FreshBlocks
<1> QED
  BY <1>1, <1>2, <1>3

-----------------------------------------------------------------------------
(***************************************************************************)
(* setConfig.                                                              *)
(***************************************************************************)
(* Without an error the full allocation gives a stage one processor, and   *)
(* its cluster is that processor's.                                        *)
LEMMA StagePlace ==
    ASSUME CompilerInv, phase \in {"config", "build"} \/ Done, ~incremental, ~err,
           NEW x \in DOMAIN stages
    PROVE  \E p \in Proc : /\ place[p] = x /\ ClusterOf(p) = StageCluster(x)
                           /\ \A i \in Proc : place[i] = x => i = p
<1>1. Sorted
  BY DEF Sorted
<1>2. x # None
  BY <1>1, TopoFacts
<1>3. PICK n \in 1 .. Len(topo) : topo[n] = x
  BY <1>1, TopoFacts
<1>4. \E i \in Proc : place[i] = x
  BY <1>3 DEF CompilerInv, FullInv, PlacedUpTo
<1> DEFINE p == CHOOSE i \in Proc : place[i] = x
<1>5. p \in Proc /\ place[p] = x
  BY <1>4, Zenon
<1>6. StageCluster(x) = ClusterOf(p)
  BY <1>4 DEF StageCluster
<1> HIDE DEF p
<1>7. \A i \in Proc : place[i] = x => i = p
  BY <1>2, <1>5 DEF CompilerInv, FullInv, PlacedUpTo
<1> QED
  BY <1>5, <1>6, <1>7

LEMMA StageClusterRange ==
    ASSUME NEW x
    PROVE  StageCluster(x) \in Cluster
<1>1. 0 \in Cluster
  BY SizeAssumption DEF SizeAssumption, Cluster
<1> DEFINE p == CHOOSE i \in Proc : place[i] = x
<1>2. (\E i \in Proc : place[i] = x) => p \in Proc
  BY Zenon
<1>3. StageCluster(x) = IF \E i \in Proc : place[i] = x THEN ClusterOf(p) ELSE 0
  BY DEF StageCluster
<1> HIDE DEF p
<1>4. p \in Proc => ClusterOf(p) \in Cluster
  BY ClusterRange
<1> QED
  BY <1>1, <1>2, <1>3, <1>4

(* What the tables of a stage take is what the stage needs.                *)
LEMMA PartNeed ==
    ASSUME StageInv, NEW k \in Kinds, NEW x \in DOMAIN stages
    PROVE  /\ Part(k, x, 0) = 0
           /\ \A m \in Nat : Part(k, x, m + 1) = Part(k, x, m) + TableWeights(k, x)[m + 1]
           /\ Part(k, x, Len(stages[x].tables)) = NeedOf(k)[x]
<1>1. /\ Part(k, x, 0) = 0
      /\ \A m \in Nat : Part(k, x, m + 1) = Part(k, x, m) + TableWeights(k, x)[m + 1]
  BY TotalStep DEF Part
<1>2. CASE k = "SRAM"
  BY <1>1, <1>2 DEF Part, TableWeights, Takes, NeedOf, SramSpace
<1>3. CASE k = "TCAM"
  BY <1>1, <1>3 DEF Part, TableWeights, Takes, NeedOf, TcamSpace
<1> QED
  BY <1>2, <1>3 DEF Kinds

(* The sums of the parts are numbers.                                      *)
LEMMA PartInt ==
    ASSUME StageInv, NEW k \in Kinds, NEW x \in DOMAIN stages, NEW m \in 0 .. Len(stages[x].tables)
    PROVE  Part(k, x, m) \in Int
<1> DEFINE tables == stages[x].tables
           w == TableWeights(k, x)
<1>1. tables \in Seq(DOMAIN prog.table)
  BY DEF StageInv
<1>2. \A t \in DOMAIN prog.table : KeyBlocks(t) \in Int /\ ValueBlocks(t) \in Int
  BY DEF StageInv, KeyBlocks, ValueBlocks
<1>3. \A t \in DOMAIN prog.table : Takes(k, t) \in Int
  BY <1>2 DEF Takes, SramOf, TcamOf
<1>4. \A i \in 1 .. m : w[i] = Takes(k, tables[i]) /\ tables[i] \in DOMAIN prog.table
  <2> SUFFICES ASSUME NEW i \in 1 .. m
               PROVE  w[i] = Takes(k, tables[i]) /\ tables[i] \in DOMAIN prog.table
    OBVIOUS
  <2>1. i \in DOMAIN tables
    BY <1>1
  <2> QED
    BY <1>1, <2>1 DEF TableWeights
<1>5. m \in Nat
  BY <1>1
<1> HIDE DEF w, tables
<1>6. \A i \in 1 .. m : w[i] \in Int
  BY <1>3, <1>4
<1> QED
  BY <1>5, <1>6, TotalInt DEF Part, w

(* No table is numbered before the first.                                  *)
LEMMA PlacedConfig ==
    ASSUME CompilerInv, FreshBlocks, Placed
    PROVE  ConfigInv'
<1>1. /\ phase = "place" /\ cursor' = 0 /\ item' = 1
      /\ UNCHANGED <<prog, size, stages, place, number, config>>
  BY DEF Placed, stageVars, memVars
<1>2. /\ config = [t \in DOMAIN prog.table |-> NoBlocks]
      /\ number = [c \in Cluster |-> [sram |-> 0, tcam |-> 0]]
  BY <1>1 DEF FreshBlocks
<1>3. DOMAIN stages \subseteq Nat /\ (DOMAIN stages # {} => 0 \in DOMAIN stages)
  BY StageNumbers DEF CompilerInv
<1>4. ASSUME NEW x \in DOMAIN stages, NEW i \in DOMAIN stages[x].tables PROVE ~Numbered(x, i)'
  <2>1. stages[x].tables \in Seq(DOMAIN prog.table)
    BY DEF CompilerInv, StageInv
  <2>2. i \in Nat \ {0} /\ x \in Nat
    BY <1>3, <2>1
  <2> QED
    BY <1>1, <2>2 DEF Numbered
<1>5. NumberedBelow' /\ NumberedApart'
  BY <1>1, <1>4 DEF NumberedBelow, NumberedApart
<1>6. OthersEmpty'
  BY <1>1, <1>2 DEF OthersEmpty
<1>7. NumbersKept'
  <2> SUFFICES ASSUME NEW k \in Kinds, NEW c \in Cluster
               PROVE  Taken(k, c)' = Used(k, c, 0 .. cursor - 1)'
                        + (IF cursor' \in DOMAIN stages' /\ StageCluster(cursor)' = c
                           THEN Part(k, cursor, item - 1)' ELSE 0)
    BY DEF NumbersKept
  <2>1. Taken(k, c)' = 0
    BY <1>1, <1>2 DEF Taken
  <2>2. Used(k, c, 0 .. cursor - 1)' = 0
    <3> DEFINE S == 0 .. cursor' - 1
               need == NeedOf(k)'
               pl == place'
    <3>1. S = {}
      BY <1>1
    <3>2. Used(k, c, 0 .. cursor - 1)' = Total(Weights(pl, need, c, S), ClusterProcs)
      BY DEF Used
    <3> HIDE DEF S, need, pl
    <3> QED
      BY <3>1, <3>2, UsedNone
  <2>3. cursor' \in DOMAIN stages' => Part(k, cursor, item - 1)' = 0
    <3> DEFINE w == TableWeights(k, cursor)'
    <3>1. Part(k, cursor, item - 1)' = Total(w, 0)
      BY <1>1 DEF Part
    <3> HIDE DEF w
    <3> QED
      BY <3>1, TotalStep
  <2> QED
    BY <2>1, <2>2, <2>3
<1>8. cursor' \in DOMAIN stages' => item' \in 1 .. Len(stages'[cursor'].tables) + 1
  <2> SUFFICES ASSUME 0 \in DOMAIN stages PROVE 1 \in 1 .. Len(stages[0].tables) + 1
    BY <1>1
  <2>1. stages[0].tables \in Seq(DOMAIN prog.table)
    BY DEF CompilerInv, StageInv
  <2> QED
    BY <2>1
<1>9. \A x \in DOMAIN stages' : x >= cursor' => cursor' \in DOMAIN stages'
  BY <1>1, <1>3
<1> QED
  BY <1>5, <1>6, <1>7, <1>8, <1>9 DEF ConfigInv

(* When all tables of a stage are numbered, its cluster has given away     *)
(* what the stage needs.                                                   *)
LEMMA NextConfigConfig ==
    ASSUME CompilerInv, ConfigInv, NextConfig
    PROVE  ConfigInv'
<1>1. /\ phase = "config" /\ cursor \in DOMAIN stages /\ item \notin DOMAIN stages[cursor].tables
      /\ cursor' = cursor + 1 /\ item' = 1
      /\ UNCHANGED <<prog, size, stages, place, number, config, err>>
  BY DEF NextConfig, stageVars, memVars, flagVars
<1>2. Regular' = Regular
  <2>1. Keyless' = Keyless /\ OwnTables' = OwnTables
    BY <1>1 DEF Keyless, OwnTables, StageTables
  <2> QED
    BY <1>1, <2>1 DEF Regular
<1> SUFFICES ASSUME Regular
             PROVE  (/\ cursor \in DOMAIN stages => item \in 1 .. Len(stages[cursor].tables) + 1
                     /\ \A x \in DOMAIN stages : x >= cursor => cursor \in DOMAIN stages
                     /\ NumbersKept /\ NumberedBelow /\ NumberedApart /\ OthersEmpty)'
  BY <1>2 DEF ConfigInv
<1>3. /\ item \in 1 .. Len(stages[cursor].tables) + 1
      /\ NumbersKept /\ NumberedBelow /\ NumberedApart /\ OthersEmpty
  BY <1>1 DEF ConfigInv
<1>4. \A x \in DOMAIN stages :
        /\ stages[x].tables \in Seq(DOMAIN prog.table)
        /\ DOMAIN stages[x].tables = 1 .. Len(stages[x].tables) /\ Len(stages[x].tables) \in Nat
  <2> SUFFICES ASSUME NEW x \in DOMAIN stages
               PROVE  /\ stages[x].tables \in Seq(DOMAIN prog.table)
                      /\ DOMAIN stages[x].tables = 1 .. Len(stages[x].tables)
                      /\ Len(stages[x].tables) \in Nat
    OBVIOUS
  <2>1. stages[x].tables \in Seq(DOMAIN prog.table)
    BY DEF CompilerInv, StageInv
  <2> QED
    BY <2>1
<1>5. item = Len(stages[cursor].tables) + 1
  BY <1>1, <1>3, <1>4
<1>6. PICK n \in Nat : DOMAIN stages = 0 .. n - 1
  BY DEF CompilerInv, StageInv
<1>7. ASSUME NEW x \in DOMAIN stages, NEW i \in DOMAIN stages[x].tables
      PROVE  Numbered(x, i)' <=> Numbered(x, i)
  <2>1. i \in 1 .. Len(stages[x].tables) /\ Len(stages[x].tables) \in Nat
    BY <1>4
  <2>2. x \in Nat /\ cursor \in Nat
    BY <1>1, <1>6
  <2> QED
    BY <1>1, <1>5, <2>1, <2>2 DEF Numbered
<1>8. /\ \A k, t : BlocksOf(k, t)' = BlocksOf(k, t)
      /\ \A k, c : Taken(k, c)' = Taken(k, c)
      /\ \A x : StageCluster(x)' = StageCluster(x)
  BY <1>1 DEF BlocksOf, Taken, StageCluster
<1>9. NumberedBelow' /\ NumberedApart' /\ OthersEmpty'
  <2>1. NumberedBelow'
    BY <1>1, <1>3, <1>7, <1>8 DEF NumberedBelow
  <2>2. NumberedApart'
    <3> SUFFICES ASSUME NEW x \in DOMAIN stages, NEW y \in DOMAIN stages,
                        NEW i \in DOMAIN stages[x].tables, NEW j \in DOMAIN stages[y].tables,
                        Numbered(x, i)', Numbered(y, j)', StageCluster(x)' = StageCluster(y)',
                        stages[x].tables[i] # stages[y].tables[j],
                        NEW k \in Kinds
                 PROVE  BlocksOf(k, stages[x].tables[i]) \cap BlocksOf(k, stages[y].tables[j]) = {}
      BY <1>1, <1>8 DEF NumberedApart
    <3>1. Numbered(x, i) /\ Numbered(y, j) /\ StageCluster(x) = StageCluster(y)
      BY <1>7, <1>8
    <3> QED
      BY <1>3, <3>1 DEF NumberedApart
  <2>3. OthersEmpty'
    BY <1>1, <1>3, <1>7 DEF OthersEmpty
  <2> QED
    BY <2>1, <2>2, <2>3
<1>10. NumbersKept'
  <2> SUFFICES ASSUME NEW k \in Kinds, NEW c \in Cluster
               PROVE  Taken(k, c)' = Used(k, c, 0 .. cursor - 1)'
                        + (IF cursor' \in DOMAIN stages' /\ StageCluster(cursor)' = c
                           THEN Part(k, cursor, item - 1)' ELSE 0)
    BY DEF NumbersKept
  <2> DEFINE S == 0 .. cursor - 1
             T == 0 .. cursor' - 1
             D == DOMAIN stages
             need == NeedOf(k)
             x == cursor
  <2>1. /\ x \in Nat /\ x \in D /\ S \in SUBSET D /\ T \in SUBSET D
        /\ x \notin S /\ T = S \cup {x}
    BY <1>1, <1>6
  <2>2. need \in [D -> Int] /\ NeedOf(k)' = need
    BY <1>1, NeedInt, NeedFrame DEF CompilerInv
  <2>3. PICK p \in Proc : /\ place[p] = x /\ ClusterOf(p) = StageCluster(x)
                          /\ \A i \in Proc : place[i] = x => i = p
    <3>1. ~incremental /\ ~err
      BY <1>1 DEF CompilerInv, FullInv, Regular
    <3> QED
      BY <1>1, <3>1, StagePlace
  <2>4. Gains(place, place, S, T, p)
    <3> HIDE DEF S, T, x
    <3> QED
      BY <2>1, <2>3 DEF Gains
  <2>5. Used(k, c, 0 .. cursor - 1)' = Total(Weights(place, need, c, T), ClusterProcs)
    BY <1>1, <2>2 DEF Used
  <2>6. Used(k, c, 0 .. cursor - 1) = Total(Weights(place, need, c, S), ClusterProcs)
    BY DEF Used
  <2>7. Total(Weights(place, need, c, T), ClusterProcs)
          = Total(Weights(place, need, c, S), ClusterProcs) + Gain(need, place, p, c)
    <3>1. S \in SUBSET D /\ T \in SUBSET D /\ need \in [D -> Int]
      BY <2>1, <2>2
    <3> HIDE DEF S, T, D, need, x
    <3> QED
      BY <2>4, <3>1, UsedMore
  <2>8. Total(Weights(place, need, c, S), ClusterProcs) \in Int
    <3> HIDE DEF S, T, D, need, x
    <3> QED
      BY <2>1, <2>2, UsedInt
  <2>9. Gain(need, place, p, c) = IF StageCluster(x) = c THEN need[x] ELSE 0
    BY <2>3 DEF Gain
  <2>10. Part(k, cursor, item - 1) = need[x]
    <3>1. item - 1 = Len(stages[cursor].tables)
      BY <1>1, <1>4, <1>5
    <3> QED
      BY <1>1, <3>1, PartNeed DEF CompilerInv
  <2>11. Taken(k, c) = Used(k, c, 0 .. cursor - 1)
                         + (IF StageCluster(x) = c THEN need[x] ELSE 0)
    BY <1>1, <1>3, <2>10 DEF NumbersKept
  <2>12. cursor' \in DOMAIN stages' => Part(k, cursor, item - 1)' = 0
    <3> DEFINE w == TableWeights(k, cursor)'
    <3>1. Part(k, cursor, item - 1)' = Total(w, 0)
      BY <1>1 DEF Part
    <3> HIDE DEF w
    <3> QED
      BY <3>1, TotalStep
  <2>13. Used(k, c, 0 .. cursor - 1)' = Taken(k, c) /\ Taken(k, c) \in Int
    <3>1. need[x] \in Int
      BY <2>1, <2>2
    <3> HIDE DEF S, T, D, need, x
    <3> QED
      BY <2>5, <2>6, <2>7, <2>8, <2>9, <2>11, <3>1
  <2> QED
    BY <1>8, <2>12, <2>13
<1>11. cursor' \in DOMAIN stages' => item' \in 1 .. Len(stages'[cursor'].tables) + 1
  BY <1>1, <1>4
<1>12. \A x \in DOMAIN stages' : x >= cursor' => cursor' \in DOMAIN stages'
  BY <1>1, <1>6
<1> QED
  BY <1>9, <1>10, <1>11, <1>12

LEMMA RunBlocks ==
    ASSUME NEW f \in Nat, NEW n \in Nat
    PROVE  Elements(<<>> \o Run(f, n)) = f .. f + n - 1
<1>1. Run(f, n) \in Seq(Nat) /\ Len(Run(f, n)) = n /\ DOMAIN Run(f, n) = 1 .. n
  BY DEF Run
<1>2. <<>> \o Run(f, n) = Run(f, n)
  BY <1>1
<1>3. \A i \in 1 .. n : Run(f, n)[i] = f + i - 1
  BY DEF Run
<1>4. ASSUME NEW b \in f .. f + n - 1 PROVE b \in Elements(Run(f, n))
  <2>1. b - f + 1 \in 1 .. n /\ b = f + (b - f + 1) - 1
    OBVIOUS
  <2>2. Run(f, n)[b - f + 1] = b
    BY <1>3, <2>1
  <2> QED
    BY <1>1, <2>1, <2>2 DEF Elements
<1>5. ASSUME NEW b \in Elements(Run(f, n)) PROVE b \in f .. f + n - 1
  BY <1>1, <1>3 DEF Elements
<1> QED
  BY <1>2, <1>4, <1>5

(* With sizes that are known a table takes the next numbers of its         *)
(* cluster, and as many as it needs.                                       *)
LEMMA SetConfigTakes ==
    ASSUME CompilerInv, SizeNat, ~Keyless, SetConfig,
           NEW t, t = stages[cursor].tables[item], config[t] = NoBlocks,
           NEW c, c = StageCluster(cursor)
    PROVE  /\ t \in DOMAIN prog.table /\ c \in Cluster
           /\ \A u \in DOMAIN prog.table \ {t} : config'[u] = config[u]
           /\ \A k \in Kinds :
                /\ Takes(k, t) \in Nat /\ Taken(k, c) \in Nat
                /\ BlocksOf(k, t)' = Taken(k, c) .. Taken(k, c) + Takes(k, t) - 1
                /\ Taken(k, c)' = Taken(k, c) + Takes(k, t)
                /\ \A d \in Cluster \ {c} : Taken(k, d)' = Taken(k, d)
<1> DEFINE x == number[c].tcam
           y == number[c].sram
           kb == KeyBlocks(t)
           vb == ValueBlocks(t)
           keys == NonNeg(kb)
           vals == NonNeg(vb)
           y1 == IF InTcam(t) THEN y ELSE y + keys
           r == [tcam |-> IF InTcam(t) THEN x + keys ELSE x, sram |-> y1 + vals]
<1>1. /\ cursor \in DOMAIN stages /\ item \in DOMAIN stages[cursor].tables
      /\ config' = [config EXCEPT
                           ![t].key = @ \o Run(IF InTcam(t) THEN x ELSE y, keys),
                           ![t].value = @ \o Run(y1, vals)]
      /\ number' = [number EXCEPT ![c] = r]
      /\ prog' = prog
  BY DEF SetConfig, stageVars
<1>2. t \in DOMAIN prog.table
  <2>1. stages[cursor].tables \in Seq(DOMAIN prog.table)
    BY <1>1 DEF CompilerInv, StageInv
  <2> QED
    BY <1>1, <2>1
<1>3. c \in Cluster
  BY StageClusterRange
<1>4. kb \in Nat /\ vb \in Nat
  <2>1. size[t].kw \in Nat /\ size[t].vw \in Nat /\ size[t].depth \in Nat
    BY <1>2 DEF SizeNat, CompilerInv, StageInv
  <2> QED
    BY <2>1 DEF KeyBlocks, ValueBlocks
<1>5. keys = kb /\ vals = vb
  BY <1>4 DEF NonNeg
<1>6. x \in Nat /\ y \in Nat /\ DOMAIN number = Cluster
  BY <1>3 DEF CompilerInv, TypeOK
<1>7. prog.table[t].mem \in {"SRAM", "TCAM"}
  BY <1>2 DEF CompilerInv, StageInv, WellFormed
<1>8. DOMAIN config = DOMAIN prog.table
  BY DEF CompilerInv, TypeOK
<1> DEFINE f == IF InTcam(t) THEN x ELSE y
<1> HIDE DEF kb, vb, keys, vals
<1>9. /\ config'[t].key = <<>> \o Run(f, keys) /\ config'[t].value = <<>> \o Run(y1, vals)
      /\ \A u \in DOMAIN prog.table \ {t} : config'[u] = config[u]
  <2> DEFINE a == Run(f, keys)
             b == Run(y1, vals)
  <2>1. config' = [config EXCEPT ![t].key = @ \o a, ![t].value = @ \o b]
    BY <1>1
  <2> HIDE DEF a, b
  <2>2. NoBlocks.key = <<>> /\ NoBlocks.value = <<>>
    BY DEF NoBlocks
  <2>3. DOMAIN NoBlocks = {"key", "value"}
    BY DEF NoBlocks
  <2> QED
    BY <1>2, <1>8, <2>1, <2>2, <2>3 DEF a, b
<1>10. number'[c] = r /\ \A d \in Cluster \ {c} : number'[d] = number[d]
  BY <1>1, <1>3, <1>6
<1>11. r.tcam = (IF InTcam(t) THEN x + keys ELSE x) /\ r.sram = y1 + vals
  OBVIOUS
<1> HIDE DEF r
<1>12. f \in Nat /\ y1 \in Nat /\ keys \in Nat /\ vals \in Nat
  BY <1>4, <1>5, <1>6
<1>13. Elements(config'[t].key) = f .. f + keys - 1 /\ Elements(config'[t].value) = y1 .. y1 + vals - 1
  <2> HIDE DEF f, y1
  <2> QED
    BY <1>9, <1>12, RunBlocks
<1>14. \A k \in Kinds, d \in Cluster \ {c} : Taken(k, d)' = Taken(k, d)
  BY <1>10 DEF Taken
<1>15. /\ Takes("SRAM", t) = vals + (IF InTcam(t) THEN 0 ELSE keys)
       /\ Takes("TCAM", t) = IF InTcam(t) THEN keys ELSE 0
  BY <1>5 DEF Takes, SramOf, TcamOf, kb, vb
<1>16. /\ Taken("SRAM", c) = y /\ Taken("TCAM", c) = x
       /\ Taken("SRAM", c)' = y1 + vals
       /\ Taken("TCAM", c)' = IF InTcam(t) THEN x + keys ELSE x
  BY <1>10, <1>11 DEF Taken
<1>17. /\ BlocksOf("SRAM", t)' = (IF InTcam(t) THEN {} ELSE f .. f + keys - 1) \cup (y1 .. y1 + vals - 1)
       /\ BlocksOf("TCAM", t)' = IF InTcam(t) THEN f .. f + keys - 1 ELSE {}
  <2>1. InTcam(t) <=> prog.table[t].mem = "TCAM"
    BY DEF InTcam
  <2> HIDE DEF f, y1
  <2> QED
    BY <1>1, <1>7, <1>13, <2>1 DEF BlocksOf
<1> HIDE DEF x, y
<1>18. ASSUME NEW k \in Kinds
       PROVE  /\ Takes(k, t) \in Nat /\ Taken(k, c) \in Nat
              /\ BlocksOf(k, t)' = Taken(k, c) .. Taken(k, c) + Takes(k, t) - 1
              /\ Taken(k, c)' = Taken(k, c) + Takes(k, t)
  <2>1. CASE k = "SRAM" /\ InTcam(t)
    <3>1. BlocksOf(k, t)' = y .. y + vals - 1
      BY <1>17, <2>1
    <3>2. Takes(k, t) = vals /\ Taken(k, c) = y /\ Taken(k, c)' = y + vals
      BY <1>12, <1>15, <1>16, <2>1
    <3> QED
      BY <1>6, <1>12, <3>1, <3>2
  <2>2. CASE k = "SRAM" /\ ~InTcam(t)
    <3>1. (y .. y + keys - 1) \cup (y + keys .. (y + keys) + vals - 1)
            = y .. y + (vals + keys) - 1
      BY <1>6, <1>12
    <3>2. BlocksOf(k, t)' = (y .. y + keys - 1) \cup (y + keys .. (y + keys) + vals - 1)
      BY <1>17, <2>2
    <3>3. Takes(k, t) = vals + keys /\ Taken(k, c) = y /\ Taken(k, c)' = (y + keys) + vals
      BY <1>15, <1>16, <2>2
    <3> QED
      BY <1>6, <1>12, <3>1, <3>2, <3>3
  <2>3. CASE k = "TCAM" /\ InTcam(t)
    BY <1>6, <1>12, <1>15, <1>16, <1>17, <2>3
  <2>4. CASE k = "TCAM" /\ ~InTcam(t)
    <3>1. BlocksOf(k, t)' = {} /\ Takes(k, t) = 0 /\ Taken(k, c) = x /\ Taken(k, c)' = x
      BY <1>15, <1>16, <1>17, <2>4
    <3>2. x .. x + 0 - 1 = {} /\ x + 0 = x
      BY <1>6
    <3> QED
      BY <1>6, <3>1, <3>2
  <2> QED
    BY <2>1, <2>2, <2>3, <2>4 DEF Kinds
<1> QED
  BY <1>2, <1>3, <1>9, <1>14, <1>18

(* A table that no other stage lists has one place.                        *)
LEMMA TablePlace ==
    ASSUME TableInv, OwnTables, NEW x \in DOMAIN stages, NEW y \in DOMAIN stages,
           NEW i \in DOMAIN stages[x].tables, NEW j \in DOMAIN stages[y].tables,
           stages[x].tables[i] = stages[y].tables[j]
    PROVE  x = y /\ i = j
<1>1. /\ table_at[stages[x].tables[i]] = [stage |-> x, matcher |-> i]
      /\ table_at[stages[y].tables[j]] = [stage |-> y, matcher |-> j]
  BY DEF TableInv
<1> DEFINE a == [stage |-> x, matcher |-> i]
           b == [stage |-> y, matcher |-> j]
<1>2. a = b
  BY <1>1
<1>3. a.stage = x /\ a.matcher = i /\ b.stage = y /\ b.matcher = j
  OBVIOUS
<1> HIDE DEF a, b
<1> QED
  BY <1>2, <1>3

(* The next table gets blocks that no numbered one has.                    *)
LEMMA SetConfigConfig ==
    ASSUME CompilerInv, TableInv, SizeNat, ConfigInv, SetConfig
    PROVE  ConfigInv'
<1>1. /\ phase = "config" /\ cursor \in DOMAIN stages /\ item \in DOMAIN stages[cursor].tables
      /\ item' = item + 1
      /\ UNCHANGED <<cursor, prog, size, stages, place, err>>
  BY DEF SetConfig, stageVars, flagVars
<1>2. Regular' = Regular
  <2>1. Keyless' = Keyless /\ OwnTables' = OwnTables
    BY <1>1 DEF Keyless, OwnTables, StageTables
  <2> QED
    BY <1>1, <2>1 DEF Regular
<1> SUFFICES ASSUME Regular
             PROVE  (/\ cursor \in DOMAIN stages => item \in 1 .. Len(stages[cursor].tables) + 1
                     /\ \A x \in DOMAIN stages : x >= cursor => cursor \in DOMAIN stages
                     /\ NumbersKept /\ NumberedBelow /\ NumberedApart /\ OthersEmpty)'
  BY <1>2 DEF ConfigInv
<1>3. NumbersKept /\ NumberedBelow /\ NumberedApart /\ OthersEmpty
  BY <1>1 DEF ConfigInv
<1>4. OwnTables /\ ~Keyless
  BY DEF Regular
<1>5. PICK t : t = stages[cursor].tables[item]
  OBVIOUS
<1>6. PICK c : c = StageCluster(cursor)
  OBVIOUS
<1>7. /\ stages[cursor].tables \in Seq(DOMAIN prog.table)
      /\ DOMAIN stages[cursor].tables = 1 .. Len(stages[cursor].tables)
      /\ Len(stages[cursor].tables) \in Nat
  <2>1. stages[cursor].tables \in Seq(DOMAIN prog.table)
    BY <1>1 DEF CompilerInv, StageInv
  <2> QED
    BY <2>1
<1>8. DOMAIN stages \subseteq Nat
  BY StageNumbers DEF CompilerInv
<1>9. ASSUME NEW x \in DOMAIN stages, NEW i \in DOMAIN stages[x].tables
      PROVE  /\ stages[x].tables[i] \in DOMAIN prog.table
             /\ Numbered(x, i) => stages[x].tables[i] # t
             /\ Numbered(x, i)' => Numbered(x, i) \/ (x = cursor /\ i = item)
             /\ Numbered(x, i) => Numbered(x, i)'
  <2>1. stages[x].tables \in Seq(DOMAIN prog.table)
    BY DEF CompilerInv, StageInv
  <2>2. stages[x].tables[i] \in DOMAIN prog.table /\ i \in Nat
    BY <2>1
  <2>3. x \in Nat /\ cursor \in Nat /\ item \in Nat
    BY <1>1, <1>7, <1>8
  <2>4. stages[x].tables[i] = t => x = cursor /\ i = item
    BY <1>1, <1>4, <1>5, TablePlace
  <2>5. ~Numbered(cursor, item)
    BY <2>3 DEF Numbered
  <2> QED
    BY <1>1, <2>2, <2>3, <2>4, <2>5 DEF Numbered
<1>10. t \in DOMAIN prog.table
  BY <1>1, <1>5, <1>7
<1>11. config[t] = NoBlocks
  BY <1>3, <1>9, <1>10 DEF OthersEmpty
<1>12. /\ c \in Cluster
       /\ \A u \in DOMAIN prog.table \ {t} : config'[u] = config[u]
       /\ \A k \in Kinds :
            /\ Takes(k, t) \in Nat /\ Taken(k, c) \in Nat
            /\ BlocksOf(k, t)' = Taken(k, c) .. Taken(k, c) + Takes(k, t) - 1
            /\ Taken(k, c)' = Taken(k, c) + Takes(k, t)
            /\ \A d \in Cluster \ {c} : Taken(k, d)' = Taken(k, d)
  BY <1>4, <1>5, <1>6, <1>11, SetConfigTakes
<1>13. /\ \A x : StageCluster(x)' = StageCluster(x)
       /\ \A u \in DOMAIN prog.table \ {t}, k \in Kinds : BlocksOf(k, u)' = BlocksOf(k, u)
  BY <1>1, <1>12 DEF StageCluster, BlocksOf
<1>14. \A k \in Kinds, d \in Cluster : Taken(k, d) \in Nat
  BY DEF CompilerInv, TypeOK, Taken
<1>15. ASSUME NEW x \in DOMAIN stages PROVE StageCluster(x) \in Cluster
  BY StageClusterRange
<1>16. NumbersKept'
  <2> SUFFICES ASSUME NEW k \in Kinds, NEW d \in Cluster
               PROVE  Taken(k, d)' = Used(k, d, 0 .. cursor - 1)'
                        + (IF cursor' \in DOMAIN stages' /\ StageCluster(cursor)' = d
                           THEN Part(k, cursor, item - 1)' ELSE 0)
    BY DEF NumbersKept
  <2>1. PICK z : z = cursor
    OBVIOUS
  <2>2. PICK m : m = item
    OBVIOUS
  <2>3. /\ z \in DOMAIN stages /\ m \in 1 .. Len(stages[z].tables) /\ m - 1 \in Nat
        /\ m - 1 \in 0 .. Len(stages[z].tables)
    BY <1>1, <1>7, <2>1, <2>2
  <2>4. Used(k, d, 0 .. cursor - 1)' = Used(k, d, 0 .. cursor - 1)
    <3>1. Used(k, d, 0 .. z - 1)' = Used(k, d, 0 .. z - 1)
      BY <1>1, UsedFrame
    <3> QED
      BY <1>1, <2>1, <3>1
  <2>5. Part(k, cursor, item - 1)' = Part(k, z, m)
    <3>1. \A u : Takes(k, u)' = Takes(k, u)
      BY <1>1 DEF Takes, SramOf, TcamOf, ValueBlocks, KeyBlocks, InTcam
    <3>2. TableWeights(k, z)' = TableWeights(k, z)
      BY <1>1, <3>1 DEF TableWeights
    <3>3. cursor' = z /\ item' - 1 = m
      BY <1>1, <2>1, <2>2, <2>3
    <3> QED
      BY <2>1, <3>2, <3>3 DEF Part
  <2>6. Part(k, z, m) = Part(k, z, m - 1) + Takes(k, t)
    <3>1. Part(k, z, (m - 1) + 1) = Part(k, z, m - 1) + TableWeights(k, z)[(m - 1) + 1]
      BY <2>3, PartNeed DEF CompilerInv
    <3>2. (m - 1) + 1 = m
      BY <2>3
    <3>3. TableWeights(k, z)[m] = Takes(k, t)
      BY <1>1, <1>5, <2>1, <2>2 DEF TableWeights
    <3> QED
      BY <3>1, <3>2, <3>3
  <2>7. Part(k, z, m - 1) \in Int
    BY <2>3, PartInt DEF CompilerInv
  <2>8. Taken(k, d) = Used(k, d, 0 .. cursor - 1) + (IF c = d THEN Part(k, z, m - 1) ELSE 0)
    BY <1>1, <1>3, <1>6, <2>1, <2>2 DEF NumbersKept
  <2>9. Used(k, d, 0 .. cursor - 1) \in Int
    <3> DEFINE S == 0 .. cursor - 1
               D == DOMAIN stages
               need == NeedOf(k)
    <3>1. need \in [D -> Int]
      BY NeedInt DEF CompilerInv
    <3>2. S \in SUBSET D
      <4>1. PICK n \in Nat : DOMAIN stages = 0 .. n - 1
        BY DEF CompilerInv, StageInv
      <4> QED
        BY <1>1, <4>1
    <3> HIDE DEF S, D, need
    <3>3. Total(Weights(place, need, d, S), ClusterProcs) \in Int
      BY <3>1, <3>2, UsedInt
    <3> QED
      BY <3>3 DEF Used, S, need
  <2>10. StageCluster(cursor)' = c /\ cursor' \in DOMAIN stages'
    BY <1>1, <1>6, <1>13, <2>1
  <2>11. Taken(k, d)' = Taken(k, d) + (IF c = d THEN Takes(k, t) ELSE 0) /\ Takes(k, t) \in Nat
    BY <1>12, <1>14
  <2> QED
    BY <2>4, <2>5, <2>6, <2>7, <2>8, <2>9, <2>10, <2>11
<1>17. NumberedBelow'
  <2> SUFFICES ASSUME NEW x \in DOMAIN stages, NEW i \in DOMAIN stages[x].tables,
                      Numbered(x, i)', NEW k \in Kinds,
                      NEW u, u = stages[x].tables[i], NEW e, e = StageCluster(x)
               PROVE  BlocksOf(k, u)' \subseteq 0 .. Taken(k, e)' - 1
    BY <1>1, <1>13 DEF NumberedBelow
  <2>1. CASE Numbered(x, i)
    <3>1. u # t /\ u \in DOMAIN prog.table
      BY <1>9, <2>1
    <3>2. BlocksOf(k, u) \subseteq 0 .. Taken(k, e) - 1
      BY <1>3, <2>1 DEF NumberedBelow
    <3>3. Taken(k, e) \in Nat /\ Taken(k, e)' \in Nat /\ Taken(k, e) <= Taken(k, e)'
      BY <1>12, <1>14, <1>15
    <3>4. BlocksOf(k, u)' = BlocksOf(k, u)
      BY <1>13, <3>1
    <3> QED
      BY <3>2, <3>3, <3>4
  <2>2. CASE x = cursor /\ i = item
    <3>1. u = t /\ e = c
      BY <1>5, <1>6, <2>2
    <3> QED
      BY <1>12, <3>1
  <2> QED
    BY <1>9, <2>1, <2>2
<1>18. NumberedApart'
  <2>1. ASSUME NEW x \in DOMAIN stages, NEW i \in DOMAIN stages[x].tables, Numbered(x, i),
               StageCluster(x) = c, NEW k \in Kinds
        PROVE  BlocksOf(k, stages[x].tables[i])' \cap BlocksOf(k, t)' = {}
    <3>1. PICK u : u = stages[x].tables[i]
      OBVIOUS
    <3>2. u # t /\ u \in DOMAIN prog.table
      BY <1>9, <2>1, <3>1
    <3>3. BlocksOf(k, u)' = BlocksOf(k, u)
      BY <1>13, <3>2
    <3>4. BlocksOf(k, u) \subseteq 0 .. Taken(k, c) - 1
      BY <1>3, <2>1, <3>1 DEF NumberedBelow
    <3>5. /\ BlocksOf(k, t)' = Taken(k, c) .. Taken(k, c) + Takes(k, t) - 1
          /\ Takes(k, t) \in Nat /\ Taken(k, c) \in Nat
      BY <1>12
    <3>6. BlocksOf(k, u)' \cap BlocksOf(k, t)' = {}
      BY <3>3, <3>4, <3>5
    <3> QED
      BY <1>1, <3>1, <3>6
  <2> SUFFICES ASSUME NEW x \in DOMAIN stages, NEW y \in DOMAIN stages,
                      NEW i \in DOMAIN stages[x].tables, NEW j \in DOMAIN stages[y].tables,
                      Numbered(x, i)', Numbered(y, j)', StageCluster(x)' = StageCluster(y)',
                      stages[x].tables[i] # stages[y].tables[j],
                      NEW k \in Kinds
               PROVE  BlocksOf(k, stages[x].tables[i])' \cap BlocksOf(k, stages[y].tables[j])' = {}
    BY <1>1 DEF NumberedApart
  <2>2. StageCluster(x) = StageCluster(y)
    BY <1>13
  <2>3. PICK u : u = stages[x].tables[i]
    OBVIOUS
  <2>4. PICK v : v = stages[y].tables[j]
    OBVIOUS
  <2>5. BlocksOf(k, u)' \cap BlocksOf(k, v)' = {}
    <3>1. CASE Numbered(x, i) /\ Numbered(y, j)
      <4>1. u # t /\ v # t /\ u \in DOMAIN prog.table /\ v \in DOMAIN prog.table
        BY <1>9, <2>3, <2>4, <3>1
      <4>2. BlocksOf(k, u) \cap BlocksOf(k, v) = {}
        BY <1>3, <2>2, <2>3, <2>4, <3>1 DEF NumberedApart
      <4> QED
        BY <1>13, <4>1, <4>2
    <3>2. CASE Numbered(x, i) /\ y = cursor /\ j = item
      <4>1. v = t /\ StageCluster(x) = c
        BY <1>5, <1>6, <2>2, <2>4, <3>2
      <4>2. BlocksOf(k, stages[x].tables[i])' = BlocksOf(k, u)'
        BY <1>1, <2>3
      <4> QED
        BY <2>1, <3>2, <4>1, <4>2
    <3>3. CASE Numbered(y, j) /\ x = cursor /\ i = item
      <4>1. u = t /\ StageCluster(y) = c
        BY <1>5, <1>6, <2>2, <2>3, <3>3
      <4>2. BlocksOf(k, stages[y].tables[j])' = BlocksOf(k, v)'
        BY <1>1, <2>4
      <4> QED
        BY <2>1, <3>3, <4>1, <4>2
    <3>4. CASE x = cursor /\ i = item /\ y = cursor /\ j = item
      BY <3>4
    <3> QED
      BY <1>9, <3>1, <3>2, <3>3, <3>4
  <2> QED
    BY <1>1, <2>3, <2>4, <2>5
<1>19. OthersEmpty'
  <2> SUFFICES ASSUME NEW u \in DOMAIN prog.table, config'[u] # NoBlocks
               PROVE  \E x \in DOMAIN stages : \E i \in DOMAIN stages[x].tables :
                        Numbered(x, i)' /\ stages[x].tables[i] = u
    BY <1>1 DEF OthersEmpty
  <2>1. CASE u = t
    <3>1. PICK z : z = cursor
      OBVIOUS
    <3>2. PICK m : m = item
      OBVIOUS
    <3>3. m \in Nat
      BY <1>1, <1>7, <3>2
    <3>4. Numbered(z, m)'
      BY <1>1, <3>1, <3>2, <3>3 DEF Numbered
    <3> QED
      BY <1>1, <1>5, <2>1, <3>1, <3>2, <3>4
  <2>2. CASE u # t
    BY <1>3, <1>9, <1>12, <2>2 DEF OthersEmpty
  <2> QED
    BY <2>1, <2>2
<1>20. item' \in 1 .. Len(stages'[cursor'].tables) + 1
  BY <1>1, <1>7
<1> QED
  BY <1>1, <1>16, <1>17, <1>18, <1>19, <1>20

LEMMA ConfigStep == CompilerInv /\ TableInv /\ SizeNat /\ FreshBlocks /\ ConfigInv /\ Next => ConfigInv'
<1> SUFFICES ASSUME CompilerInv, TableInv, SizeNat, FreshBlocks, ConfigInv, Next PROVE ConfigInv'
  OBVIOUS
<1>1. CASE Placed
  BY <1>1, PlacedConfig
<1>2. CASE SetConfig
  BY <1>2, SetConfigConfig
<1>3. CASE NextConfig
  BY <1>3, NextConfigConfig
<1>4. CASE ~(Placed \/ SetConfig \/ NextConfig)
  <2>1. phase' # "config"
    BY <1>4 DEF Next, EmitTask, Load, RemoveEmpty, Renumber, RenumberDead, AllocateParsers,
           AllocateParsersDead, PlaceStage, Configured, KeepMemory, KeepFails, NewTable, KeepDone,
           BuildProcessor, BuildProcessorDead, Dead, Output
  <2> QED
    BY <2>1 DEF ConfigInv
<1> QED
  BY <1>1, <1>2, <1>3, <1>4

-----------------------------------------------------------------------------
(***************************************************************************)
(* The end of a full allocation: what was numbered is what was placed, and *)
(* that fits.                                                              *)
(***************************************************************************)
LEMMA ConfiguredApart ==
    ASSUME CompilerInv, SpaceKept, ConfigInv, Configured
    PROVE  FullApart'
<1>1. /\ phase = "config" /\ cursor \notin DOMAIN stages
      /\ UNCHANGED <<prog, size, stages, place, config, err, incremental>>
  BY DEF Configured, stageVars, memVars, flagVars
<1>2. Regular' = Regular
  <2>1. Keyless' = Keyless /\ OwnTables' = OwnTables
    BY <1>1 DEF Keyless, OwnTables, StageTables
  <2> QED
    BY <1>1, <2>1 DEF Regular
<1>3. /\ \A k, t : BlocksOf(k, t)' = BlocksOf(k, t)
      /\ \A x : StageCluster(x)' = StageCluster(x)
  BY <1>1 DEF BlocksOf, StageCluster
<1> SUFFICES ASSUME Regular
             PROVE  /\ \A x \in DOMAIN stages : \A i \in DOMAIN stages[x].tables : \A k \in Kinds :
                         BlocksOf(k, stages[x].tables[i]) \subseteq 0 .. Room(k) - 1
                    /\ \A x, y \in DOMAIN stages :
                         \A i \in DOMAIN stages[x].tables, j \in DOMAIN stages[y].tables :
                           /\ StageCluster(x) = StageCluster(y)
                           /\ stages[x].tables[i] # stages[y].tables[j]
                           => \A k \in Kinds : BlocksOf(k, stages[x].tables[i])
                                                 \cap BlocksOf(k, stages[y].tables[j]) = {}
                    /\ \A t \in DOMAIN prog.table :
                         config[t] = NoBlocks
                           \/ \E x \in DOMAIN stages : \E i \in DOMAIN stages[x].tables :
                                stages[x].tables[i] = t
  BY <1>1, <1>2, <1>3 DEF FullApart, Room
<1>4. /\ \A x \in DOMAIN stages : ~(x >= cursor)
      /\ NumbersKept /\ NumberedBelow /\ NumberedApart /\ OthersEmpty
  BY <1>1 DEF ConfigInv
<1>5. DOMAIN stages \subseteq Nat /\ cursor \in Nat
  BY StageNumbers DEF CompilerInv, TypeOK
<1>6. \A x \in DOMAIN stages : \A i : Numbered(x, i)
  BY <1>4, <1>5 DEF Numbered
<1>7. ASSUME NEW k \in Kinds, NEW c \in Cluster PROVE Taken(k, c) \in Int /\ Taken(k, c) <= Room(k)
  <2> DEFINE S == 0 .. cursor - 1
             D == DOMAIN stages
             need == NeedOf(k)
             w == Weights(place, need, c, S)
             v == Weights(place, need, c, D)
  <2>1. place \in [Proc -> D \cup {None}]
    BY <1>1 DEF CompilerInv, FullInv, PlacedUpTo
  <2>2. \A p \in Proc : place[p] \in S <=> place[p] \in D
    BY <1>4, <1>5, <2>1 DEF None
  <2>3. ASSUME NEW i \in 1 .. ClusterProcs PROVE w[i] = v[i]
    <3>1. SlotAt(c, i) \in Proc
      BY SlotInCluster
    <3> HIDE DEF S, D, need
    <3> QED
      BY <2>2, <3>1 DEF Weights
  <2>4. ClusterProcs \in Nat
    BY SizeAssumption DEF SizeAssumption
  <2>5. Used(k, c, 0 .. cursor - 1) = Total(w, ClusterProcs) /\ Used(k, c, D) = Total(v, ClusterProcs)
    BY DEF Used
  <2>6. Left(k, c) \in Nat /\ Left(k, c) + Used(k, c, D) = Room(k)
    BY <1>1 DEF SpaceKept
  <2>7. Taken(k, c) = Used(k, c, 0 .. cursor - 1) + 0
    BY <1>1, <1>4 DEF NumbersKept
  <2>8. Taken(k, c) \in Int
    BY DEF CompilerInv, TypeOK, Taken
  <2> DEFINE a == Total(w, ClusterProcs)
             b == Total(v, ClusterProcs)
  <2>9. a = b
    <3> HIDE DEF w, v
    <3> QED
      BY <2>3, <2>4, TotalSame
  <2>10. b \in Int
    <3>1. need \in [D -> Int] /\ D \in SUBSET D
      BY NeedInt DEF CompilerInv
    <3> HIDE DEF D, need
    <3> QED
      BY <3>1, UsedInt
  <2>11. Taken(k, c) = a + 0 /\ Left(k, c) + b = Room(k)
    BY <2>5, <2>6, <2>7
  <2> HIDE DEF a, b
  <2> QED
    BY <2>6, <2>8, <2>9, <2>10, <2>11
<1>8. ASSUME NEW x \in DOMAIN stages, NEW i \in DOMAIN stages[x].tables, NEW k \in Kinds
      PROVE  BlocksOf(k, stages[x].tables[i]) \subseteq 0 .. Room(k) - 1
  <2>1. StageCluster(x) \in Cluster
    BY StageClusterRange
  <2>2. BlocksOf(k, stages[x].tables[i]) \subseteq 0 .. Taken(k, StageCluster(x)) - 1
    BY <1>4, <1>6 DEF NumberedBelow
  <2>3. Taken(k, StageCluster(x)) \in Int /\ Taken(k, StageCluster(x)) <= Room(k)
    BY <1>7, <2>1
  <2>4. Room(k) \in Int
    BY SizeAssumption DEF SizeAssumption, Room
  <2> QED
    BY <2>2, <2>3, <2>4
<1> QED
  BY <1>4, <1>6, <1>8 DEF NumberedApart, OthersEmpty

(* The processors are built without changing a block.                      *)
LEMMA FullStep ==
    CompilerInv /\ SpaceKept /\ ConfigInv /\ FullApart /\ Next => FullApart'
<1> SUFFICES ASSUME CompilerInv, SpaceKept, ConfigInv, FullApart, Next PROVE FullApart'
  OBVIOUS
<1>1. CASE Configured
  BY <1>1, ConfiguredApart
<1>2. CASE BuildProcessor \/ Output
  <2>1. /\ phase = "build" /\ UNCHANGED <<prog, stages, place, config, incremental>>
        /\ err => err'
    <3>1. phase = "build" /\ UNCHANGED <<prog, stages, place, config, incremental>>
      BY <1>2 DEF BuildProcessor, Output, stageVars, memVars, flagVars
    <3>2. BuildProcessor => (err => err')
      BY Zenon DEF BuildProcessor
    <3>3. Output => (err => err')
      BY DEF Output, flagVars
    <3> QED
      BY <1>2, <3>1, <3>2, <3>3
  <2>2. Regular' => Regular
    <3>1. Keyless' = Keyless /\ OwnTables' = OwnTables
      BY <2>1 DEF Keyless, OwnTables, StageTables
    <3> QED
      BY <2>1, <3>1 DEF Regular
  <2>3. /\ \A k, t : BlocksOf(k, t)' = BlocksOf(k, t)
        /\ \A x : StageCluster(x)' = StageCluster(x)
    BY <2>1 DEF BlocksOf, StageCluster
  <2> QED
    BY <2>1, <2>2, <2>3 DEF FullApart, Room
<1>3. CASE KeepDone
  <2>1. incremental'
    BY <1>3 DEF KeepDone, CompilerInv, KeptInv, flagVars
  <2> QED
    BY <2>1 DEF FullApart
<1>4. CASE ~(Configured \/ BuildProcessor \/ Output \/ KeepDone)
  <2>1. phase' \notin {"build", "idle"}
    BY <1>4 DEF Next, EmitTask, Load, RemoveEmpty, Renumber, RenumberDead, AllocateParsers,
           AllocateParsersDead, PlaceStage, Placed, SetConfig, NextConfig, KeepMemory, KeepFails,
           NewTable, BuildProcessorDead, Dead
  <2> QED
    BY <2>1 DEF FullApart, Done
<1> QED
  BY <1>1, <1>2, <1>3, <1>4

-----------------------------------------------------------------------------
(***************************************************************************)
(* The tables that are kept.                                               *)
(***************************************************************************)
(* Tables of one stage come from one cluster; a table whose stage is gone  *)
(* only if that is cluster 0.                                              *)
LEMMA KeepAgrees ==
    ASSUME CompilerInv, prev # NoTask, CanKeep, NEW t \in Existing
    PROVE  /\ OldCluster(table_at[t].stage) = PrevCluster(t)
           /\ table_at[t].stage \notin DOMAIN stages => PrevCluster(t) = 0
<1> DEFINE x == table_at[t].stage
           S == OldClusters(x)
<1>1. PrevCluster(t) \in S /\ (x \notin DOMAIN stages => 0 \in S)
  BY DEF OldClusters, PrevCluster
<1>2. Cardinality(S) = 1
  BY DEF CanKeep
<1>3. S \subseteq Cluster
  BY OldClustersRange DEF CompilerInv
<1>4. IsFiniteSet(Cluster)
  BY FS_Interval, SizeAssumption DEF Cluster, SizeAssumption
<1>5. OldCluster(x) \in S
  BY <1>1, Zenon DEF OldCluster
<1> HIDE DEF S
<1>6. PICK c : S = {c}
  BY <1>2, <1>3, <1>4, FS_Subset, FS_Singleton
<1> QED
  BY <1>1, <1>5, <1>6

LEMMA AgreeStep == CompilerInv /\ KeptAgree /\ Next => KeptAgree'
<1> SUFFICES ASSUME CompilerInv, KeptAgree, Next PROVE KeptAgree'
  OBVIOUS
<1>1. CASE KeepMemory
  <2>1. phase = "keep" /\ CanKeep /\ UNCHANGED <<prev, stageVars>>
    BY <1>1 DEF KeepMemory
  <2>2. prev # NoTask
    BY <2>1 DEF CompilerInv, FreshInv
  <2>3. /\ UNCHANGED <<stages, table_at>> /\ Existing' = Existing
        /\ \A x : OldCluster(x)' = OldCluster(x)
    BY <2>1, OldFrame
  <2>4. \A t : PrevCluster(t)' = PrevCluster(t)
    BY <2>1 DEF PrevCluster
  <2>5. \A t \in Existing :
          /\ OldCluster(table_at[t].stage) = PrevCluster(t)
          /\ table_at[t].stage \notin DOMAIN stages => PrevCluster(t) = 0
    BY <2>1, <2>2, KeepAgrees
  <2> QED
    BY <2>3, <2>4, <2>5 DEF KeptAgree
<1>2. CASE NewTable \/ KeepDone \/ BuildProcessor
  <2>1. UNCHANGED <<prev, stageVars, incremental>>
    BY <1>2 DEF NewTable, KeepDone, BuildProcessor, flagVars
  <2>2. phase' = "new" \/ (incremental' /\ phase' = "build") =>
          phase = "new" \/ (incremental /\ phase = "build")
    BY <1>2, <2>1 DEF NewTable, KeepDone, BuildProcessor
  <2>3. /\ UNCHANGED <<stages, table_at>> /\ Existing' = Existing
        /\ \A x : OldCluster(x)' = OldCluster(x)
    BY <2>1, OldFrame
  <2>4. \A t : PrevCluster(t)' = PrevCluster(t)
    BY <2>1 DEF PrevCluster
  <2> QED
    BY <2>2, <2>3, <2>4 DEF KeptAgree
<1>3. CASE Configured
  <2>1. ~incremental' /\ phase' = "build"
    BY <1>3 DEF Configured, CompilerInv, FullInv, flagVars
  <2> QED
    BY <2>1 DEF KeptAgree
<1>4. CASE ~(KeepMemory \/ NewTable \/ KeepDone \/ BuildProcessor \/ Configured)
  <2>1. phase' \notin {"new", "build"}
    BY <1>4 DEF Next, EmitTask, Load, RemoveEmpty, Renumber, RenumberDead, AllocateParsers,
           AllocateParsersDead, PlaceStage, Placed, SetConfig, NextConfig, KeepFails,
           BuildProcessorDead, Dead, Output
  <2> QED
    BY <2>1 DEF KeptAgree
<1> QED
  BY <1>1, <1>2, <1>3, <1>4

-----------------------------------------------------------------------------
(***************************************************************************)
(* What is put out.                                                        *)
(***************************************************************************)
(* What an output that spoils nothing says of its compilation.             *)
LEMMA OutputLink ==
    ASSUME CompilerInv, Output
    PROVE  /\ OutLink' /\ Done' /\ UNCHANGED <<prog, stages, table_at, place, config, processors>>
           /\ UNCHANGED <<err, incremental>> /\ phase = "build"
           /\ spoiled' = {} =>
                /\ ~err /\ OwnTables /\ ~Keyless
                /\ incremental => /\ spoiled = {} /\ SameTables
                                  /\ ClusterOf(route'[0]) = OldCluster(0)
<1> DEFINE s == table_at
<1>1. /\ phase = "build" /\ phase' = "idle"
      /\ DOMAIN prev' = DOMAIN prog.table
      /\ \A t \in DOMAIN prog.table :
           prev'[t] = [proc |-> IF s[t].stage \in DOMAIN route' THEN route'[s[t].stage] ELSE 0,
                       mem |-> prog.table[t].mem, key |-> config[t].key, value |-> config[t].value]
      /\ spoiled' = (IF incremental THEN spoiled ELSE {}) \cup Spoils(route')
      /\ UNCHANGED <<compiles, prog, stages, table_at, place, config, processors, err, incremental>>
  BY DEF Output, stageVars, memVars, flagVars
<1>2. compiles > 0
  BY <1>1 DEF CompilerInv, OutInv
<1>3. Done'
  BY <1>1, <1>2 DEF Done
<1>4. ASSUME spoiled' = {}
      PROVE  /\ ~err /\ OwnTables /\ ~Keyless
             /\ incremental => /\ spoiled = {} /\ SameTables
                               /\ ClusterOf(route'[0]) = OldCluster(0)
  <2> DEFINE r == route'
  <2>1. Spoils(r) = {} /\ (incremental => spoiled = {})
    BY <1>1, <1>4
  <2>2. \A w \in Trouble :
          ~(\/ w = "error" /\ err
            \/ w = "shared" /\ ~OwnTables
            \/ w = "keyless" /\ Keyless
            \/ w = "changed" /\ incremental /\ ~SameTables
            \/ w = "copies" /\ incremental /\ ClusterOf(r[0]) # OldCluster(0))
    BY <2>1 DEF Spoils
  <2>3. /\ "error" \in Trouble /\ "shared" \in Trouble /\ "keyless" \in Trouble
        /\ "changed" \in Trouble /\ "copies" \in Trouble
    BY DEF Trouble
  <2> HIDE DEF r
  <2> QED
    BY <2>1, <2>2, <2>3, Zenon DEF r
<1>5. OwnTables' = OwnTables
  BY <1>1 DEF OwnTables, StageTables
<1>6. ASSUME NEW t \in DOMAIN prog.table
      PROVE  /\ prev'[t].proc = Physical(table_at[t].stage)'
             /\ prev'[t].mem = prog.table[t].mem
             /\ prev'[t].key = config[t].key /\ prev'[t].value = config[t].value
  <2> DEFINE p == IF s[t].stage \in DOMAIN route' THEN route'[s[t].stage] ELSE 0
  <2>1. prev'[t] = [proc |-> p, mem |-> prog.table[t].mem,
                    key |-> config[t].key, value |-> config[t].value]
    BY <1>1
  <2>2. p = Physical(table_at[t].stage)'
    BY <1>1 DEF Physical
  <2> HIDE DEF p
  <2> QED
    BY <2>1, <2>2
<1>7. OutLink'
  BY <1>1, <1>4, <1>5, <1>6 DEF OutLink
<1> QED
  BY <1>1, <1>3, <1>4, <1>7

(* The processor a stage is given in the end.                              *)
LEMMA OutputRoute ==
    ASSUME CompilerInv, CompilerInv', Output, ~err, NEW x \in DOMAIN stages
    PROVE  x \in DOMAIN route' /\ route'[x] \in Proc /\ place[route'[x]] = x
<1>1. /\ Done' /\ UNCHANGED <<prog, stages, table_at, place, config, processors>>
      /\ UNCHANGED <<err, incremental>> /\ phase = "build"
  BY OutputLink
<1>2. Sorted
  BY <1>1 DEF Sorted
<1>3. x \in Nat /\ x # None
  BY <1>2, TopoFacts
<1>4. PICK i \in Proc : place[i] = x
  <2>1. incremental => \E i \in Proc : place[i] = x
    BY <1>1 DEF CompilerInv, KeptInv
  <2>2. ~incremental => \E i \in Proc : place[i] = x
    BY <1>1, StagePlace
  <2> QED
    BY <2>1, <2>2
<1>5. Built(i)'
  BY <1>1, <1>3, <1>4 DEF CompilerInv, BuildInv, Done
<1>6. x \in Ids'
  BY <1>1, <1>4, <1>5 DEF Ids, Built
<1> DEFINE q == route'[x]
<1>7. x \in DOMAIN route' /\ q \in DOMAIN processors' /\ processors'[q].id = x
  BY <1>1, <1>3, <1>6 DEF CompilerInv, OutInv
<1>8. q \in Proc
  BY <1>1, <1>7 DEF CompilerInv, BuildInv
<1>9. ~processors[q].only
  <2>1. processors[q].only => x < x
    BY <1>1, <1>7 DEF CompilerInv, BuildInv
  <2> QED
    BY <1>3, <2>1
<1> QED
  BY <1>1, <1>7, <1>8, <1>9 DEF CompilerInv, BuildInv

LEMMA ClusterNonNeg ==
    ASSUME NEW p \in Proc
    PROVE  NonNeg(ClusterOf(p)) = ClusterOf(p)
<1>1. ClusterOf(p) \in Cluster
  BY ClusterRange
<1> QED
  BY <1>1, SizeAssumption DEF NonNeg, Cluster, SizeAssumption

(* Processor 0 is in cluster 0, and so is nothing.                         *)
LEMMA ClusterZero == 0 \in Proc /\ NonNeg(ClusterOf(0)) = 0 /\ NonNeg(ClusterOf(None)) = 0
<1>1. NCluster \in Nat \ {0} /\ ClusterProcs \in Nat \ {0}
  BY SizeAssumption DEF SizeAssumption
<1>2. NCluster * ClusterProcs \in Nat \ {0}
  BY <1>1, Z3
<1>3. 0 \div ClusterProcs = 0 /\ (-1) \div ClusterProcs < 0
  BY <1>1, Z3
<1> QED
  BY <1>2, <1>3 DEF Proc, ClusterOf, NonNeg, None

(* After a full allocation the tables' clusters are those of their stages. *)
LEMMA FullOut ==
    ASSUME CompilerInv, CompilerInv', TableInv, FullApart, Output, spoiled' = {}, ~incremental
    PROVE  PrevApart'
<1>1. /\ OutLink' /\ Done' /\ UNCHANGED <<prog, stages, table_at, place, config, processors>>
      /\ UNCHANGED <<err, incremental>> /\ phase = "build" /\ ~err /\ OwnTables /\ ~Keyless
  BY OutputLink
<1>2. Regular
  BY <1>1 DEF Regular
<1>3. DOMAIN prev' = DOMAIN prog.table
  BY <1>1 DEF OutLink
<1>4. ASSUME NEW t \in DOMAIN prog.table, NEW k \in Kinds
      PROVE  PrevBlocks(k, t)' = BlocksOf(k, t)
  <2>1. /\ prev'[t].mem = prog.table[t].mem
        /\ prev'[t].key = config[t].key /\ prev'[t].value = config[t].value
    BY <1>1, <1>3 DEF OutLink
  <2> QED
    BY <2>1 DEF PrevBlocks, BlocksOf
<1>5. ASSUME NEW t \in DOMAIN prog.table, config[t] = NoBlocks, NEW k \in Kinds
      PROVE  BlocksOf(k, t) = {}
  BY <1>5 DEF BlocksOf, NoBlocks, Elements
<1>6. ASSUME NEW x \in DOMAIN stages, NEW i \in DOMAIN stages[x].tables,
             stages[x].tables[i] \in DOMAIN prog.table
      PROVE  PrevCluster(stages[x].tables[i])' = StageCluster(x)
  <2>1. PICK t : t = stages[x].tables[i]
    OBVIOUS
  <2>2. table_at[t].stage = x
    <3>1. table_at[t] = [stage |-> x, matcher |-> i]
      BY <1>1, <2>1 DEF TableInv
    <3> QED
      BY <3>1
  <2>3. x \in DOMAIN route'
    BY <1>1, OutputRoute
  <2> DEFINE q == route'[x]
  <2>4. q \in Proc /\ place[q] = x
    BY <1>1, OutputRoute
  <2>5. ClusterOf(q) = StageCluster(x)
    BY <1>1, <2>4, StagePlace
  <2>6. prev'[t].proc = q
    BY <1>1, <1>3, <1>6, <2>1, <2>2, <2>3 DEF OutLink, Physical
  <2>7. NonNeg(ClusterOf(q)) = ClusterOf(q)
    BY <2>4, ClusterNonNeg
  <2>8. PrevCluster(t)' = StageCluster(x)
    BY <2>5, <2>6, <2>7 DEF PrevCluster
  <2> QED
    BY <1>1, <2>1, <2>8
<1>7. ASSUME NEW t \in DOMAIN prog.table, NEW k \in Kinds
      PROVE  PrevBlocks(k, t)' \subseteq 0 .. Room(k) - 1
  BY <1>1, <1>2, <1>4, <1>5, <1>7 DEF FullApart
<1>8. ASSUME NEW t \in DOMAIN prog.table, NEW u \in DOMAIN prog.table, t # u,
             PrevCluster(t)' = PrevCluster(u)', NEW k \in Kinds
      PROVE  PrevBlocks(k, t)' \cap PrevBlocks(k, u)' = {}
  <2>1. CASE config[t] = NoBlocks \/ config[u] = NoBlocks
    BY <1>4, <1>5, <2>1
  <2>2. CASE config[t] # NoBlocks /\ config[u] # NoBlocks
    <3>a. PICK x \in DOMAIN stages : \E i \in DOMAIN stages[x].tables : stages[x].tables[i] = t
      BY <1>1, <1>2, <2>2 DEF FullApart
    <3>1. PICK i \in DOMAIN stages[x].tables : stages[x].tables[i] = t
      BY <3>a
    <3>b. PICK y \in DOMAIN stages : \E j \in DOMAIN stages[y].tables : stages[y].tables[j] = u
      BY <1>1, <1>2, <2>2 DEF FullApart
    <3>2. PICK j \in DOMAIN stages[y].tables : stages[y].tables[j] = u
      BY <3>b
    <3>3. PrevCluster(t)' = StageCluster(x)
      <4>1. PrevCluster(stages[x].tables[i])' = StageCluster(x)
        BY <1>6, <3>1
      <4>2. stages'[x].tables[i] = t
        BY <1>1, <3>1
      <4> QED
        BY <4>1, <4>2
    <3>4. PrevCluster(u)' = StageCluster(y)
      <4>1. PrevCluster(stages[y].tables[j])' = StageCluster(y)
        BY <1>6, <3>2
      <4>2. stages'[y].tables[j] = u
        BY <1>1, <3>2
      <4> QED
        BY <4>1, <4>2
    <3>5. StageCluster(x) = StageCluster(y) /\ stages[x].tables[i] # stages[y].tables[j]
      BY <1>8, <3>1, <3>2, <3>3, <3>4
    <3>6. BlocksOf(k, stages[x].tables[i]) \cap BlocksOf(k, stages[y].tables[j]) = {}
      BY <1>1, <1>2, <3>5 DEF FullApart
    <3> QED
      BY <1>4, <3>1, <3>2, <3>6
  <2> QED
    BY <2>1, <2>2
<1> QED
  BY <1>3, <1>7, <1>8 DEF PrevApart, Room

(* An incremental compilation leaves the tables in their clusters and on   *)
(* their blocks.                                                           *)
LEMMA KeptOut ==
    ASSUME CompilerInv, CompilerInv', KeptAgree, PrevApart, Output, spoiled' = {}, incremental
    PROVE  PrevApart'
<1>1. /\ OutLink' /\ Done' /\ UNCHANGED <<prog, stages, table_at, place, config, processors>>
      /\ UNCHANGED <<err, incremental>> /\ phase = "build" /\ ~err
      /\ spoiled = {} /\ SameTables /\ ClusterOf(route'[0]) = OldCluster(0)
  BY OutputLink
<1>2. Carried /\ place \in [Proc -> DOMAIN stages \cup {0}]
  BY <1>1 DEF CompilerInv, KeptInv
<1>3. /\ \A t \in DOMAIN prev, k \in Kinds : PrevBlocks(k, t) \subseteq 0 .. Room(k) - 1
      /\ \A t, u \in DOMAIN prev :
           t # u /\ PrevCluster(t) = PrevCluster(u) =>
               \A k \in Kinds : PrevBlocks(k, t) \cap PrevBlocks(k, u) = {}
  BY <1>1, <1>2 DEF PrevApart, Carried
<1>4. DOMAIN prev' = DOMAIN prog.table /\ Existing = DOMAIN prog.table
      /\ DOMAIN prog.table \subseteq DOMAIN prev
  BY <1>1 DEF OutLink, Existing, SameTables
<1>5. ASSUME NEW t \in DOMAIN prog.table, NEW k \in Kinds
      PROVE  PrevBlocks(k, t)' = PrevBlocks(k, t)
  <2>1. /\ prev'[t].mem = prog.table[t].mem
        /\ prev'[t].key = config[t].key /\ prev'[t].value = config[t].value
    BY <1>1, <1>4 DEF OutLink
  <2>2. prog.table[t].mem = prev[t].mem
    BY <1>1 DEF SameTables
  <2>3. config[t] = OldBlocks(t)
    BY <1>2, <1>4 DEF Carried
  <2>4. config[t].key = prev[t].key /\ config[t].value = prev[t].value
    BY <2>3 DEF OldBlocks
  <2> QED
    BY <2>1, <2>2, <2>4 DEF PrevBlocks
<1>6. None \notin DOMAIN stages /\ 0 # None
  <2>1. DOMAIN stages \subseteq Nat
    BY StageNumbers DEF CompilerInv
  <2> QED
    BY <2>1 DEF None
<1>7. Ids' \subseteq DOMAIN stages \cup {0} /\ DOMAIN route' = Ids' \cup {None} /\ route'[None] = None
  <2>1. ASSUME NEW i \in DOMAIN processors PROVE processors[i].id \in DOMAIN stages \cup {0}
    <3>1. i \in Proc
      BY <1>1 DEF CompilerInv, BuildInv
    <3>2. place[i] \in DOMAIN stages \cup {0} /\ place[i] # None
      BY <1>2, <1>6, <3>1
    <3> QED
      BY <1>1, <3>2 DEF CompilerInv, BuildInv
  <2> QED
    BY <1>1, <2>1 DEF Ids, CompilerInv, OutInv
<1>8. ASSUME NEW t \in DOMAIN prog.table
      PROVE  PrevCluster(t)' = PrevCluster(t)
  <2>1. PICK x : x = table_at[t].stage
    OBVIOUS
  <2>2. OldCluster(x) = PrevCluster(t) /\ (x \notin DOMAIN stages => PrevCluster(t) = 0)
    BY <1>1, <1>4, <2>1 DEF KeptAgree
  <2>3. prev'[t].proc = IF x \in DOMAIN route' THEN route'[x] ELSE 0
    BY <1>1, <1>4, <2>1 DEF OutLink, Physical
  <2> DEFINE p == prev'[t].proc
  <2>4. PrevCluster(t)' = NonNeg(ClusterOf(p))
    BY DEF PrevCluster
  <2>5. CASE x \in DOMAIN stages
    <3>1. x \in DOMAIN route' /\ route'[x] \in Proc /\ place[route'[x]] = x
      BY <1>1, <2>5, OutputRoute
    <3>2. p = route'[x]
      BY <2>3, <3>1
    <3> HIDE DEF p
    <3>3. ClusterOf(p) = OldCluster(x)
      <4>1. CASE x = 0
        BY <1>1, <3>2, <4>1
      <4>2. CASE x # 0
        BY <1>2, <2>5, <3>1, <3>2, <4>2 DEF Carried
      <4> QED
        BY <4>1, <4>2
    <3>4. NonNeg(ClusterOf(p)) = ClusterOf(p)
      BY <3>1, <3>2, ClusterNonNeg
    <3> QED
      BY <2>2, <2>4, <3>3, <3>4
  <2>6. CASE x \notin DOMAIN stages
    <3>1. CASE x = 0 /\ 0 \in DOMAIN route'
      <4>1. p = route'[0]
        BY <2>3, <3>1
      <4>2. route'[0] \in Proc
        <5>1. 0 \in Ids'
          BY <1>6, <1>7, <3>1
        <5>2. route'[0] \in DOMAIN processors'
          BY <1>1, <1>6, <5>1 DEF CompilerInv, OutInv
        <5> QED
          BY <1>1, <5>2 DEF CompilerInv, BuildInv
      <4> HIDE DEF p
      <4>3. NonNeg(ClusterOf(p)) = ClusterOf(p)
        BY <4>1, <4>2, ClusterNonNeg
      <4>4. ClusterOf(p) = OldCluster(x)
        BY <1>1, <3>1, <4>1
      <4> QED
        BY <2>2, <2>4, <4>3, <4>4
    <3>2. CASE ~(x = 0 /\ 0 \in DOMAIN route')
      <4>1. p = None \/ p = 0
        BY <1>7, <2>3, <2>6, <3>2
      <4> HIDE DEF p
      <4> QED
        BY <2>2, <2>4, <2>6, <4>1, ClusterZero
    <3> QED
      BY <3>1, <3>2
  <2> QED
    BY <2>5, <2>6
<1>9. ASSUME NEW t \in DOMAIN prog.table, NEW k \in Kinds
      PROVE  PrevBlocks(k, t)' \subseteq 0 .. Room(k) - 1
  BY <1>3, <1>4, <1>5
<1>10. ASSUME NEW t \in DOMAIN prog.table, NEW u \in DOMAIN prog.table, t # u,
             PrevCluster(t)' = PrevCluster(u)', NEW k \in Kinds
      PROVE  PrevBlocks(k, t)' \cap PrevBlocks(k, u)' = {}
  <2>1. PrevCluster(t) = PrevCluster(u)
    BY <1>8, <1>10
  <2>2. PrevBlocks(k, t) \cap PrevBlocks(k, u) = {}
    BY <1>3, <1>4, <1>10, <2>1
  <2> QED
    BY <1>5, <2>2
<1> QED
  BY <1>4, <1>9, <1>10 DEF PrevApart, Room

LEMMA OutStep ==
    /\ CompilerInv /\ CompilerInv' /\ TableInv /\ FullApart /\ KeptAgree /\ PrevApart /\ OutLink
    /\ Next
    => PrevApart' /\ OutLink'
<1> SUFFICES ASSUME CompilerInv, CompilerInv', TableInv, FullApart, KeptAgree, PrevApart, OutLink,
                    Next
             PROVE  PrevApart' /\ OutLink'
  OBVIOUS
<1>1. CASE Output
  <2>1. OutLink'
    BY <1>1, OutputLink
  <2>2. CASE spoiled' = {}
    BY <1>1, <2>1, <2>2, FullOut, KeptOut
  <2>3. CASE spoiled' # {}
    BY <2>1, <2>3 DEF PrevApart
  <2> QED
    BY <2>2, <2>3
<1>2. CASE ~Output
  <2>1. phase' # "idle" /\ UNCHANGED <<prev, spoiled>>
    BY <1>2 DEF Next, EmitTask, Load, RemoveEmpty, Renumber, RenumberDead, AllocateParsers,
           AllocateParsersDead, PlaceStage, Placed, SetConfig, NextConfig, Configured, KeepMemory,
           KeepFails, NewTable, KeepDone, BuildProcessor, BuildProcessorDead, Dead
  <2>2. ~Done'
    BY <2>1 DEF Done
  <2>3. (\A t : PrevCluster(t)' = PrevCluster(t)) /\ (\A k, t : PrevBlocks(k, t)' = PrevBlocks(k, t))
    BY <2>1 DEF PrevCluster, PrevBlocks
  <2> QED
    BY <2>1, <2>2, <2>3 DEF PrevApart, OutLink, Room
<1> QED
  BY <1>1, <1>2

-----------------------------------------------------------------------------
LEMMA BlockInit == Init => BlockInv
<1> SUFFICES ASSUME Init PROVE BlockInv
  OBVIOUS
<1>1. phase = "idle" /\ ~Done /\ prev = NoTask /\ size = Empty
  BY DEF Init, Done
<1>2. SizeNat
  BY <1>1 DEF SizeNat, Empty
<1> QED
  BY <1>1, <1>2 DEF BlockInv, FreshBlocks, SpaceKept, ConfigInv, FullApart, KeptAgree, PrevApart,
     OutLink

LEMMA BlockStutter == BlockInv /\ UNCHANGED vars => BlockInv'
<1> SUFFICES ASSUME BlockInv, UNCHANGED vars PROVE BlockInv'
  OBVIOUS
<1>1. /\ UNCHANGED <<phase, cursor, item, compiles, prev, spoiled, prog, size, stages, table_at>>
      /\ UNCHANGED <<place, space, number, config, route, err, incremental>>
  BY DEF vars, sessionVars, stageVars, memVars, outVars, flagVars
<1>2. /\ Keyless' = Keyless /\ OwnTables' = OwnTables /\ Done' = Done
      /\ \A x, i : Numbered(x, i)' = Numbered(x, i)
  BY <1>1 DEF Keyless, OwnTables, StageTables, Done, Numbered
<1>3. /\ \A x : StageCluster(x)' = StageCluster(x) /\ Physical(x)' = Physical(x)
      /\ \A k, t : BlocksOf(k, t)' = BlocksOf(k, t) /\ PrevBlocks(k, t)' = PrevBlocks(k, t)
      /\ \A t : PrevCluster(t)' = PrevCluster(t)
      /\ \A k, c : Taken(k, c)' = Taken(k, c) /\ Left(k, c)' = Left(k, c)
  BY <1>1 DEF StageCluster, Physical, BlocksOf, PrevBlocks, PrevCluster, Taken, Left
<1>4. \A k, c, S : Used(k, c, S)' = Used(k, c, S)
  BY <1>1, UsedFrame
<1>5. \A k, x, m : Part(k, x, m)' = Part(k, x, m)
  <2>1. \A k, u : Takes(k, u)' = Takes(k, u)
    BY <1>1 DEF Takes, SramOf, TcamOf, ValueBlocks, KeyBlocks, InTcam
  <2>2. \A k, x : TableWeights(k, x)' = TableWeights(k, x)
    BY <1>1, <2>1 DEF TableWeights
  <2> QED
    BY <2>2 DEF Part
<1>6. SizeNat' /\ FreshBlocks' /\ SpaceKept'
  BY <1>1, <1>2, <1>3, <1>4 DEF BlockInv, SizeNat, FreshBlocks, SpaceKept, Room
<1>7. ConfigInv'
  <2>1. NumbersKept' = NumbersKept
    BY <1>1, <1>3, <1>4, <1>5 DEF NumbersKept
  <2>2. NumberedBelow' = NumberedBelow
    BY <1>1, <1>2, <1>3 DEF NumberedBelow
  <2>3. NumberedApart => NumberedApart'
    <3>1. stages' = stages /\ \A k, t : BlocksOf(k, t)' = BlocksOf(k, t)
      BY <1>1, <1>3
    <3> SUFFICES ASSUME NumberedApart PROVE NumberedApart'
      OBVIOUS
    <3> SUFFICES ASSUME NEW x \in DOMAIN stages, NEW y \in DOMAIN stages,
                        NEW i \in DOMAIN stages[x].tables, NEW j \in DOMAIN stages[y].tables,
                        Numbered(x, i)', Numbered(y, j)', StageCluster(x)' = StageCluster(y)',
                        stages[x].tables[i] # stages[y].tables[j],
                        NEW k \in Kinds
                 PROVE  BlocksOf(k, stages[x].tables[i]) \cap BlocksOf(k, stages[y].tables[j]) = {}
      BY <3>1 DEF NumberedApart
    <3> QED
      BY <1>2, <1>3 DEF NumberedApart
  <2>4. OthersEmpty' = OthersEmpty /\ Regular' = Regular
    BY <1>1, <1>2 DEF OthersEmpty, Regular
  <2> QED
    BY <1>1, <2>1, <2>2, <2>3, <2>4 DEF BlockInv, ConfigInv
<1>8. FullApart'
  BY <1>1, <1>2, <1>3 DEF BlockInv, FullApart, Regular, Room
<1>9. KeptAgree'
  <2>1. Existing' = Existing /\ \A x : OldCluster(x)' = OldCluster(x)
    BY OldFrame DEF vars, sessionVars
  <2> QED
    BY <1>1, <1>3, <2>1 DEF BlockInv, KeptAgree
<1>10. PrevApart' /\ OutLink'
  BY <1>1, <1>2, <1>3 DEF BlockInv, PrevApart, OutLink, Room
<1> QED
  BY <1>6, <1>7, <1>8, <1>9, <1>10 DEF BlockInv

LEMMA BlockStep == CompilerInv /\ TableInv /\ BlockInv /\ [Next]_vars => BlockInv'
<1> SUFFICES ASSUME CompilerInv, TableInv, BlockInv, [Next]_vars PROVE BlockInv'
  OBVIOUS
<1>1. CASE UNCHANGED vars
  BY <1>1, BlockStutter
<1>2. CASE Next
  <2>1. CompilerInv'
    BY NextInv
  <2>2. SizeNat' /\ FreshBlocks' /\ SpaceKept'
    BY SizeStep, FreshStep, SpaceStep DEF BlockInv
  <2>3. ConfigInv' /\ FullApart' /\ KeptAgree'
    BY <1>2, ConfigStep, FullStep, AgreeStep DEF BlockInv
  <2>4. PrevApart' /\ OutLink'
    BY <1>2, <2>1, OutStep DEF BlockInv
  <2> QED
    BY <2>2, <2>3, <2>4 DEF BlockInv
<1> QED
  BY <1>1, <1>2

(* Whatever programs a session compiles, one after another: unless since   *)
(* the last full allocation there was an error, a table without keys or of *)
(* two stages, or an incremental compilation that added or changed a table *)
(* or took a copy of stage 0 in another cluster for it, no two tables of   *)
(* one cluster share a memory block, and none lies beyond the cluster's    *)
(* memory (setConfig, allocateMemory).                                     *)
THEOREM BlocksApart == Spec => []BlocksDisjoint
<1>1. Init => TableInv
  BY DEF Init, TableInv, Empty
<1>2. CompilerInv /\ TableInv /\ BlockInv => BlocksDisjoint
  <2> SUFFICES ASSUME CompilerInv, TableInv, BlockInv, Done, spoiled = {},
                      NEW x \in DOMAIN stages, NEW y \in DOMAIN stages,
                      NEW t \in Elements(stages[x].tables), NEW u \in Elements(stages[y].tables)
               PROVE  /\ \A b \in Blocks(t) : b[2] < (IF b[1] = "SRAM" THEN NSram ELSE NTcam)
                      /\ t # u /\ ClusterOf(Physical(x)) = ClusterOf(Physical(y)) =>
                           Blocks(t) \cap Blocks(u) = {}
    BY DEF BlocksDisjoint, NoSharedBlocks
  <2>1. OutLink /\ PrevApart /\ OwnTables
    BY DEF BlockInv, OutLink
  <2>2. ASSUME NEW z \in DOMAIN stages, NEW v \in Elements(stages[z].tables)
        PROVE  /\ v \in DOMAIN prev /\ PrevCluster(v) = NonNeg(ClusterOf(Physical(z)))
               /\ \A b \in Blocks(v) : b[1] \in Kinds /\ b[2] \in PrevBlocks(b[1], v)
    <3>1. PICK i \in DOMAIN stages[z].tables : v = stages[z].tables[i]
      BY DEF Elements
    <3>2. table_at[v] = [stage |-> z, matcher |-> i]
      BY <2>1, <3>1 DEF TableInv
    <3>3. stages[z].tables \in Seq(DOMAIN prog.table)
      BY DEF CompilerInv, StageInv
    <3>4. v \in DOMAIN prog.table /\ table_at[v].stage = z
      BY <3>1, <3>2, <3>3
    <3>5. /\ v \in DOMAIN prev /\ prev[v].proc = Physical(z) /\ prev[v].mem = prog.table[v].mem
          /\ prev[v].key = config[v].key /\ prev[v].value = config[v].value
      BY <2>1, <3>4 DEF OutLink
    <3>6. prog.table[v].mem \in Kinds
      BY <3>4 DEF CompilerInv, StageInv, WellFormed, Kinds
    <3>7. \A b \in Blocks(v) : b[1] \in Kinds /\ b[2] \in PrevBlocks(b[1], v)
      BY <3>5, <3>6 DEF Blocks, PrevBlocks, Kinds
    <3> QED
      BY <3>5, <3>7 DEF PrevCluster
  <2>3. ASSUME NEW b \in Blocks(t) PROVE b[2] < (IF b[1] = "SRAM" THEN NSram ELSE NTcam)
    <3>1. b[1] \in Kinds /\ b[2] \in 0 .. Room(b[1]) - 1
      BY <2>1, <2>2 DEF PrevApart
    <3>2. Room(b[1]) = (IF b[1] = "SRAM" THEN NSram ELSE NTcam) /\ Room(b[1]) \in Nat
      BY SizeAssumption DEF Room, SizeAssumption
    <3> QED
      BY <3>1, <3>2
  <2>4. ASSUME t # u, ClusterOf(Physical(x)) = ClusterOf(Physical(y)),
               NEW b \in Blocks(t), b \in Blocks(u)
        PROVE  FALSE
    <3>1. PrevCluster(t) = PrevCluster(u) /\ t \in DOMAIN prev /\ u \in DOMAIN prev
      BY <2>2, <2>4
    <3>2. b[1] \in Kinds /\ b[2] \in PrevBlocks(b[1], t) /\ b[2] \in PrevBlocks(b[1], u)
      BY <2>2, <2>4
    <3> QED
      BY <2>1, <2>4, <3>1, <3>2 DEF PrevApart
  <2> QED
    BY <2>3, <2>4
<1> QED
  BY <1>1, <1>2, TableInvStep, BlockInit, BlockStep, Invariance, PTL DEF Spec


-----------------------------------------------------------------------------
(***************************************************************************)
(* The distribution of the parser levels.                                  *)
(***************************************************************************)
(* An order of a whole graph.                                              *)
Orders(next, s) ==
    /\ Len(s) \in Nat /\ DOMAIN s = 1 .. Len(s)
    /\ \A i \in 1 .. Len(s) : s[i] \in DOMAIN next
    /\ \A x \in DOMAIN next : \E i \in 1 .. Len(s) : s[i] = x
    /\ \A i, k \in 1 .. Len(s) : s[i] = s[k] => i = k
    /\ \A i \in 1 .. Len(s) : \A y \in Preds(next, s[i]) : \E k \in 1 .. i - 1 : y = s[k]

LEMMA SortOrders ==
    ASSUME NEW next, DOMAIN next \in SUBSET Nat, IsFiniteSet(DOMAIN next), Acyclic(next)
    PROVE  Orders(next, topologicalSort(next))
<1> DEFINE s == topologicalSort(next)
<1>1. InOrder(next, s) /\ Elements(s) = DOMAIN next
  BY SortInOrder, SortComplete
<1> HIDE DEF s
<1>2. s \in Seq(DOMAIN next)
  BY <1>1 DEF InOrder
<1>3. Len(s) \in Nat /\ DOMAIN s = 1 .. Len(s)
  BY <1>2
<1>4. Orders(next, s)
  BY <1>1, <1>2, <1>3 DEF Orders, InOrder, Elements
<1> QED
  BY <1>4 DEF s

(* total_levels: along the order every stage has its predecessors' levels. *)
IsTotal(g, next, need) == g = [x \in DOMAIN next |-> Common(next, g, x) \cup need[x]]

LEMMA CommonSame ==
    ASSUME NEW next, NEW g, NEW h, NEW x, \A y \in Preds(next, x) : g[y] = h[y]
    PROVE  Common(next, g, x) = Common(next, h, x)
<1>1. {g[y] : y \in Preds(next, x)} = {h[y] : y \in Preds(next, x)}
  OBVIOUS
<1>2. \A l : (\A y \in Preds(next, x) : l \in g[y]) <=> (\A y \in Preds(next, x) : l \in h[y])
  OBVIOUS
<1> QED
  BY <1>1, <1>2 DEF Common

LEMMA TotalLevelsExist ==
    ASSUME NEW next, NEW need, NEW s, Orders(next, s)
    PROVE  \E g : IsTotal(g, next, need)
<1> DEFINE Good(g, k) ==
             /\ g = [x \in DOMAIN next |-> g[x]]
             /\ \A i \in 1 .. k : g[s[i]] = Common(next, g, s[i]) \cup need[s[i]]
           S == {k \in Nat : k <= Len(s) => \E g : Good(g, k)}
<1>1. /\ Len(s) \in Nat
      /\ \A i \in 1 .. Len(s) : s[i] \in DOMAIN next
      /\ \A x \in DOMAIN next : \E i \in 1 .. Len(s) : s[i] = x
      /\ \A i, k \in 1 .. Len(s) : s[i] = s[k] => i = k
      /\ \A i \in 1 .. Len(s) : \A y \in Preds(next, s[i]) : \E k \in 1 .. i - 1 : y = s[k]
  BY DEF Orders
<1>2. 0 \in S
  <2> DEFINE h == [x \in DOMAIN next |-> {}]
  <2>1. Good(h, 0)
    OBVIOUS
  <2> QED
    BY <2>1
<1>3. ASSUME NEW k \in Nat, k \in S PROVE k + 1 \in S
  <2> SUFFICES ASSUME k + 1 <= Len(s) PROVE \E g : Good(g, k + 1)
    OBVIOUS
  <2>1. PICK g : Good(g, k)
    BY <1>1, <1>3
  <2> DEFINE y == s[k + 1]
             v == Common(next, g, y) \cup need[y]
             h == [x \in DOMAIN next |-> IF x = y THEN v ELSE g[x]]
  <2>2. y \in DOMAIN next /\ h[y] = v /\ \A x \in DOMAIN next : x # y => h[x] = g[x]
    BY <1>1
  <2>3. h = [x \in DOMAIN next |-> h[x]]
    OBVIOUS
  <2> HIDE DEF h, v
  <2>4. ASSUME NEW i \in 1 .. k + 1
        PROVE  Common(next, h, s[i]) = Common(next, g, s[i])
    <3>1. ASSUME NEW x \in Preds(next, s[i]) PROVE g[x] = h[x]
      <4>1. PICK j \in 1 .. i - 1 : x = s[j]
        BY <1>1, <3>1
      <4>2. x # y /\ x \in DOMAIN next
        BY <1>1, <4>1
      <4> QED
        BY <2>2, <4>2
    <3> QED
      BY <3>1, CommonSame
  <2>5. ASSUME NEW i \in 1 .. k + 1
        PROVE  h[s[i]] = Common(next, h, s[i]) \cup need[s[i]]
    <3>1. CASE i = k + 1
      BY <2>2, <2>4, <3>1 DEF v
    <3>2. CASE i # k + 1
      <4>1. i \in 1 .. k /\ s[i] # y /\ s[i] \in DOMAIN next
        BY <1>1, <3>2
      <4>2. g[s[i]] = Common(next, g, s[i]) \cup need[s[i]]
        BY <2>1, <4>1
      <4> QED
        BY <2>2, <2>4, <4>1, <4>2
    <3> QED
      BY <3>1, <3>2
  <2> QED
    BY <2>3, <2>5
<1> HIDE DEF S
<1>4. Len(s) \in S
  BY <1>1, <1>2, <1>3, SetInduction
<1>5. PICK g : Good(g, Len(s))
  BY <1>1, <1>4 DEF S
<1>6. \A x \in DOMAIN next : g[x] = Common(next, g, x) \cup need[x]
  BY <1>1, <1>5
<1> QED
  BY <1>5, <1>6 DEF IsTotal

LEMMA TotalLevelsValue ==
    ASSUME NEW next, NEW need, NEW s, Orders(next, s)
    PROVE  \A x \in DOMAIN next : TotalLevels(next, need)[x]
             = Common(next, TotalLevels(next, need), x) \cup need[x]
<1> DEFINE f == CHOOSE g : g = [x \in DOMAIN next |-> Common(next, g, x) \cup need[x]]
<1>1. TotalLevels(next, need) = f
  BY DEF TotalLevels
<1>2. f = [x \in DOMAIN next |-> Common(next, f, x) \cup need[x]]
  <2>1. \E g : IsTotal(g, next, need)
    BY TotalLevelsExist
  <2> QED
    BY <2>1, Zenon DEF IsTotal
<1> HIDE DEF f
<1>3. \A x \in DOMAIN next : f[x] = Common(next, f, x) \cup need[x]
  BY <1>2
<1> QED
  BY <1>1, <1>3

(* level_level: a level and those before it.                               *)
IsUpTo(g, next) == g = [l \in DOMAIN next |-> {l} \cup UNION {g[m] : m \in Preds(next, l)}]

LEMMA LevelLevelsExist ==
    ASSUME NEW next, NEW s, Orders(next, s)
    PROVE  \E g : IsUpTo(g, next)
<1> DEFINE Below(g, l) == {l} \cup UNION {g[m] : m \in Preds(next, l)}
           Good(g, k) ==
             /\ g = [x \in DOMAIN next |-> g[x]]
             /\ \A i \in 1 .. k : g[s[i]] = Below(g, s[i])
           S == {k \in Nat : k <= Len(s) => \E g : Good(g, k)}
<1>1. /\ Len(s) \in Nat
      /\ \A i \in 1 .. Len(s) : s[i] \in DOMAIN next
      /\ \A x \in DOMAIN next : \E i \in 1 .. Len(s) : s[i] = x
      /\ \A i, k \in 1 .. Len(s) : s[i] = s[k] => i = k
      /\ \A i \in 1 .. Len(s) : \A y \in Preds(next, s[i]) : \E k \in 1 .. i - 1 : y = s[k]
  BY DEF Orders
<1>2. 0 \in S
  <2> DEFINE h == [x \in DOMAIN next |-> {}]
  <2>1. Good(h, 0)
    OBVIOUS
  <2> QED
    BY <2>1
<1>3. ASSUME NEW k \in Nat, k \in S PROVE k + 1 \in S
  <2> SUFFICES ASSUME k + 1 <= Len(s) PROVE \E g : Good(g, k + 1)
    OBVIOUS
  <2>1. PICK g : Good(g, k)
    BY <1>1, <1>3
  <2> DEFINE y == s[k + 1]
             v == Below(g, y)
             h == [x \in DOMAIN next |-> IF x = y THEN v ELSE g[x]]
  <2>2. y \in DOMAIN next /\ h[y] = v /\ \A x \in DOMAIN next : x # y => h[x] = g[x]
    BY <1>1
  <2>3. h = [x \in DOMAIN next |-> h[x]]
    OBVIOUS
  <2> HIDE DEF h, v
  <2>4. ASSUME NEW i \in 1 .. k + 1
        PROVE  Below(h, s[i]) = Below(g, s[i])
    <3>1. ASSUME NEW x \in Preds(next, s[i]) PROVE g[x] = h[x]
      <4>1. PICK j \in 1 .. i - 1 : x = s[j]
        BY <1>1, <3>1
      <4>2. x # y /\ x \in DOMAIN next
        BY <1>1, <4>1
      <4> QED
        BY <2>2, <4>2
    <3>2. {g[x] : x \in Preds(next, s[i])} = {h[x] : x \in Preds(next, s[i])}
      BY <3>1
    <3> QED
      BY <3>2
  <2> HIDE DEF Below
  <2>5. ASSUME NEW i \in 1 .. k + 1
        PROVE  h[s[i]] = Below(h, s[i])
    <3>1. CASE i = k + 1
      BY <2>2, <2>4, <3>1 DEF v
    <3>2. CASE i # k + 1
      <4>1. i \in 1 .. k /\ s[i] # y /\ s[i] \in DOMAIN next
        BY <1>1, <3>2
      <4>2. g[s[i]] = Below(g, s[i])
        BY <2>1, <4>1
      <4> QED
        BY <2>2, <2>4, <4>1, <4>2
    <3> QED
      BY <3>1, <3>2
  <2> QED
    BY <2>3, <2>5
<1> HIDE DEF S
<1>4. Len(s) \in S
  BY <1>1, <1>2, <1>3, SetInduction
<1>5. PICK g : Good(g, Len(s))
  BY <1>1, <1>4 DEF S
<1>6. \A x \in DOMAIN next : g[x] = Below(g, x)
  <2> HIDE DEF Below
  <2> QED
    BY <1>1, <1>5
<1> QED
  BY <1>5, <1>6 DEF IsUpTo

LEMMA LevelLevelsValue ==
    ASSUME NEW parser, NEW s, Orders(NextLevels(parser), s)
    PROVE  \A l \in DOMAIN parser : LevelLevels(parser)[l]
             = {l} \cup UNION {LevelLevels(parser)[m] : m \in Preds(NextLevels(parser), l)}
<1> DEFINE next == NextLevels(parser)
           f == CHOOSE g : g = [l \in DOMAIN parser |-> {l} \cup UNION {g[m] : m \in Preds(next, l)}]
<1>1. LevelLevels(parser) = f
  BY DEF LevelLevels
<1>2. f = [l \in DOMAIN parser |-> {l} \cup UNION {f[m] : m \in Preds(next, l)}]
  <2>1. DOMAIN next = DOMAIN parser
    BY DEF NextLevels
  <2> HIDE DEF next
  <2>2. \E g : IsUpTo(g, next)
    BY LevelLevelsExist DEF next
  <2> QED
    BY <2>1, <2>2, Zenon DEF IsUpTo
<1> HIDE DEF f, next
<1>3. \A l \in DOMAIN parser : f[l] = {l} \cup UNION {f[m] : m \in Preds(next, l)}
  BY <1>2
<1> QED
  BY <1>1, <1>3 DEF next

(* With a level all levels before it are needed.                           *)
LEMMA LevelLevelsClosed ==
    ASSUME NEW parser, NEW s, Orders(NextLevels(parser), s), NEW l \in DOMAIN parser
    PROVE  /\ l \in LevelLevels(parser)[l] /\ LevelLevels(parser)[l] \subseteq DOMAIN parser
           /\ \A m \in LevelLevels(parser)[l] :
                Preds(NextLevels(parser), m) \subseteq LevelLevels(parser)[l]
<1> DEFINE next == NextLevels(parser)
           D == DOMAIN parser
           f == LevelLevels(parser)
           Good(x) == /\ x \in f[x] /\ f[x] \subseteq D
                      /\ \A m \in f[x] : Preds(next, m) \subseteq f[x]
           S == {k \in Nat : \A i \in 1 .. k : i <= Len(s) => Good(s[i])}
<1>1. \A x \in D : f[x] = {x} \cup UNION {f[m] : m \in Preds(next, x)}
  BY LevelLevelsValue
<1>2. /\ Len(s) \in Nat
      /\ \A i \in 1 .. Len(s) : s[i] \in D
      /\ \A x \in D : \E i \in 1 .. Len(s) : s[i] = x
      /\ \A i \in 1 .. Len(s) : \A y \in Preds(next, s[i]) : \E k \in 1 .. i - 1 : y = s[k]
  <2>1. DOMAIN next = D
    BY DEF NextLevels
  <2> QED
    BY <2>1 DEF Orders
<1> HIDE DEF next, D, f
<1>3. 0 \in S
  OBVIOUS
<1>4. ASSUME NEW k \in Nat, k \in S PROVE k + 1 \in S
  <2> SUFFICES ASSUME k + 1 <= Len(s) PROVE Good(s[k + 1])
    BY <1>4
  <2> DEFINE x == s[k + 1]
  <2>1. x \in D
    BY <1>2
  <2>2. \A y \in Preds(next, x) : Good(y)
    <3> SUFFICES ASSUME NEW y \in Preds(next, x) PROVE Good(y)
      OBVIOUS
    <3>0. k + 1 \in 1 .. Len(s) /\ (k + 1) - 1 = k
      BY <1>2
    <3>1. PICK j \in 1 .. k : y = s[j]
      <4>1. \E j \in 1 .. (k + 1) - 1 : y = s[j]
        BY <1>2, <3>0
      <4> QED
        BY <3>0, <4>1
    <3>2. j \in 1 .. k /\ j <= Len(s)
      BY <1>2, <3>1
    <3> HIDE DEF Good
    <3> QED
      BY <1>4, <3>1, <3>2
  <2> HIDE DEF x
  <2>3. f[x] = {x} \cup UNION {f[m] : m \in Preds(next, x)}
    BY <1>1, <2>1
  <2>4. x \in f[x] /\ f[x] \subseteq D
    BY <2>1, <2>2, <2>3
  <2>5. ASSUME NEW m \in f[x], NEW p \in Preds(next, m) PROVE p \in f[x]
    <3>1. CASE m = x
      <4>1. p \in f[p]
        BY <2>2, <2>5, <3>1
      <4> QED
        BY <2>3, <2>5, <3>1, <4>1
    <3>2. CASE m # x
      <4>1. PICK y \in Preds(next, x) : m \in f[y]
        BY <2>3, <3>2
      <4>2. p \in f[y]
        BY <2>2, <2>5, <4>1
      <4> QED
        BY <2>3, <4>1, <4>2
    <3> QED
      BY <3>1, <3>2
  <2> QED
    BY <2>4, <2>5 DEF x
<1> HIDE DEF S
<1>5. Len(s) \in S
  BY <1>2, <1>3, <1>4, SetInduction
<1>6. Good(l)
  <2>1. PICK i \in 1 .. Len(s) : s[i] = l
    BY <1>2 DEF D
  <2> HIDE DEF Good
  <2> QED
    BY <1>2, <1>5, <2>1 DEF S
<1> QED
  BY <1>6 DEF next, f, D

(* The picked entries are those at the positions, and stay in order.       *)
PickGood(u, seq, I, k) ==
    /\ u \in Seq({seq[i] : i \in I})
    /\ \A i \in I : i <= k => \E m \in 1 .. Len(u) : u[m] = seq[i]
    /\ \A m \in 1 .. Len(u) : \E i \in I :
         /\ i <= k /\ u[m] = seq[i]
         /\ \A j \in I : j < i => \E h \in 1 .. m - 1 : u[h] = seq[j]

LEMMA PickGoodSkip ==
    ASSUME NEW seq, NEW k \in Nat, NEW I \in SUBSET Nat, NEW u, PickGood(u, seq, I, k),
           k + 1 \notin I
    PROVE  PickGood(u, seq, I, k + 1)
<1>1. \A i \in I : i <= k + 1 => i <= k
  OBVIOUS
<1>2. \A i \in I : i <= k => i <= k + 1
  OBVIOUS
<1>3. u \in Seq({seq[i] : i \in I})
  BY DEF PickGood
<1>4. \A i \in I : i <= k + 1 => \E m \in 1 .. Len(u) : u[m] = seq[i]
  BY <1>1 DEF PickGood
<1>5. ASSUME NEW m \in 1 .. Len(u)
      PROVE  \E i \in I : /\ i <= k + 1 /\ u[m] = seq[i]
                          /\ \A j \in I : j < i => \E h \in 1 .. m - 1 : u[h] = seq[j]
  <2>1. PICK i \in I : /\ i <= k /\ u[m] = seq[i]
                       /\ \A j \in I : j < i => \E h \in 1 .. m - 1 : u[h] = seq[j]
    BY DEF PickGood
  <2> QED
    BY <1>2, <2>1
<1> QED
  BY <1>3, <1>4, <1>5 DEF PickGood

LEMMA PickGoodTake ==
    ASSUME NEW seq, NEW k \in Nat, NEW I \in SUBSET Nat, NEW u, PickGood(u, seq, I, k),
           k + 1 \in I
    PROVE  PickGood(Append(u, seq[k + 1]), seq, I, k + 1)
<1> DEFINE e == seq[k + 1]
           v == Append(u, e)
           T == {seq[i] : i \in I}
<1>1. u \in Seq(T) /\ e \in T
  BY DEF PickGood
<1>2. /\ v \in Seq(T) /\ Len(v) = Len(u) + 1 /\ v[Len(u) + 1] = e
      /\ \A m \in 1 .. Len(u) : v[m] = u[m]
      /\ Len(u) \in Nat
  <2> HIDE DEF e, T
  <2> QED
    BY <1>1
<1> HIDE DEF v
<1>3. ASSUME NEW i \in I, i <= k + 1 PROVE \E m \in 1 .. Len(v) : v[m] = seq[i]
  <2>1. CASE i = k + 1
    <3>1. Len(u) + 1 \in 1 .. Len(v)
      BY <1>2
    <3> QED
      BY <1>2, <2>1, <3>1
  <2>2. CASE i # k + 1
    <3>1. i <= k
      BY <1>3, <2>2
    <3>2. PICK m \in 1 .. Len(u) : u[m] = seq[i]
      BY <3>1 DEF PickGood
    <3> QED
      BY <1>2, <3>2
  <2> QED
    BY <2>1, <2>2
<1>4. ASSUME NEW m \in 1 .. Len(v)
      PROVE  \E i \in I : /\ i <= k + 1 /\ v[m] = seq[i]
                          /\ \A j \in I : j < i => \E h \in 1 .. m - 1 : v[h] = seq[j]
  <2>1. CASE m = Len(u) + 1
    <3>1. v[m] = seq[k + 1]
      BY <1>2, <2>1
    <3>2. ASSUME NEW j \in I, j < k + 1 PROVE \E h \in 1 .. m - 1 : v[h] = seq[j]
      <4>1. j <= k
        BY <3>2
      <4>2. PICK h \in 1 .. Len(u) : u[h] = seq[j]
        BY <4>1 DEF PickGood
      <4>3. h \in 1 .. m - 1 /\ v[h] = seq[j]
        BY <1>2, <2>1, <4>2
      <4> QED
        BY <4>3
    <3>3. k + 1 <= k + 1
      OBVIOUS
    <3> WITNESS k + 1 \in I
    <3> QED
      BY <3>1, <3>2, <3>3
  <2>2. CASE m # Len(u) + 1
    <3>1. m \in 1 .. Len(u) /\ v[m] = u[m]
      BY <1>2, <2>2
    <3>2. PICK i \in I : /\ i <= k /\ u[m] = seq[i]
                         /\ \A j \in I : j < i => \E h \in 1 .. m - 1 : u[h] = seq[j]
      BY <3>1 DEF PickGood
    <3>3. \A h \in 1 .. m - 1 : v[h] = u[h]
      BY <1>2, <3>1
    <3>4. i <= k + 1
      BY <3>2
    <3> QED
      BY <3>1, <3>2, <3>3, <3>4
  <2> QED
    BY <2>1, <2>2
<1>5. PickGood(v, seq, I, k + 1)
  <2>1. v \in Seq({seq[i] : i \in I})
    BY <1>2
  <2> HIDE DEF T, e
  <2> QED
    BY <1>3, <1>4, <2>1 DEF PickGood
<1> QED
  BY <1>5 DEF v

LEMMA PickedOrder ==
    ASSUME NEW seq, Len(seq) \in Nat, NEW I \in SUBSET (1 .. Len(seq))
    PROVE  PickGood(Picked(seq, I), seq, I, Len(seq))
<1> DEFINE n == Len(seq)
           f == CHOOSE g : g = [k \in 0 .. n |->
                  IF k = 0 THEN <<>> ELSE IF k \in I THEN Append(g[k - 1], seq[k]) ELSE g[k - 1]]
           S == {k \in Nat : k <= n => PickGood(f[k], seq, I, k)}
<1>0. I \in SUBSET Nat
  OBVIOUS
<1>1. Picked(seq, I) = f[n]
  BY DEF Picked
<1>2. \A k \in 0 .. n : f[k] =
        IF k = 0 THEN <<>> ELSE IF k \in I THEN Append(f[k - 1], seq[k]) ELSE f[k - 1]
  <2>1. f = [k \in 0 .. n |->
          IF k = 0 THEN <<>> ELSE IF k \in I THEN Append(f[k - 1], seq[k]) ELSE f[k - 1]]
    <3>1. \E g : IsPick(g, seq, I, n)
      BY PickExists
    <3> QED
      BY <3>1 DEF IsPick
  <2> HIDE DEF f
  <2> QED
    BY <2>1
<1> HIDE DEF f
<1>3. 0 \in S
  <2>1. f[0] = <<>>
    BY <1>2
  <2>2. PickGood(<<>>, seq, I, 0)
    <3>1. \A i \in I : ~ (i <= 0)
      OBVIOUS
    <3>2. <<>> \in Seq({seq[i] : i \in I}) /\ Len(<<>>) = 0
      OBVIOUS
    <3>3. 1 .. Len(<<>>) = {}
      BY <3>2
    <3> QED
      BY <3>1, <3>2, <3>3 DEF PickGood
  <2> QED
    BY <2>1, <2>2
<1>4. ASSUME NEW k \in Nat, k \in S PROVE k + 1 \in S
  <2> SUFFICES ASSUME k + 1 <= n PROVE PickGood(f[k + 1], seq, I, k + 1)
    OBVIOUS
  <2>1. PickGood(f[k], seq, I, k)
    BY <1>4
  <2>2. f[k + 1] = IF k + 1 \in I THEN Append(f[k], seq[k + 1]) ELSE f[k]
    BY <1>2
  <2>3. CASE k + 1 \notin I
    <3>1. PickGood(f[k], seq, I, k + 1)
      BY <1>0, <2>1, <2>3, PickGoodSkip
    <3> QED
      BY <2>2, <2>3, <3>1
  <2>4. CASE k + 1 \in I
    <3>1. PickGood(Append(f[k], seq[k + 1]), seq, I, k + 1)
      BY <1>0, <2>1, <2>4, PickGoodTake
    <3> QED
      BY <2>2, <2>4, <3>1
  <2> QED
    BY <2>3, <2>4
<1> HIDE DEF S
<1>5. n \in S
  BY <1>3, <1>4, SetInduction
<1>6. PickGood(f[n], seq, I, n)
  BY <1>5 DEF S
<1> QED
  BY <1>1, <1>6

(* The levels of the headers and all levels before them, all of the        *)
(* parser's.                                                               *)
LEMMA NeededLevels ==
    ASSUME NEW parser, NEW s, Orders(NextLevels(parser), s), NEW headers
    PROVE  /\ HeaderLevels(parser, headers) \subseteq ProcLevels(parser, headers)
           /\ ProcLevels(parser, headers) \subseteq DOMAIN parser
           /\ \A l \in ProcLevels(parser, headers) :
                Preds(NextLevels(parser), l) \subseteq ProcLevels(parser, headers)
<1> DEFINE H == HeaderLevels(parser, headers)
           f == LevelLevels(parser)
           next == NextLevels(parser)
<1>1. H \subseteq DOMAIN parser
  BY DEF HeaderLevels
<1>2. \A l \in DOMAIN parser :
        /\ l \in f[l] /\ f[l] \subseteq DOMAIN parser
        /\ \A m \in f[l] : Preds(next, m) \subseteq f[l]
  BY LevelLevelsClosed
<1>3. ProcLevels(parser, headers) = UNION {f[l] : l \in H}
  BY DEF ProcLevels
<1> HIDE DEF H, f, next
<1>4. /\ H \subseteq UNION {f[l] : l \in H} /\ UNION {f[l] : l \in H} \subseteq DOMAIN parser
      /\ \A l \in UNION {f[k] : k \in H} : Preds(next, l) \subseteq UNION {f[k] : k \in H}
  BY <1>1, <1>2
<1> QED
  BY <1>3, <1>4 DEF H, next

(* What a stage parses itself.                                             *)
OwnLevels(next, need, x) == need[x] \ Common(next, TotalLevels(next, need), x)

(* A way of n stages through the pipeline, and what its first k parse.     *)
IsWay(next, way, n) ==
    /\ n \in Nat /\ n >= 1 /\ way \in [1 .. n -> DOMAIN next] /\ Preds(next, way[1]) = {}
    /\ \A i \in 1 .. n - 1 : way[i + 1] \in next[way[i]]

ParsedBy(next, need, way, k) == UNION {OwnLevels(next, need, way[h]) : h \in 1 .. k}

(* What has been parsed when a packet leaves a stage was parsed by the     *)
(* stages of the way on which it came, whatever that way was.              *)
LEMMA ParsedOnTheWay ==
    ASSUME NEW next, NEW need, NEW s, Orders(next, s), NEW n, NEW way, IsWay(next, way, n)
    PROVE  \A i \in 1 .. n :
             /\ TotalLevels(next, need)[way[i]] \subseteq ParsedBy(next, need, way, i)
             /\ Common(next, TotalLevels(next, need), way[i])
                  \subseteq ParsedBy(next, need, way, i - 1)
<1> DEFINE total == TotalLevels(next, need)
           Own(h) == OwnLevels(next, need, way[h])
           Com(i) == Common(next, total, way[i])
           Upto(k) == ParsedBy(next, need, way, k)
           S == {k \in Nat : k < n => /\ total[way[k + 1]] \subseteq Upto(k + 1)
                                      /\ Com(k + 1) \subseteq Upto(k)}
<1>0. /\ n \in Nat /\ n >= 1 /\ way \in [1 .. n -> DOMAIN next] /\ Preds(next, way[1]) = {}
      /\ \A i \in 1 .. n - 1 : way[i + 1] \in next[way[i]]
  BY DEF IsWay
<1>1. \A i \in 1 .. n : total[way[i]] = Com(i) \cup need[way[i]]
  BY <1>0, TotalLevelsValue
<1>2. \A i \in 1 .. n : need[way[i]] \subseteq Own(i) \cup Com(i)
  BY DEF OwnLevels
<1>3. \A i \in 1 .. n - 1 : Com(i + 1) \subseteq total[way[i]]
  <2> SUFFICES ASSUME NEW i \in 1 .. n - 1 PROVE Com(i + 1) \subseteq total[way[i]]
    OBVIOUS
  <2>1. i \in 1 .. n /\ way[i] \in DOMAIN next /\ way[i + 1] \in next[way[i]]
    BY <1>0
  <2>2. way[i] \in Preds(next, way[i + 1])
    BY <2>1 DEF Preds
  <2> HIDE DEF total
  <2> QED
    BY <2>2 DEF Common
<1>4. Com(1) = {}
  <2> HIDE DEF total
  <2> QED
    BY <1>0 DEF Common
<1>5. \A k \in Nat : Upto(k) \subseteq Upto(k + 1) /\ Own(k + 1) \subseteq Upto(k + 1)
  <2> HIDE DEF Own
  <2>1. \A k : Upto(k) = UNION {Own(h) : h \in 1 .. k}
    BY DEF ParsedBy, Own
  <2> HIDE DEF Upto
  <2> QED
    BY <2>1
<1> HIDE DEF total, Own, Com, Upto
<1>6. \A k \in Nat : k < n /\ Com(k + 1) \subseteq Upto(k) => total[way[k + 1]] \subseteq Upto(k + 1)
  <2> SUFFICES ASSUME NEW k \in Nat, k < n, Com(k + 1) \subseteq Upto(k)
               PROVE  total[way[k + 1]] \subseteq Upto(k + 1)
    OBVIOUS
  <2>1. k + 1 \in 1 .. n
    BY <1>0
  <2>2. /\ total[way[k + 1]] = Com(k + 1) \cup need[way[k + 1]]
        /\ need[way[k + 1]] \subseteq Own(k + 1) \cup Com(k + 1)
    BY <1>1, <1>2, <2>1
  <2>3. Upto(k) \subseteq Upto(k + 1) /\ Own(k + 1) \subseteq Upto(k + 1)
    BY <1>5
  <2> QED
    BY <2>2, <2>3, Zenon
<1>7. 0 \in S
  <2>1. Com(0 + 1) \subseteq Upto(0)
    BY <1>4
  <2>2. total[way[0 + 1]] \subseteq Upto(0 + 1)
    BY <1>0, <1>6, <2>1
  <2> QED
    BY <2>1, <2>2
<1>8. ASSUME NEW k \in Nat, k \in S PROVE k + 1 \in S
  <2> SUFFICES ASSUME k + 1 < n
               PROVE  /\ total[way[(k + 1) + 1]] \subseteq Upto((k + 1) + 1)
                      /\ Com((k + 1) + 1) \subseteq Upto(k + 1)
    OBVIOUS
  <2>1. k + 1 \in 1 .. n - 1 /\ k + 1 \in Nat /\ k < n
    BY <1>0
  <2>2. Com((k + 1) + 1) \subseteq total[way[k + 1]] /\ total[way[k + 1]] \subseteq Upto(k + 1)
    BY <1>3, <1>8, <2>1
  <2>3. Com((k + 1) + 1) \subseteq Upto(k + 1)
    BY <2>2
  <2> QED
    BY <1>6, <2>1, <2>3
<1> HIDE DEF S
<1>9. ASSUME NEW i \in 1 .. n PROVE total[way[i]] \subseteq Upto(i) /\ Com(i) \subseteq Upto(i - 1)
  <2>1. i - 1 \in Nat /\ i - 1 < n /\ (i - 1) + 1 = i
    BY <1>0
  <2>2. i - 1 \in S
    BY <1>7, <1>8, <2>1, SetInduction
  <2> QED
    BY <2>1, <2>2 DEF S
<1> QED
  BY <1>9 DEF total, Com, Upto

(* The levels are parsed when they are needed on a way.                    *)
WayReady(parser, H, d, way, n) ==
    /\ HeaderLevels(parser, H) \subseteq UNION {Elements(d[way[i]]) : i \in 1 .. n}
    /\ \A i \in 1 .. n : \A k \in DOMAIN d[way[i]] :
         \A l \in Preds(NextLevels(parser), d[way[i]][k]) :
            \/ \E h \in 1 .. i - 1 : l \in Elements(d[way[h]])
            \/ \E m \in 1 .. k - 1 : d[way[i]][m] = l

(* distributeParsers: a level is parsed after all levels before it.        *)
LEMMA DistributeReady ==
    ASSUME NEW parser, NEW next, NEW headers, NEW s, Orders(next, s),
           Orders(NextLevels(parser), topologicalSort(NextLevels(parser))),
           NEW d, d = distributeParsers(parser, next, headers),
           NEW n, NEW way, IsWay(next, way, n)
    PROVE  WayReady(parser, headers[way[n]], d, way, n)
<1> DEFINE before == NextLevels(parser)
           order == topologicalSort(before)
           need == [x \in DOMAIN next |-> ProcLevels(parser, headers[x])]
           Own(x) == OwnLevels(next, need, x)
           At(x) == {i \in DOMAIN order : order[i] \in Own(x)}
<1>0. n \in Nat /\ n >= 1 /\ way \in [1 .. n -> DOMAIN next]
  BY DEF IsWay
<1>1. \A x \in DOMAIN next : d[x] = Picked(order, At(x))
  BY DEF distributeParsers, OwnLevels
<1>2. Orders(before, order)
  OBVIOUS
<1>3. \A x \in DOMAIN next : need[x] = ProcLevels(parser, headers[x])
  OBVIOUS
<1>4. \A x \in DOMAIN next :
        /\ Own(x) \subseteq need[x]
        /\ need[x] \subseteq Own(x) \cup Common(next, TotalLevels(next, need), x)
  BY DEF OwnLevels
<1>5. \A i \in 1 .. n :
        /\ need[way[i]] \subseteq TotalLevels(next, need)[way[i]]
        /\ TotalLevels(next, need)[way[i]] \subseteq UNION {Own(way[h]) : h \in 1 .. i}
        /\ Common(next, TotalLevels(next, need), way[i])
             \subseteq UNION {Own(way[h]) : h \in 1 .. i - 1}
  <2> HIDE DEF need
  <2>1. \A x \in DOMAIN next : need[x] \subseteq TotalLevels(next, need)[x]
    BY TotalLevelsValue
  <2>2. \A i \in 1 .. n :
        /\ TotalLevels(next, need)[way[i]] \subseteq ParsedBy(next, need, way, i)
        /\ Common(next, TotalLevels(next, need), way[i])
             \subseteq ParsedBy(next, need, way, i - 1)
    BY ParsedOnTheWay
  <2>3. \A k : ParsedBy(next, need, way, k) = UNION {Own(way[h]) : h \in 1 .. k}
    BY DEF ParsedBy
  <2> HIDE DEF Own
  <2> QED
    BY <1>0, <2>1, <2>2, <2>3
<1>6. \A x \in DOMAIN next :
        /\ HeaderLevels(parser, headers[x]) \subseteq need[x]
        /\ need[x] \subseteq DOMAIN parser
        /\ \A l \in need[x] : Preds(before, l) \subseteq need[x]
  BY <1>2, <1>3, NeededLevels
<1> HIDE DEF need, Own, before, order
<1>7. DOMAIN before = DOMAIN parser
  BY DEF before, NextLevels
<1>8. /\ Len(order) \in Nat /\ DOMAIN order = 1 .. Len(order)
      /\ \A l \in DOMAIN parser : \E i \in 1 .. Len(order) : order[i] = l
      /\ \A i \in 1 .. Len(order) : \A l \in Preds(before, order[i]) :
           \E k \in 1 .. i - 1 : l = order[k]
  BY <1>2, <1>7 DEF Orders
<1>9. ASSUME NEW x \in DOMAIN next PROVE PickGood(d[x], order, At(x), Len(order))
  <2>1. At(x) \in SUBSET (1 .. Len(order))
    BY <1>8
  <2> HIDE DEF At
  <2> QED
    BY <1>1, <1>8, <2>1, PickedOrder
<1>10. ASSUME NEW x \in DOMAIN next
       PROVE  /\ Len(d[x]) \in Nat /\ DOMAIN d[x] = 1 .. Len(d[x])
              /\ Own(x) \subseteq Elements(d[x])
  <2>1. d[x] \in Seq({order[i] : i \in At(x)})
    BY <1>9 DEF PickGood
  <2>2. Len(d[x]) \in Nat /\ DOMAIN d[x] = 1 .. Len(d[x])
    <3> HIDE DEF At
    <3> QED
      BY <2>1
  <2>3. ASSUME NEW l \in Own(x) PROVE l \in Elements(d[x])
    <3>1. l \in DOMAIN parser
      BY <1>4, <1>6
    <3>2. PICK i \in 1 .. Len(order) : order[i] = l
      BY <1>8, <3>1
    <3>3. i \in At(x) /\ i <= Len(order)
      BY <1>8, <3>2
    <3>4. \E m \in 1 .. Len(d[x]) : d[x][m] = order[i]
      BY <1>9, <3>3 DEF PickGood
    <3> QED
      BY <2>2, <3>2, <3>4 DEF Elements
  <2> QED
    BY <2>2, <2>3
<1>11. HeaderLevels(parser, headers[way[n]]) \subseteq UNION {Elements(d[way[i]]) : i \in 1 .. n}
  <2>1. n \in 1 .. n /\ way[n] \in DOMAIN next
    BY <1>0
  <2>2. HeaderLevels(parser, headers[way[n]]) \subseteq UNION {Own(way[h]) : h \in 1 .. n}
    BY <1>5, <1>6, <2>1
  <2>3. \A h \in 1 .. n : Own(way[h]) \subseteq Elements(d[way[h]])
    BY <1>0, <1>10
  <2> QED
    BY <2>2, <2>3
<1>12. ASSUME NEW i \in 1 .. n, NEW k \in DOMAIN d[way[i]],
              NEW l \in Preds(before, d[way[i]][k])
       PROVE  \/ \E h \in 1 .. i - 1 : l \in Elements(d[way[h]])
              \/ \E m \in 1 .. k - 1 : d[way[i]][m] = l
  <2> DEFINE x == way[i]
  <2>1. x \in DOMAIN next /\ k \in 1 .. Len(d[x])
    BY <1>0, <1>10
  <2> HIDE DEF x
  <2>2. PICK a \in At(x) : /\ d[x][k] = order[a]
                           /\ \A j \in At(x) : j < a => \E m \in 1 .. k - 1 : d[x][m] = order[j]
    BY <1>9, <2>1 DEF PickGood
  <2>3. a \in 1 .. Len(order) /\ order[a] \in Own(x)
    BY <1>8
  <2>4. l \in Preds(before, order[a])
    BY <2>2 DEF x
  <2>5. l \in need[x]
    BY <1>4, <1>6, <2>1, <2>3, <2>4
  <2>6. CASE l \in Own(x)
    <3>1. PICK j \in 1 .. a - 1 : l = order[j]
      BY <1>8, <2>3, <2>4
    <3>2. j \in At(x) /\ j < a
      BY <1>8, <2>3, <2>6, <3>1
    <3> QED
      BY <2>2, <3>1, <3>2 DEF x
  <2>7. CASE l \notin Own(x)
    <3>1. l \in Common(next, TotalLevels(next, need), x)
      BY <1>4, <2>1, <2>5, <2>7
    <3>2. PICK h \in 1 .. i - 1 : l \in Own(way[h])
      BY <1>5, <3>1 DEF x
    <3>3. way[h] \in DOMAIN next
      BY <1>0
    <3>4. l \in Elements(d[way[h]])
      BY <1>10, <3>2, <3>3
    <3> QED
      BY <3>4
  <2> QED
    BY <2>6, <2>7
<1> QED
  BY <1>11, <1>12 DEF before, WayReady

-----------------------------------------------------------------------------
(***************************************************************************)
(* What allocateParsers has distributed stays until the program changes.   *)
(***************************************************************************)
LevelInv ==
    Sorted =>
        /\ levels = distributeParsers(prog.parser, NextStages,
                                      [x \in DOMAIN stages |-> stages[x].headers])
        /\ Acyclic(NextStages) /\ Acyclic(NextLevels(prog.parser))

LEMMA LevelStep == CompilerInv /\ LevelInv /\ [Next]_vars => LevelInv'
<1> SUFFICES ASSUME CompilerInv, LevelInv, [Next]_vars, Sorted' PROVE LevelInv'
  BY DEF LevelInv
<1>1. CASE AllocateParsers
  <2>1. UNCHANGED <<prog, stages>> /\ NextStages' = NextStages
    BY <1>1 DEF AllocateParsers, stageVars, NextStages
  <2>2. /\ levels' = distributeParsers(prog.parser, NextStages,
                                       [x \in DOMAIN stages |-> stages[x].headers])
        /\ Acyclic(NextStages) /\ Acyclic(NextLevels(prog.parser))
    BY <1>1 DEF AllocateParsers
  <2>3. PICK p, q, g : p = prog.parser /\ q = NextStages
                       /\ g = [x \in DOMAIN stages |-> stages[x].headers]
    OBVIOUS
  <2>4. /\ prog'.parser = p /\ NextStages' = q
        /\ [x \in DOMAIN stages' |-> stages'[x].headers] = g
    BY <2>1, <2>3
  <2>5. levels' = distributeParsers(p, q, g) /\ Acyclic(q) /\ Acyclic(NextLevels(p))
    BY <2>2, <2>3
  <2> QED
    BY <2>4, <2>5 DEF LevelInv
<1>2. CASE ~AllocateParsers
  <2>1. Sorted /\ UNCHANGED <<prog, stages, levels>>
    <3>1. CASE EmitTask \/ RemoveEmpty \/ Renumber
      <4>1. phase' \in {"remove", "parsers"}
        BY <3>1 DEF EmitTask, Load, RemoveEmpty, Renumber
      <4> QED
        BY <4>1 DEF Sorted, Done
    <3>2. CASE RenumberDead \/ AllocateParsersDead \/ BuildProcessorDead
      <4>1. phase' = "dead"
        BY <3>2 DEF RenumberDead, AllocateParsersDead, BuildProcessorDead, Dead
      <4> QED
        BY <4>1 DEF Sorted, Done
    <3>3. CASE UNCHANGED vars
      BY <3>3 DEF vars, sessionVars, stageVars, levelVars, Sorted, Done
    <3>4. CASE \/ PlaceStage \/ Placed \/ SetConfig \/ NextConfig \/ Configured \/ KeepMemory
               \/ KeepFails \/ NewTable \/ KeepDone \/ BuildProcessor \/ Output
      <4>1. phase \in {"keep", "new", "place", "config", "build"}
        BY <3>4 DEF PlaceStage, Placed, SetConfig, NextConfig, Configured, KeepMemory, KeepFails,
               NewTable, KeepDone, BuildProcessor, Output
      <4>2. UNCHANGED <<prog, stages, levels>>
        BY <3>4 DEF PlaceStage, Placed, SetConfig, NextConfig, Configured, KeepMemory, KeepFails,
               NewTable, KeepDone, BuildProcessor, Output, stageVars, levelVars
      <4> QED
        BY <4>1, <4>2 DEF Sorted
    <3> QED
      BY <1>2, <3>1, <3>2, <3>3, <3>4 DEF Next
  <2>2. NextStages' = NextStages
    BY <2>1 DEF NextStages
  <2>3. /\ levels = distributeParsers(prog.parser, NextStages,
                                      [x \in DOMAIN stages |-> stages[x].headers])
        /\ Acyclic(NextStages) /\ Acyclic(NextLevels(prog.parser))
    BY <2>1 DEF LevelInv
  <2>4. PICK p, q, g : p = prog.parser /\ q = NextStages
                       /\ g = [x \in DOMAIN stages |-> stages[x].headers]
    OBVIOUS
  <2>5. /\ prog'.parser = p /\ NextStages' = q
        /\ [x \in DOMAIN stages' |-> stages'[x].headers] = g
    BY <2>1, <2>2, <2>4
  <2>6. levels' = distributeParsers(p, q, g) /\ Acyclic(q) /\ Acyclic(NextLevels(p))
    BY <2>1, <2>3, <2>4
  <2> QED
    BY <2>5, <2>6 DEF LevelInv
<1> QED
  BY <1>1, <1>2

(* Whatever the program and the way a packet takes through its stages:     *)
(* when it comes to a stage, the levels of the headers that stage reads    *)
(* are parsed, each after the levels before it, by the stages on its way   *)
(* (distributeParsers, allocateParsers).                                   *)
THEOREM LevelsAreReady == Spec => []LevelsReady
<1>1. Init => LevelInv
  BY DEF Init, LevelInv, Sorted, Done
<1>2. CompilerInv /\ LevelInv => LevelsReady
  <2> SUFFICES ASSUME CompilerInv, LevelInv, Done PROVE LevelsReady
    BY DEF LevelsReady
  <2> DEFINE next == NextStages
             parser == prog.parser
             before == NextLevels(parser)
             headers == [x \in DOMAIN stages |-> stages[x].headers]
  <2>1. levels = distributeParsers(parser, next, headers) /\ Acyclic(next) /\ Acyclic(before)
    BY DEF LevelInv, Sorted
  <2>2. DOMAIN next = DOMAIN stages /\ DOMAIN stages \in SUBSET Nat /\ IsFiniteSet(DOMAIN stages)
    BY StageNumbers DEF CompilerInv
  <2>3. DOMAIN before \in SUBSET Nat /\ IsFiniteSet(DOMAIN before)
    BY DEF CompilerInv, StageInv, WellFormed, NextLevels
  <2>4. \A x \in DOMAIN stages : headers[x] = stages[x].headers
    OBVIOUS
  <2> HIDE DEF next, parser, before, headers
  <2>5. Orders(next, topologicalSort(next)) /\ Orders(before, topologicalSort(before))
    BY <2>1, <2>2, <2>3, SortOrders
  <2>6. ASSUME NEW n \in 1 .. Cardinality(DOMAIN stages), NEW way \in [1 .. n -> DOMAIN stages],
               Preds(next, way[1]) = {}, \A i \in 1 .. n - 1 : way[i + 1] \in next[way[i]]
        PROVE  /\ HeaderLevels(parser, stages[way[n]].headers)
                    \subseteq UNION {Elements(levels[way[i]]) : i \in 1 .. n}
               /\ \A i \in 1 .. n : \A k \in DOMAIN levels[way[i]] :
                    \A l \in Preds(before, levels[way[i]][k]) :
                       \/ \E h \in 1 .. i - 1 : l \in Elements(levels[way[h]])
                       \/ \E m \in 1 .. k - 1 : levels[way[i]][m] = l
    <3>1. n \in Nat /\ n >= 1
      <4>1. Cardinality(DOMAIN stages) \in Nat
        BY <2>2, FS_CardinalityType
      <4> QED
        BY <4>1
    <3>2. way \in [1 .. n -> DOMAIN next] /\ way[n] \in DOMAIN stages
      BY <2>2, <3>1
    <3>3. Orders(NextLevels(parser), topologicalSort(NextLevels(parser)))
      BY <2>5 DEF before
    <3>4. headers[way[n]] = stages[way[n]].headers
      BY <2>4, <3>2
    <3>5. WayReady(parser, headers[way[n]], levels, way, n)
      <4>1. IsWay(next, way, n)
        BY <2>6, <3>1, <3>2 DEF IsWay
      <4> QED
        BY <2>1, <2>5, <3>3, <4>1, DistributeReady
    <3> QED
      BY <3>4, <3>5 DEF before, WayReady
  <2> QED
    BY <2>6 DEF LevelsReady, next, parser, before
<1> QED
  BY <1>1, <1>2, LevelStep, Invariance, PTL DEF Spec


-----------------------------------------------------------------------------
(***************************************************************************)
(* Merging virtual stages.                                                 *)
(***************************************************************************)
(* What is passed from x on.                                               *)
Closed(to, S) == \A z \in S : z \in DOMAIN to => to[z] \in S
Orbit(nodes, to, x) == {y \in nodes : \A S \in SUBSET nodes : x \in S /\ Closed(to, S) => y \in S}

LEMMA OrbitSteps ==
    ASSUME NEW nodes, NEW to, \A z \in DOMAIN to : to[z] \in nodes, NEW x \in nodes
    PROVE  /\ x \in DOMAIN to => Orbit(nodes, to, x) = {x} \cup Orbit(nodes, to, to[x])
           /\ x \notin DOMAIN to => Orbit(nodes, to, x) = {x}
<1>1. x \in Orbit(nodes, to, x)
  BY DEF Orbit
<1>2. ASSUME x \notin DOMAIN to, NEW y \in Orbit(nodes, to, x) PROVE y = x
  <2>1. {x} \in SUBSET nodes /\ Closed(to, {x})
    BY <1>2 DEF Closed
  <2> QED
    BY <2>1 DEF Orbit
<1>3. ASSUME x \in DOMAIN to PROVE Orbit(nodes, to, x) = {x} \cup Orbit(nodes, to, to[x])
  <2> DEFINE O == Orbit(nodes, to, to[x])
             C == {x} \cup O
  <2>1. to[x] \in nodes /\ to[x] \in O
    BY <1>3 DEF Orbit
  <2>2. C \in SUBSET nodes
    BY DEF Orbit
  <2>3. Closed(to, O)
    BY DEF Orbit, Closed
  <2>4. Closed(to, C)
    <3> HIDE DEF O
    <3> QED
      BY <2>1, <2>3 DEF Closed
  <2>5. ASSUME NEW y \in Orbit(nodes, to, x) PROVE y \in C
    <3> HIDE DEF C
    <3>1. x \in C
      BY DEF C
    <3> QED
      BY <2>2, <2>4, <3>1 DEF Orbit
  <2>6. ASSUME NEW y \in O PROVE y \in Orbit(nodes, to, x)
    <3>1. ASSUME NEW S \in SUBSET nodes, x \in S, Closed(to, S) PROVE y \in S
      <4>1. to[x] \in S
        BY <1>3, <3>1 DEF Closed
      <4> QED
        BY <2>6, <3>1, <4>1 DEF Orbit
    <3>2. y \in nodes
      BY <2>6 DEF Orbit
    <3> QED
      BY <3>1, <3>2 DEF Orbit
  <2>7. \A y \in C : y \in Orbit(nodes, to, x)
    BY <1>1, <2>6
  <2> QED
    BY <2>5, <2>7
<1> QED
  BY <1>1, <1>2, <1>3

IsOnward(g, nodes, to, does) ==
    g = [x \in nodes |->
           IF x \notin DOMAIN to THEN [stop |-> x, did |-> {}]
           ELSE [stop |-> g[to[x]].stop, did |-> does[x] \cup g[to[x]].did]]

SomeOf(S) == CHOOSE y \in S : TRUE

(* There is such a way even where the nodes lead to each other in a        *)
(* circle.                                                                 *)
LEMMA OnwardExists ==
    ASSUME NEW nodes, NEW to, NEW does, DOMAIN to \subseteq nodes,
           \A z \in DOMAIN to : to[z] \in nodes
    PROVE  \E g : IsOnward(g, nodes, to, does)
<1> DEFINE O(x) == Orbit(nodes, to, x)
           Stop(x) == SomeOf(O(x) \ DOMAIN to)
           Did(x) == UNION {does[y] : y \in O(x) \cap DOMAIN to}
           h == [x \in nodes |-> [stop |-> Stop(x), did |-> Did(x)]]
<1>1. ASSUME NEW x \in nodes, x \notin DOMAIN to PROVE h[x] = [stop |-> x, did |-> {}]
  <2>1. O(x) = {x}
    BY <1>1, OrbitSteps
  <2>2. O(x) \ DOMAIN to = {x} /\ O(x) \cap DOMAIN to = {}
    BY <1>1, <2>1
  <2> HIDE DEF O
  <2>3. Stop(x) = x
    BY <2>2 DEF SomeOf
  <2>4. Did(x) = {}
    BY <2>2
  <2> QED
    BY <2>3, <2>4
<1>2. ASSUME NEW x \in nodes, x \in DOMAIN to
      PROVE  h[x] = [stop |-> h[to[x]].stop, did |-> does[x] \cup h[to[x]].did]
  <2>1. O(x) = {x} \cup O(to[x]) /\ to[x] \in nodes
    BY <1>2, OrbitSteps
  <2>2. O(x) \ DOMAIN to = O(to[x]) \ DOMAIN to
    BY <1>2, <2>1
  <2>3. O(x) \cap DOMAIN to = {x} \cup (O(to[x]) \cap DOMAIN to)
    BY <1>2, <2>1
  <2> HIDE DEF O
  <2>4. Stop(x) = Stop(to[x])
    BY <2>2
  <2>5. Did(x) = does[x] \cup Did(to[x])
    <3> DEFINE A == O(to[x]) \cap DOMAIN to
               B == O(x) \cap DOMAIN to
    <3>1. B = {x} \cup A
      BY <2>3
    <3> HIDE DEF A, B
    <3>2. UNION {does[y] : y \in B} = does[x] \cup UNION {does[y] : y \in A}
      BY <3>1
    <3> QED
      BY <3>2 DEF A, B
  <2> HIDE DEF Stop, Did
  <2> QED
    BY <2>1, <2>4, <2>5
<1>3. h = [x \in nodes |-> h[x]]
  OBVIOUS
<1> HIDE DEF h
<1>4. h = [x \in nodes |->
             IF x \notin DOMAIN to THEN [stop |-> x, did |-> {}]
             ELSE [stop |-> h[to[x]].stop, did |-> does[x] \cup h[to[x]].did]]
  BY <1>1, <1>2, <1>3
<1> QED
  BY <1>4 DEF IsOnward

LEMMA OnwardValue ==
    ASSUME NEW nodes, NEW to, NEW does, DOMAIN to \subseteq nodes,
           \A z \in DOMAIN to : to[z] \in nodes, NEW w, w = Onward(nodes, to, does)
    PROVE  \A x \in nodes :
             /\ x \notin DOMAIN to => w[x].stop = x /\ w[x].did = {}
             /\ x \in DOMAIN to => /\ w[x].stop = w[to[x]].stop
                                   /\ w[x].did = does[x] \cup w[to[x]].did
<1> DEFINE f == CHOOSE g : g = [x \in nodes |->
                  IF x \notin DOMAIN to THEN [stop |-> x, did |-> {}]
                  ELSE [stop |-> g[to[x]].stop, did |-> does[x] \cup g[to[x]].did]]
<1>1. Onward(nodes, to, does) = f
  BY DEF Onward
<1>2. f = [x \in nodes |->
             IF x \notin DOMAIN to THEN [stop |-> x, did |-> {}]
             ELSE [stop |-> f[to[x]].stop, did |-> does[x] \cup f[to[x]].did]]
  <2>1. \E g : IsOnward(g, nodes, to, does)
    BY OnwardExists
  <2> QED
    BY <2>1, Zenon DEF IsOnward
<1> HIDE DEF f
<1>3. \A x \in nodes : f[x] =
             IF x \notin DOMAIN to THEN [stop |-> x, did |-> {}]
             ELSE [stop |-> f[to[x]].stop, did |-> does[x] \cup f[to[x]].did]
  BY <1>2
<1>4. ASSUME NEW x \in nodes
      PROVE  /\ x \notin DOMAIN to => f[x].stop = x /\ f[x].did = {}
             /\ x \in DOMAIN to => /\ f[x].stop = f[to[x]].stop
                                   /\ f[x].did = does[x] \cup f[to[x]].did
  <2>1. CASE x \notin DOMAIN to
    <3>1. f[x] = [stop |-> x, did |-> {}]
      BY <1>3, <2>1
    <3> QED
      BY <2>1, <3>1
  <2>2. CASE x \in DOMAIN to
    <3>1. f[x] = [stop |-> f[to[x]].stop, did |-> does[x] \cup f[to[x]].did]
      BY <1>3, <2>2
    <3> QED
      BY <2>2, <3>1
  <2> QED
    BY <2>1, <2>2
<1>5. w = f
  BY <1>1
<1> QED
  BY <1>4, <1>5

(* Where entry i of stage r leads and what it assigns: now, and in the     *)
(* program as it was parsed.                                               *)
To(r, i) == acts[r][i].next
ToFirst(r, i) == prog.stage[r].acts[i].next
Does(r, i) == prims[prog.stage[r].acts[i].act]
DoesFirst(r, i) == prog.prims[prog.stage[r].acts[i].act]

(* Merging changes no entry but for what it assigns and where it leads.    *)
ActsKept ==
    /\ DOMAIN acts = DOMAIN prog.stage
    /\ \A r \in DOMAIN prog.stage :
         /\ DOMAIN acts[r] = DOMAIN prog.stage[r].acts
         /\ \A i \in DOMAIN prog.stage[r].acts :
              /\ acts[r][i] \in [act : DOMAIN prog.prims, next : DOMAIN prog.stage \cup {None}]
              /\ acts[r][i].act = prog.stage[r].acts[i].act
    /\ DOMAIN prims = DOMAIN prog.prims
    /\ \A a \in DOMAIN prog.prims : prog.prims[a] \subseteq prims[a]
    /\ removed \subseteq VirtualStages
    /\ phase = "remove" => \A s \in removed : s < cursor

(* On the way from an entry the same is assigned, and the same stage is    *)
(* reached, as in the program.                                             *)
WaysKept ==
    OwnActions => \A r \in DOMAIN prog.stage : \A i \in DOMAIN prog.stage[r].acts :
        /\ Way[To(r, i)].stop = Way[ToFirst(r, i)].stop
        /\ Does(r, i) \cup Way[To(r, i)].did = DoesFirst(r, i) \cup Way[ToFirst(r, i)].did

(* An entry that leads to a merged stage has its assignments; so has a     *)
(* virtual stage that led to it, from which others may take them.          *)
HandedOn ==
    OwnActions /\ NoChain =>
        /\ \A r \in Kept : \A i \in DOMAIN prog.stage[r].acts :
              To(r, i) \in removed => DoesFirst(To(r, i), 1) \subseteq Does(r, i)
        /\ \A v \in VirtualStages \cap Kept :
              ToFirst(v, 1) \in removed => DoesFirst(ToFirst(v, 1), 1) \subseteq Does(v, 1)

(* A virtual stage leads to a stage the loop has not come to as it did.    *)
Untouched ==
    phase = "remove" => \A v \in VirtualStages :
        ToFirst(v, 1) = None \/ ToFirst(v, 1) >= cursor => To(v, 1) = ToFirst(v, 1)

(* The stages that are left lead where their entries lead, or past a       *)
(* merged stage.                                                           *)
Onto(n) == IF n \in removed THEN ToFirst(n, 1) ELSE n

Linked ==
    phase \notin {"remove", "dead"} => \A x \in DOMAIN stages :
        /\ stages[x].from \in Kept
        /\ DOMAIN stages[x].acts = DOMAIN acts[stages[x].from]
        /\ \A i \in DOMAIN stages[x].acts :
             /\ stages[x].acts[i].act = acts[stages[x].from][i].act
             /\ NoChain => From(stages[x].acts[i].next) = Onto(acts[stages[x].from][i].next)

MergeInv == ActsKept /\ WaysKept /\ HandedOn /\ Untouched /\ Linked

(* The stages are numbers, their entries lead to stages or None.           *)
LEMMA ProgramFacts ==
    ASSUME WellFormed(prog)
    PROVE  /\ DOMAIN prog.stage \subseteq Nat /\ None \notin DOMAIN prog.stage
           /\ \A r \in DOMAIN prog.stage : \A i \in DOMAIN prog.stage[r].acts :
                /\ prog.stage[r].acts[i] \in
                     [act : DOMAIN prog.prims, next : DOMAIN prog.stage \cup {None}]
                /\ ToFirst(r, i) \in DOMAIN prog.stage \cup {None}
           /\ VirtualStages \subseteq DOMAIN prog.stage
           /\ \A v \in VirtualStages :
                /\ DOMAIN prog.stage[v].acts = {1}
                /\ Goto(v) = ToFirst(v, 1) /\ VirtualAction(v) = prog.stage[v].acts[1].act
<1>1. DOMAIN prog.stage \subseteq Nat /\ None \notin DOMAIN prog.stage
  <2>1. IsFiniteSet(DOMAIN prog.stage)
        /\ DOMAIN prog.stage = 0 .. Cardinality(DOMAIN prog.stage) - 1
    BY DEF WellFormed
  <2>2. Cardinality(DOMAIN prog.stage) \in Nat
    BY <2>1, FS_CardinalityType
  <2> QED
    BY <2>1, <2>2 DEF None
<1> DEFINE E == [act : DOMAIN prog.prims, next : DOMAIN prog.stage \cup {None}]
<1>2. \A r \in DOMAIN prog.stage : prog.stage[r].acts \in Seq(E)
  BY DEF WellFormed
<1>3. ASSUME NEW r \in DOMAIN prog.stage, NEW i \in DOMAIN prog.stage[r].acts
      PROVE  prog.stage[r].acts[i] \in E
  <2>1. prog.stage[r].acts \in Seq(E)
    BY <1>2
  <2> HIDE DEF E
  <2> QED
    BY <2>1
<1>4. \A r \in DOMAIN prog.stage : \A i \in DOMAIN prog.stage[r].acts :
        ToFirst(r, i) \in DOMAIN prog.stage \cup {None}
  BY <1>3 DEF ToFirst
<1>5. ASSUME NEW v \in VirtualStages PROVE DOMAIN prog.stage[v].acts = {1}
  <2>1. v \in DOMAIN prog.stage /\ Len(prog.stage[v].acts) = 1
    BY DEF VirtualStages, Virtual
  <2>2. prog.stage[v].acts \in Seq(E)
    BY <1>2, <2>1
  <2> HIDE DEF E
  <2> QED
    BY <2>1, <2>2
<1>6. \A v : Goto(v) = ToFirst(v, 1) /\ VirtualAction(v) = prog.stage[v].acts[1].act
  BY DEF Goto, ToFirst, VirtualAction
<1>7. VirtualStages \subseteq DOMAIN prog.stage
  BY DEF VirtualStages
<1> QED
  BY <1>1, <1>3, <1>4, <1>5, <1>6, <1>7

(* The way through the program.                                            *)
LEMMA WayFacts ==
    ASSUME WellFormed(prog)
    PROVE  /\ \A s \in DOMAIN prog.stage \cup {None} : s \notin VirtualStages =>
                Way[s].stop = s /\ Way[s].did = {}
           /\ \A s \in VirtualStages :
                /\ Way[s].stop = Way[ToFirst(s, 1)].stop
                /\ Way[s].did = DoesFirst(s, 1) \cup Way[ToFirst(s, 1)].did
<1> DEFINE nodes == DOMAIN prog.stage \cup {None}
           to == [s \in VirtualStages |-> Goto(s)]
           does == [s \in VirtualStages |-> prog.prims[VirtualAction(s)]]
<1>1. DOMAIN to \subseteq nodes /\ \A z \in DOMAIN to : to[z] \in nodes
  BY ProgramFacts
<1>2. Way = Onward(nodes, to, does)
  BY DEF Way
<1>3. DOMAIN to = VirtualStages /\ \A s \in VirtualStages : to[s] = ToFirst(s, 1) /\ does[s] = DoesFirst(s, 1)
  BY ProgramFacts DEF DoesFirst
<1>4. VirtualStages \subseteq nodes
  BY <1>1
<1> HIDE DEF nodes, to, does
<1>5. \A x \in nodes :
        /\ x \notin DOMAIN to => Way[x].stop = x /\ Way[x].did = {}
        /\ x \in DOMAIN to => /\ Way[x].stop = Way[to[x]].stop
                              /\ Way[x].did = does[x] \cup Way[to[x]].did
  BY <1>1, <1>2, OnwardValue
<1> QED
  BY <1>3, <1>4, <1>5 DEF nodes

(* Only the program decides on the way through it.                         *)
LEMMA WayFrame ==
    ASSUME prog' = prog
    PROVE  /\ VirtualStages' = VirtualStages /\ Way' = Way /\ (OwnActions' <=> OwnActions)
           /\ \A r, i : ToFirst(r, i)' = ToFirst(r, i) /\ DoesFirst(r, i)' = DoesFirst(r, i)
<1>1. VirtualStages' = VirtualStages
  BY DEF VirtualStages, Virtual
<1>2. \A r, i : ToFirst(r, i)' = ToFirst(r, i) /\ DoesFirst(r, i)' = DoesFirst(r, i)
  BY DEF ToFirst, DoesFirst
<1>3. OwnActions' <=> OwnActions
  BY DEF OwnActions, AllEntries, EntryAct
<1>4. Way' = Way
  <2>1. PICK to, does, nodes :
          /\ nodes = DOMAIN prog.stage \cup {None}
          /\ to = [s \in VirtualStages |-> Goto(s)]
          /\ does = [s \in VirtualStages |-> prog.prims[VirtualAction(s)]]
    OBVIOUS
  <2>2. /\ DOMAIN prog'.stage \cup {None} = nodes
        /\ [s \in VirtualStages' |-> Goto(s)'] = to
        /\ [s \in VirtualStages' |-> prog'.prims[VirtualAction(s)']] = does
    BY <1>1, <2>1 DEF Goto, VirtualAction
  <2>3. Way = Onward(nodes, to, does)
    BY <2>1 DEF Way
  <2>4. Way' = Onward(nodes, to, does)
    BY <2>2 DEF Way
  <2> QED
    BY <2>3, <2>4
<1> QED
  BY <1>1, <1>2, <1>3, <1>4

(* One turn of the loop over a virtual stage: it is joined to the entries  *)
(* J.                                                                      *)
MergeStep(J) ==
    /\ prog' = prog /\ cursor \in VirtualStages /\ cursor' = cursor + 1
    /\ \A r \in DOMAIN prog.stage : \A i \in DOMAIN prog.stage[r].acts :
         /\ <<r, i>> \in J => /\ r \notin removed /\ To(r, i) = cursor
                              /\ To(r, i)' = ToFirst(cursor, 1)
         /\ <<r, i>> \notin J => To(r, i)' = To(r, i)
         /\ OwnActions => Does(r, i)' = IF <<r, i>> \in J THEN Does(r, i) \cup Does(cursor, 1)
                                        ELSE Does(r, i)
    /\ \/ removed' = removed
       \/ /\ removed' = removed \cup {cursor}
          /\ \A r \in Kept : \A i \in DOMAIN prog.stage[r].acts :
               To(r, i) = cursor => <<r, i>> \in J

(* The entries that lead to a stage.                                       *)
LEMMA LeadToPairs ==
    ASSUME ActsKept, NEW s
    PROVE  /\ \A e \in LeadTo(s) : \E r \in Kept : \E i \in DOMAIN prog.stage[r].acts :
                e = <<r, i>> /\ To(r, i) = s
           /\ \A r \in Kept : \A i \in DOMAIN prog.stage[r].acts :
                To(r, i) = s => <<r, i>> \in LeadTo(s)
<1>1. DOMAIN acts = DOMAIN prog.stage
      /\ \A r \in DOMAIN prog.stage : DOMAIN acts[r] = DOMAIN prog.stage[r].acts
  BY DEF ActsKept
<1>2. ASSUME NEW e \in LeadTo(s)
      PROVE  \E r \in Kept : \E i \in DOMAIN prog.stage[r].acts : e = <<r, i>> /\ To(r, i) = s
  <2>1. PICK r \in DOMAIN acts \ removed : e \in {r} \X DOMAIN acts[r]
    BY DEF LeadTo
  <2>2. PICK i \in DOMAIN acts[r] : e = <<r, i>>
    BY <2>1
  <2>3. acts[r][i].next = s
    BY <2>2 DEF LeadTo
  <2> QED
    BY <1>1, <2>2, <2>3 DEF Kept, To
<1>3. ASSUME NEW r \in Kept, NEW i \in DOMAIN prog.stage[r].acts, To(r, i) = s
      PROVE  <<r, i>> \in LeadTo(s)
  <2>1. r \in DOMAIN acts \ removed /\ i \in DOMAIN acts[r]
    BY <1>1 DEF Kept
  <2>2. <<r, i>> \in {r} \X DOMAIN acts[r]
    BY <2>1
  <2>3. <<r, i>> \in UNION {{q} \X DOMAIN acts[q] : q \in DOMAIN acts \ removed}
    BY <2>1, <2>2
  <2>4. acts[<<r, i>>[1]][<<r, i>>[2]].next = s
    BY <1>3 DEF To
  <2> QED
    BY <2>3, <2>4 DEF LeadTo
<1> QED
  BY <1>2, <1>3

(* An action that is run by one entry only.                                *)
LEMMA OwnAction ==
    ASSUME OwnActions, NEW r \in DOMAIN prog.stage, NEW i \in DOMAIN prog.stage[r].acts,
           NEW q \in DOMAIN prog.stage, NEW k \in DOMAIN prog.stage[q].acts,
           prog.stage[r].acts[i].act = prog.stage[q].acts[k].act
    PROVE  <<r, i>> = <<q, k>>
<1>1. <<r, i>> \in AllEntries /\ <<q, k>> \in AllEntries
  BY DEF AllEntries
<1>2. EntryAct(<<r, i>>) = EntryAct(<<q, k>>)
  BY DEF EntryAct
<1> QED
  BY <1>1, <1>2 DEF OwnActions

(* removeEmptyStages, for a virtual stage.                                 *)
LEMMA VirtualStep ==
    ASSUME CompilerInv, ActsKept, RemoveEmpty, Virtual(prog, cursor)
    PROVE  /\ \E J : MergeStep(J)
           /\ ActsKept'
<1> DEFINE c == cursor
           J == {e \in LeadTo(c) : CanConcat(c, e)}
<1>1. /\ phase = "remove" /\ phase' = "remove" /\ c \in DOMAIN prog.stage /\ cursor' = c + 1 /\ prog' = prog
      /\ acts' = [r \in DOMAIN acts |-> [i \in DOMAIN acts[r] |->
                    IF <<r, i>> \in J THEN [acts[r][i] EXCEPT !.next = Goto(c)] ELSE acts[r][i]]]
      /\ prims' = [a \in DOMAIN prims |->
                     IF \E e \in J : ActOf(e) = a
                     THEN prims[a] \cup prims[VirtualAction(c)]
                     ELSE prims[a]]
      /\ removed' = IF Removable(c, J) THEN removed \cup {c} ELSE removed
  BY DEF RemoveEmpty
<1>2. WellFormed(prog) /\ removed \subseteq DOMAIN prog.stage
  BY DEF CompilerInv, StageInv, TypeOK
<1>3. /\ c \in VirtualStages /\ c \in Nat /\ ToFirst(c, 1) \in DOMAIN prog.stage \cup {None}
      /\ Goto(c) = ToFirst(c, 1) /\ VirtualAction(c) = prog.stage[c].acts[1].act
      /\ 1 \in DOMAIN prog.stage[c].acts
  <2>1. c \in VirtualStages
    BY <1>1 DEF VirtualStages
  <2> QED
    BY <1>1, <1>2, <2>1, ProgramFacts
<1>4. J \subseteq LeadTo(c)
  OBVIOUS
<1> HIDE DEF J, c
<1>5. \A e \in J : \E r \in Kept : \E i \in DOMAIN prog.stage[r].acts :
        e = <<r, i>> /\ To(r, i) = c
  BY <1>4, LeadToPairs
<1>6. ASSUME NEW r \in DOMAIN prog.stage, NEW i \in DOMAIN prog.stage[r].acts
      PROVE  /\ r \in DOMAIN acts /\ i \in DOMAIN acts[r]
             /\ acts[r][i] \in [act : DOMAIN prog.prims, next : DOMAIN prog.stage \cup {None}]
             /\ acts[r][i].act = prog.stage[r].acts[i].act
  BY DEF ActsKept
<1>7. ASSUME NEW r \in DOMAIN prog.stage, NEW i \in DOMAIN prog.stage[r].acts
      PROVE  /\ <<r, i>> \in J => /\ r \notin removed /\ To(r, i) = c
                                  /\ acts'[r][i].next = ToFirst(c, 1)
             /\ <<r, i>> \notin J => acts'[r][i].next = To(r, i)
             /\ acts'[r][i] \in [act : DOMAIN prog.prims, next : DOMAIN prog.stage \cup {None}]
             /\ acts'[r][i].act = prog.stage[r].acts[i].act
  <2>1. acts'[r][i] = IF <<r, i>> \in J THEN [acts[r][i] EXCEPT !.next = Goto(c)] ELSE acts[r][i]
    BY <1>1, <1>6
  <2>2. CASE <<r, i>> \in J
    <3>1. r \notin removed /\ To(r, i) = c
      <4>0. PICK q \in Kept : \E k \in DOMAIN prog.stage[q].acts :
              <<r, i>> = <<q, k>> /\ To(q, k) = c
        BY <1>5, <2>2
      <4>1. PICK k \in DOMAIN prog.stage[q].acts : <<r, i>> = <<q, k>> /\ To(q, k) = c
        BY <4>0
      <4>2. r = q /\ i = k
        BY <4>1
      <4> QED
        BY <4>1, <4>2 DEF Kept
    <3>2. acts'[r][i] = [acts[r][i] EXCEPT !.next = ToFirst(c, 1)]
      BY <1>3, <2>1, <2>2
    <3>3. /\ acts'[r][i] \in [act : DOMAIN prog.prims, next : DOMAIN prog.stage \cup {None}]
          /\ acts'[r][i].act = acts[r][i].act /\ acts'[r][i].next = ToFirst(c, 1)
      BY <1>3, <1>6, <3>2
    <3> QED
      BY <1>6, <2>2, <3>1, <3>3
  <2>3. CASE <<r, i>> \notin J
    BY <1>6, <2>1, <2>3 DEF To
  <2> QED
    BY <2>2, <2>3
<1>8. \A a \in DOMAIN prog.prims : prims'[a] = IF \E e \in J : ActOf(e) = a
                                               THEN prims[a] \cup prims[VirtualAction(c)]
                                               ELSE prims[a]
  BY <1>1 DEF ActsKept
<1>9. ASSUME OwnActions, NEW r \in DOMAIN prog.stage, NEW i \in DOMAIN prog.stage[r].acts
      PROVE  Does(r, i)' = IF <<r, i>> \in J THEN Does(r, i) \cup Does(c, 1) ELSE Does(r, i)
  <2> DEFINE a == prog.stage[r].acts[i].act
  <2>1. a \in DOMAIN prog.prims
    BY <1>6
  <2>2. (\E e \in J : ActOf(e) = a) <=> <<r, i>> \in J
    <3>1. ASSUME NEW e \in J, ActOf(e) = a PROVE <<r, i>> \in J
      <4>0. PICK q \in Kept : \E k \in DOMAIN prog.stage[q].acts : e = <<q, k>>
        BY <1>5
      <4>1. PICK k \in DOMAIN prog.stage[q].acts : e = <<q, k>>
        BY <4>0
      <4>2. q \in DOMAIN prog.stage /\ ActOf(e) = prog.stage[q].acts[k].act
        BY <1>6, <4>1 DEF Kept, ActOf
      <4>3. <<r, i>> = <<q, k>>
        <5>1. q \in DOMAIN prog.stage /\ k \in DOMAIN prog.stage[q].acts
          BY <4>2
        <5>2. prog.stage[r].acts[i].act = prog.stage[q].acts[k].act
          BY <3>1, <4>2
        <5> QED
          BY <1>9, <5>1, <5>2, OwnAction
      <4> QED
        BY <4>1, <4>3
    <3>2. ASSUME <<r, i>> \in J PROVE ActOf(<<r, i>>) = a
      BY <1>6 DEF ActOf
    <3> QED
      BY <3>1, <3>2
  <2>3. Does(r, i)' = prims'[a]
    BY <1>1 DEF Does
  <2>4. Does(r, i) = prims[a] /\ Does(c, 1) = prims[VirtualAction(c)]
    BY <1>3 DEF Does
  <2> QED
    BY <1>8, <2>1, <2>2, <2>3, <2>4
<1>10. \/ removed' = removed
       \/ /\ removed' = removed \cup {c}
          /\ \A r \in Kept : \A i \in DOMAIN prog.stage[r].acts :
               To(r, i) = c => <<r, i>> \in J
  <2>1. CASE J = LeadTo(c)
    BY <1>1, <2>1, LeadToPairs DEF Removable
  <2>2. CASE J # LeadTo(c)
    BY <1>1, <2>2 DEF Removable
  <2> QED
    BY <2>1, <2>2
<1>11. \A r \in DOMAIN prog.stage : \A i \in DOMAIN prog.stage[r].acts : To(r, i)' = acts'[r][i].next
  BY DEF To
<1>12. MergeStep(J)
  <2>1. ASSUME NEW r \in DOMAIN prog.stage, NEW i \in DOMAIN prog.stage[r].acts
        PROVE  /\ <<r, i>> \in J => /\ r \notin removed /\ To(r, i) = c
                                    /\ To(r, i)' = ToFirst(c, 1)
               /\ <<r, i>> \notin J => To(r, i)' = To(r, i)
    BY <1>7, <1>11
  <2>2. prog' = prog /\ c \in VirtualStages /\ cursor' = c + 1
    BY <1>1, <1>3
  <2> QED
    BY <1>9, <1>10, <2>1, <2>2 DEF MergeStep, c
<1>13. ActsKept'
  <2>1. VirtualStages' = VirtualStages
    BY <1>1, WayFrame
  <2>2. /\ DOMAIN acts' = DOMAIN prog'.stage
        /\ \A r \in DOMAIN prog'.stage : DOMAIN acts'[r] = DOMAIN prog'.stage[r].acts
    BY <1>1 DEF ActsKept
  <2>3. /\ DOMAIN prims' = DOMAIN prog'.prims
        /\ \A a \in DOMAIN prog'.prims : prog'.prims[a] \subseteq prims'[a]
    <3>1. \A a \in DOMAIN prog.prims : prims[a] \subseteq prims'[a]
      BY <1>8
    <3> QED
      BY <1>1, <3>1 DEF ActsKept
  <2>4. removed' \subseteq VirtualStages' /\ \A s \in removed' : s < cursor'
    <3>1. removed \subseteq VirtualStages /\ \A s \in removed : s < c
      BY <1>1 DEF ActsKept, c
    <3>2. \A s \in removed : s \in Nat
      BY <1>2, ProgramFacts
    <3> QED
      BY <1>1, <1>3, <1>10, <2>1, <3>1, <3>2
  <2>5. \A r \in DOMAIN prog'.stage : \A i \in DOMAIN prog'.stage[r].acts :
          /\ acts'[r][i] \in [act : DOMAIN prog'.prims, next : DOMAIN prog'.stage \cup {None}]
          /\ acts'[r][i].act = prog'.stage[r].acts[i].act
    <3>1. \A r \in DOMAIN prog.stage : \A i \in DOMAIN prog.stage[r].acts :
            /\ acts'[r][i] \in [act : DOMAIN prog.prims, next : DOMAIN prog.stage \cup {None}]
            /\ acts'[r][i].act = prog.stage[r].acts[i].act
      BY <1>7
    <3>2. prog' = prog
      BY <1>1
    <3> QED
      BY <3>1, <3>2, Zenon
  <2> QED
    BY <2>2, <2>3, <2>4, <2>5 DEF ActsKept
<1> QED
  BY <1>12, <1>13

(* What an entry assigned and what is assigned from the stage it led to    *)
(* on, it now assigns and is assigned from the next one on.                *)
LEMMA MergeWays ==
    ASSUME WellFormed(prog), ActsKept, WaysKept, NEW J, MergeStep(J)
    PROVE  WaysKept'
<1> DEFINE c == cursor
<1>1. /\ prog' = prog /\ c \in VirtualStages /\ c \in DOMAIN prog.stage
      /\ 1 \in DOMAIN prog.stage[c].acts
  BY ProgramFacts DEF MergeStep
<1>2. Way' = Way /\ (OwnActions' <=> OwnActions)
      /\ \A r, i : ToFirst(r, i)' = ToFirst(r, i) /\ DoesFirst(r, i)' = DoesFirst(r, i)
  BY <1>1, WayFrame
<1>3. ASSUME OwnActions, NEW r \in DOMAIN prog.stage, NEW i \in DOMAIN prog.stage[r].acts
      PROVE  /\ Way[To(r, i)'].stop = Way[ToFirst(r, i)].stop
             /\ Does(r, i)' \cup Way[To(r, i)'].did = DoesFirst(r, i) \cup Way[ToFirst(r, i)].did
  <2>1. /\ Way[To(r, i)].stop = Way[ToFirst(r, i)].stop
        /\ Does(r, i) \cup Way[To(r, i)].did = DoesFirst(r, i) \cup Way[ToFirst(r, i)].did
    BY <1>3 DEF WaysKept
  <2>2. CASE <<r, i>> \in J
    <3>1. /\ To(r, i) = c /\ To(r, i)' = ToFirst(c, 1)
          /\ Does(r, i)' = Does(r, i) \cup Does(c, 1)
      BY <1>3, <2>2 DEF MergeStep
    <3>2. /\ Way[c].stop = Way[ToFirst(c, 1)].stop
          /\ Way[c].did = DoesFirst(c, 1) \cup Way[ToFirst(c, 1)].did
      BY <1>1, WayFacts
    <3>3. Does(c, 1) \cup Way[To(c, 1)].did = DoesFirst(c, 1) \cup Way[ToFirst(c, 1)].did
      BY <1>1, <1>3 DEF WaysKept
    <3>4. DoesFirst(c, 1) \subseteq Does(c, 1)
      <4>1. prog.stage[c].acts[1].act \in DOMAIN prog.prims
        BY <1>1 DEF ActsKept
      <4> QED
        BY <4>1 DEF ActsKept, DoesFirst, Does
    <3> DEFINE A == Does(r, i)  B == Does(c, 1)  F == DoesFirst(c, 1)
               G == Way[ToFirst(c, 1)].did  X == Way[To(c, 1)].did
    <3>5. (A \cup B) \cup G = A \cup (F \cup G)
      <4>1. B \cup X = F \cup G /\ F \subseteq B
        BY <3>3, <3>4
      <4> HIDE DEF A, B, F, G, X
      <4> QED
        BY <4>1
    <3> QED
      BY <2>1, <3>1, <3>2, <3>5
  <2>3. CASE <<r, i>> \notin J
    <3>1. To(r, i)' = To(r, i) /\ Does(r, i)' = Does(r, i)
      BY <1>3, <2>3 DEF MergeStep
    <3> QED
      BY <2>1, <3>1
  <2> QED
    BY <2>2, <2>3
<1> QED
  BY <1>1, <1>2, <1>3 DEF WaysKept

(* An entry that is led on to a merged stage takes that stage's            *)
(* assignments from the one it is joined with.                             *)
LEMMA MergeHanded ==
    ASSUME WellFormed(prog), phase = "remove", ActsKept, HandedOn, Untouched, NEW J, MergeStep(J)
    PROVE  HandedOn'
<1> DEFINE c == cursor
           D == DOMAIN prog.stage
<1>1. /\ prog' = prog /\ c \in VirtualStages /\ c \in D /\ c \in Nat
      /\ DOMAIN prog.stage[c].acts = {1} /\ VirtualStages \subseteq D
      /\ \A v \in VirtualStages : Goto(v) = ToFirst(v, 1) /\ DOMAIN prog.stage[v].acts = {1}
  BY ProgramFacts DEF MergeStep
<1>2. /\ VirtualStages' = VirtualStages /\ (OwnActions' <=> OwnActions)
      /\ \A r, i : ToFirst(r, i)' = ToFirst(r, i) /\ DoesFirst(r, i)' = DoesFirst(r, i)
  BY <1>1, WayFrame
<1>3. c \notin removed
  <2>1. \A s \in removed : s < c
    BY DEF ActsKept
  <2> QED
    BY <1>1, <2>1
<1>4. removed \subseteq removed' /\ Kept = D \ removed /\ Kept' = D \ removed'
  BY <1>1 DEF MergeStep, Kept
<1>5. \A r \in D : \A i \in DOMAIN prog.stage[r].acts : OwnActions => Does(r, i) \subseteq Does(r, i)'
  BY DEF MergeStep
<1>6. DoesFirst(c, 1) \subseteq Does(c, 1)
  <2>1. prog.stage[c].acts[1].act \in DOMAIN prog.prims
    BY <1>1 DEF ActsKept
  <2> QED
    BY <2>1 DEF ActsKept, DoesFirst, Does
<1> SUFFICES ASSUME OwnActions, NoChain'
             PROVE  /\ \A r \in D \ removed' : \A i \in DOMAIN prog.stage[r].acts :
                         To(r, i)' \in removed' => DoesFirst(To(r, i)', 1) \subseteq Does(r, i)'
                    /\ \A v \in VirtualStages \cap (D \ removed') :
                         ToFirst(v, 1) \in removed' =>
                           DoesFirst(ToFirst(v, 1), 1) \subseteq Does(v, 1)'
  <2>1. \A r, i : DoesFirst(To(r, i), 1)' = DoesFirst(To(r, i)', 1)
    BY <1>1 DEF DoesFirst
  <2>2. \A r, i : DoesFirst(ToFirst(r, i), 1)' = DoesFirst(ToFirst(r, i), 1)
    BY <1>1 DEF DoesFirst, ToFirst
  <2> QED
    BY <1>1, <1>2, <1>4, <2>1, <2>2 DEF HandedOn
<1>7. \A s \in removed' : s \in VirtualStages => ToFirst(s, 1) \in D \ removed'
  <2>1. \A s \in removed' : Goto(s)' \in Kept'
    BY DEF NoChain
  <2>2. \A s : Goto(s)' = Goto(s)
    BY <1>1 DEF Goto
  <2> QED
    BY <1>1, <1>4, <2>1, <2>2
<1>8. NoChain
  <2>1. ASSUME NEW s \in removed PROVE Goto(s) \in Kept
    <3>1. s \in VirtualStages /\ s \in removed'
      BY <1>4 DEF ActsKept
    <3> QED
      BY <1>1, <1>4, <1>7, <3>1
  <2> QED
    BY <2>1 DEF NoChain
<1>9. /\ \A r \in D \ removed : \A i \in DOMAIN prog.stage[r].acts :
           To(r, i) \in removed => DoesFirst(To(r, i), 1) \subseteq Does(r, i)
      /\ \A v \in VirtualStages \cap (D \ removed) :
           ToFirst(v, 1) \in removed => DoesFirst(ToFirst(v, 1), 1) \subseteq Does(v, 1)
  BY <1>4, <1>8 DEF HandedOn
<1>10. ASSUME NEW r \in D \ removed', NEW i \in DOMAIN prog.stage[r].acts, To(r, i)' \in removed'
       PROVE  DoesFirst(To(r, i)', 1) \subseteq Does(r, i)'
  <2>1. r \in D \ removed
    BY <1>4
  <2>2. CASE <<r, i>> \in J
    <3>1. To(r, i)' = ToFirst(c, 1) /\ Does(r, i)' = Does(r, i) \cup Does(c, 1)
      BY <2>1, <2>2 DEF MergeStep
    <3>2. c \notin removed'
      BY <1>1, <1>7, <1>10, <3>1
    <3>3. removed' = removed
      BY <3>2 DEF MergeStep
    <3>4. DoesFirst(ToFirst(c, 1), 1) \subseteq Does(c, 1)
      BY <1>1, <1>3, <1>9, <1>10, <3>1, <3>3
    <3> QED
      BY <3>1, <3>4
  <2>3. CASE <<r, i>> \notin J
    <3>1. To(r, i)' = To(r, i) /\ Does(r, i)' = Does(r, i)
      BY <2>1, <2>3 DEF MergeStep
    <3>2. To(r, i) \in removed
      BY <1>4, <1>10, <2>1, <2>3, <3>1 DEF MergeStep
    <3> QED
      BY <1>9, <2>1, <3>1, <3>2
  <2> QED
    BY <2>2, <2>3
<1>11. ASSUME NEW v \in VirtualStages \cap (D \ removed'), ToFirst(v, 1) \in removed'
       PROVE  DoesFirst(ToFirst(v, 1), 1) \subseteq Does(v, 1)'
  <2>1. v \in D \ removed /\ v \in VirtualStages /\ 1 \in DOMAIN prog.stage[v].acts
    BY <1>1, <1>4
  <2>2. CASE ToFirst(v, 1) \in removed
    <3>1. DoesFirst(ToFirst(v, 1), 1) \subseteq Does(v, 1)
      BY <1>9, <2>1, <2>2
    <3> QED
      BY <1>5, <2>1, <3>1
  <2>3. CASE ToFirst(v, 1) \notin removed
    <3>1. ToFirst(v, 1) = c /\ removed' # removed
      BY <1>11, <2>3 DEF MergeStep
    <3>2. To(v, 1) = c
      BY <1>1, <2>1, <3>1 DEF Untouched
    <3>3. <<v, 1>> \in J
      BY <1>4, <2>1, <3>1, <3>2 DEF MergeStep
    <3>4. Does(v, 1)' = Does(v, 1) \cup Does(c, 1)
      BY <2>1, <3>3 DEF MergeStep
    <3> QED
      BY <1>6, <3>1, <3>4
  <2> QED
    BY <2>2, <2>3
<1> QED
  BY <1>10, <1>11

LEMMA MergeUntouched ==
    ASSUME WellFormed(prog), phase = "remove", Untouched, NEW J, MergeStep(J)
    PROVE  Untouched'
<1>1. /\ prog' = prog /\ cursor' = cursor + 1 /\ cursor \in Nat /\ VirtualStages \subseteq DOMAIN prog.stage
      /\ \A v \in VirtualStages : DOMAIN prog.stage[v].acts = {1}
                                  /\ ToFirst(v, 1) \in DOMAIN prog.stage \cup {None}
      /\ DOMAIN prog.stage \subseteq Nat
  BY ProgramFacts DEF MergeStep
<1>2. VirtualStages' = VirtualStages /\ \A r, i : ToFirst(r, i)' = ToFirst(r, i)
  BY <1>1, WayFrame
<1>3. ASSUME NEW v \in VirtualStages, ToFirst(v, 1) = None \/ ToFirst(v, 1) >= cursor'
      PROVE  To(v, 1)' = ToFirst(v, 1)
  <2>1. ToFirst(v, 1) = None \/ ToFirst(v, 1) >= cursor
    BY <1>1, <1>3 DEF None
  <2>2. To(v, 1) = ToFirst(v, 1)
    BY <2>1 DEF Untouched
  <2>3. To(v, 1) # cursor
    BY <1>1, <1>3, <2>2 DEF None
  <2>4. v \in DOMAIN prog.stage /\ 1 \in DOMAIN prog.stage[v].acts
    BY <1>1
  <2>5. <<v, 1>> \notin J
    BY <2>3, <2>4 DEF MergeStep
  <2> QED
    BY <2>2, <2>4, <2>5 DEF MergeStep
<1> QED
  BY <1>2, <1>3 DEF Untouched

(* Steps that touch neither the program nor what was merged.               *)
LEMMA MergeFrame ==
    ASSUME ActsKept, WaysKept, HandedOn, UNCHANGED <<prog, acts, prims, removed>>,
           phase' = "remove" => \A s \in removed : s < cursor'
    PROVE  ActsKept' /\ WaysKept' /\ HandedOn'
<1>1. /\ VirtualStages' = VirtualStages /\ Way' = Way /\ (OwnActions' <=> OwnActions)
      /\ \A r, i : ToFirst(r, i)' = ToFirst(r, i) /\ DoesFirst(r, i)' = DoesFirst(r, i)
  BY WayFrame
<1>2. \A r, i : To(r, i)' = To(r, i) /\ Does(r, i)' = Does(r, i)
  BY DEF To, Does
<1>3. ActsKept'
  BY <1>1 DEF ActsKept
<1>4. WaysKept'
  BY <1>1, <1>2 DEF WaysKept
<1>5. Kept' = Kept /\ (NoChain' <=> NoChain)
  BY DEF Kept, NoChain, Goto
<1>6. \A r, i : DoesFirst(To(r, i), 1)' = DoesFirst(To(r, i), 1)
                /\ DoesFirst(ToFirst(r, i), 1)' = DoesFirst(ToFirst(r, i), 1)
  BY DEF DoesFirst, To, ToFirst
<1>7. HandedOn'
  BY <1>1, <1>2, <1>5, <1>6 DEF HandedOn
<1> QED
  BY <1>3, <1>4, <1>7

LEMMA RemoveEmptyMerge == CompilerInv /\ MergeInv /\ RemoveEmpty => MergeInv'
<1> SUFFICES ASSUME CompilerInv, MergeInv, RemoveEmpty PROVE MergeInv'
  OBVIOUS
<1>1. /\ phase = "remove" /\ phase' = "remove" /\ cursor' = cursor + 1
      /\ cursor \in DOMAIN prog.stage /\ prog' = prog
  BY DEF RemoveEmpty
<1>2. WellFormed(prog) /\ removed \subseteq DOMAIN prog.stage /\ DOMAIN prog.stage \subseteq Nat
  BY ProgramFacts DEF CompilerInv, StageInv, TypeOK
<1>3. ActsKept /\ WaysKept /\ HandedOn /\ Untouched /\ Linked'
  BY <1>1 DEF MergeInv, Linked
<1>4. CASE Virtual(prog, cursor)
  <2>1. ActsKept'
    BY <1>3, <1>4, VirtualStep
  <2>2. PICK J : MergeStep(J)
    BY <1>3, <1>4, VirtualStep
  <2>3. WaysKept'
    BY <1>2, <1>3, <2>2, MergeWays
  <2>4. HandedOn'
    BY <1>1, <1>2, <1>3, <2>2, MergeHanded
  <2>5. Untouched'
    BY <1>1, <1>2, <1>3, <2>2, MergeUntouched
  <2> QED
    BY <1>3, <2>1, <2>3, <2>4, <2>5 DEF MergeInv
<1>5. CASE ~Virtual(prog, cursor)
  <2>1. UNCHANGED <<prog, acts, prims, removed>>
    BY <1>5 DEF RemoveEmpty
  <2>2. \A s \in removed : s < cursor'
    <3>1. \A s \in removed : s < cursor
      BY <1>1, <1>3 DEF ActsKept
    <3> QED
      BY <1>1, <1>2, <3>1
  <2>3. ActsKept' /\ WaysKept' /\ HandedOn'
    BY <1>3, <2>1, <2>2, MergeFrame
  <2>4. Untouched'
    <3>1. VirtualStages' = VirtualStages /\ \A r, i : ToFirst(r, i)' = ToFirst(r, i)
      BY <2>1, WayFrame
    <3>2. \A r, i : To(r, i)' = To(r, i)
      BY <2>1 DEF To
    <3>3. \A v \in VirtualStages : ToFirst(v, 1) \in DOMAIN prog.stage \cup {None}
      BY <1>2, ProgramFacts
    <3>4. \A v \in VirtualStages : ToFirst(v, 1) >= cursor' => ToFirst(v, 1) = None \/ ToFirst(v, 1) >= cursor
      BY <1>1, <1>2, <3>3
    <3> QED
      BY <1>1, <1>3, <3>1, <3>2, <3>4 DEF Untouched
  <2> QED
    BY <1>3, <2>3, <2>4 DEF MergeInv
<1> QED
  BY <1>4, <1>5

(* A new program: nothing is merged yet.                                   *)
LEMMA EmitTaskMerge == CompilerInv /\ EmitTask => MergeInv'
<1> SUFFICES ASSUME CompilerInv, EmitTask PROVE MergeInv'
  OBVIOUS
<1>1. PICK p \in Program, j \in Junk : Load(p, j)
  BY SizeAssumption DEF EmitTask, SizeAssumption
<1>2. /\ phase' = "remove" /\ prog' = p /\ removed' = {} /\ prims' = p.prims
      /\ acts' = [s \in DOMAIN p.stage |-> p.stage[s].acts]
  BY <1>1 DEF Load
<1>3. WellFormed(p)
  BY ProgramAssumption DEF ProgramAssumption
<1> DEFINE E == [act : DOMAIN p.prims, next : DOMAIN p.stage \cup {None}]
<1>4. ASSUME NEW r \in DOMAIN p.stage, NEW i \in DOMAIN p.stage[r].acts
      PROVE  p.stage[r].acts[i] \in E
  <2>1. p.stage[r].acts \in Seq(E)
    BY <1>3 DEF WellFormed
  <2> HIDE DEF E
  <2> QED
    BY <2>1
<1>5. ASSUME NEW r \in DOMAIN p.stage
      PROVE  /\ acts'[r] = p.stage[r].acts
             /\ \A i : To(r, i)' = ToFirst(r, i)' /\ Does(r, i)' = DoesFirst(r, i)'
  <2>1. acts'[r] = p.stage[r].acts
    BY <1>2
  <2> QED
    BY <1>2, <2>1 DEF To, ToFirst, Does, DoesFirst
<1>6. ActsKept'
  BY <1>2, <1>4, <1>5 DEF ActsKept
<1>7. WaysKept'
  <2>1. \A r \in DOMAIN prog'.stage : \A i \in DOMAIN prog'.stage[r].acts :
          To(r, i)' = ToFirst(r, i)' /\ Does(r, i)' = DoesFirst(r, i)'
    BY <1>2, <1>5
  <2> QED
    BY <2>1 DEF WaysKept
<1>8. HandedOn' /\ Linked'
  BY <1>2 DEF HandedOn, Linked
<1>9. Untouched'
  <2>1. \A v \in VirtualStages' : v \in DOMAIN p.stage
    BY <1>2 DEF VirtualStages
  <2> QED
    BY <1>5, <2>1 DEF Untouched
<1> QED
  BY <1>6, <1>7, <1>8, <1>9 DEF MergeInv

(* The stages that are left, renumbered.                                   *)
LEMMA RenumberMerge == CompilerInv /\ MergeInv /\ Renumber => MergeInv'
<1> SUFFICES ASSUME CompilerInv, MergeInv, Renumber PROVE MergeInv'
  OBVIOUS
<1>1. PICK j \in {None} \cup 0 .. Cardinality(Kept) - 1 :
        stages' = [x \in 0 .. Cardinality(Kept) - 1 |->
                     StageRecord(CHOOSE s \in Kept : Rank(s) = x, j)]
  BY DEF Renumber
<1>2. phase' = "parsers" /\ UNCHANGED <<prog, acts, prims, removed>>
  BY DEF Renumber
<1>3. WellFormed(prog) /\ removed \subseteq DOMAIN prog.stage
  BY DEF CompilerInv, StageInv, TypeOK
<1>4. ActsKept' /\ WaysKept' /\ HandedOn' /\ Untouched'
  BY <1>2, MergeFrame DEF MergeInv, Untouched
<1>5. Kept' = Kept /\ (NoChain' <=> NoChain) /\ \A n : Onto(n)' = Onto(n)
  BY <1>2 DEF Kept, NoChain, Goto, Onto, ToFirst
<1> DEFINE S(x) == CHOOSE s \in Kept : Rank(s) = x
           N == 0 .. Cardinality(Kept) - 1
<1>6. ASSUME NEW x \in N PROVE S(x) \in Kept /\ Rank(S(x)) = x
  <2>1. \E r \in Kept : Rank(r) = x
    BY <1>3, RankOnto
  <2> QED
    BY <2>1
<1>7. ASSUME NEW r \in Kept PROVE Rank(r) \in N /\ S(Rank(r)) = r
  <2>1. Rank(r) \in N
    BY <1>3, RankRange
  <2>2. PICK s \in Kept : s = S(Rank(r)) /\ Rank(s) = Rank(r)
    BY <1>6, <2>1
  <2>3. r \in Nat /\ s \in Nat /\ Rank(r) \in Nat
    BY <1>3, StagesFinite
  <2>4. ~(r < s) /\ ~(s < r)
    BY <1>3, <2>2, <2>3, RankGrows
  <2> QED
    BY <2>1, <2>2, <2>3, <2>4
<1>8. \A x \in N : stages'[x] = StageRecord(S(x), j)
  BY <1>1
<1>9. DOMAIN stages' = N
  BY <1>1
<1> HIDE DEF S
<1>10. ASSUME NEW x \in N
       PROVE  /\ stages'[x].from = S(x)
              /\ stages'[x].acts = [i \in DOMAIN acts[S(x)] |->
                   [act |-> acts[S(x)][i].act, next |-> Reorder(acts[S(x)][i].next, j)]]
  <2>1. PICK y : y = S(x)
    OBVIOUS
  <2>2. stages'[x] = StageRecord(y, j)
    BY <1>8, <2>1
  <2>3. /\ StageRecord(y, j).from = y
        /\ StageRecord(y, j).acts = [i \in DOMAIN acts[y] |->
             [act |-> acts[y][i].act, next |-> Reorder(acts[y][i].next, j)]]
    BY RecordParts
  <2> QED
    BY <2>1, <2>2, <2>3
<1>11. ASSUME NEW r \in Kept PROVE stages'[Rank(r)].from = r /\ Rank(r) # None
  <2>1. Rank(r) \in N /\ Rank(r) # None
    <3>1. Cardinality(Kept) \in Nat
      BY <1>3, StagesFinite
    <3> QED
      BY <1>7, <3>1 DEF None
  <2> QED
    BY <1>7, <1>10, <2>1
<1>12. ASSUME NoChain, NEW n \in DOMAIN prog.stage \cup {None}
       PROVE  (IF Reorder(n, j) = None THEN None ELSE stages'[Reorder(n, j)].from) = Onto(n)
  <2>1. None \notin DOMAIN prog.stage /\ removed \subseteq VirtualStages
        /\ \A v \in VirtualStages : Goto(v) = ToFirst(v, 1)
    BY <1>3, ProgramFacts DEF MergeInv, ActsKept
  <2>2. CASE n = None
    <3>1. n \notin Kept /\ n \notin removed
      BY <1>3, <2>1, <2>2 DEF Kept
    <3>2. Reorder(n, j) = None
      BY <2>2, <3>1 DEF Reorder
    <3> QED
      BY <2>2, <3>1, <3>2 DEF Onto
  <2>3. CASE n \in Kept
    <3>1. n \notin removed /\ n # None
      BY <2>1, <2>3 DEF Kept
    <3>2. Reorder(n, j) = Rank(n)
      BY <2>3, <3>1 DEF Reorder
    <3> QED
      BY <1>11, <2>3, <3>1, <3>2 DEF Onto
  <2>4. CASE n \in removed
    <3>1. n # None /\ n \notin Kept /\ Goto(n) \in Kept /\ Goto(n) \notin removed
      BY <1>3, <1>12, <2>1, <2>4 DEF Kept, NoChain
    <3>2. Reorder(n, j) = Rank(Goto(n))
      BY <2>4, <3>1 DEF Reorder
    <3>3. Goto(n) = ToFirst(n, 1)
      BY <2>1, <2>4
    <3> QED
      BY <1>11, <2>4, <3>1, <3>2, <3>3 DEF Onto
  <2> QED
    BY <2>2, <2>3, <2>4 DEF Kept
<1>13. Linked'
  <2>1. ASSUME NEW x \in N
        PROVE  /\ stages'[x].from \in Kept
               /\ DOMAIN stages'[x].acts = DOMAIN acts[stages'[x].from]
               /\ \A i \in DOMAIN stages'[x].acts :
                    /\ stages'[x].acts[i].act = acts[stages'[x].from][i].act
                    /\ NoChain => (IF stages'[x].acts[i].next = None THEN None
                                   ELSE stages'[stages'[x].acts[i].next].from)
                                  = Onto(acts[stages'[x].from][i].next)
    <3> DEFINE s == S(x)
    <3>1. s \in Kept /\ s \in DOMAIN prog.stage
      BY <1>6 DEF Kept
    <3>2. /\ stages'[x].from = s
          /\ stages'[x].acts = [i \in DOMAIN acts[s] |->
               [act |-> acts[s][i].act, next |-> Reorder(acts[s][i].next, j)]]
      BY <1>10
    <3> HIDE DEF s
    <3>3. DOMAIN stages'[x].acts = DOMAIN acts[s]
      BY <3>2
    <3>4. ASSUME NEW i \in DOMAIN acts[s]
          PROVE  /\ stages'[x].acts[i].act = acts[s][i].act
                 /\ stages'[x].acts[i].next = Reorder(acts[s][i].next, j)
                 /\ acts[s][i].next \in DOMAIN prog.stage \cup {None}
      <4>1. acts[s][i] \in [act : DOMAIN prog.prims, next : DOMAIN prog.stage \cup {None}]
        BY <3>1 DEF MergeInv, ActsKept
      <4>2. stages'[x].acts[i] = [act |-> acts[s][i].act, next |-> Reorder(acts[s][i].next, j)]
        BY <3>2
      <4> QED
        BY <4>1, <4>2
    <3>5. ASSUME NoChain, NEW i \in DOMAIN acts[s]
          PROVE  (IF stages'[x].acts[i].next = None THEN None
                  ELSE stages'[stages'[x].acts[i].next].from) = Onto(acts[s][i].next)
      <4>1. PICK n \in DOMAIN prog.stage \cup {None} : n = acts[s][i].next
        BY <3>4
      <4>2. stages'[x].acts[i].next = Reorder(n, j)
        BY <3>4, <4>1
      <4>3. (IF Reorder(n, j) = None THEN None ELSE stages'[Reorder(n, j)].from) = Onto(n)
        BY <1>12, <3>5
      <4> QED
        BY <4>1, <4>2, <4>3
    <3> QED
      BY <3>1, <3>2, <3>3, <3>4, <3>5
  <2>2. ASSUME NEW x \in N, NEW i \in DOMAIN stages'[x].acts
        PROVE  /\ From(stages[x].acts[i].next)' =
                    (IF stages'[x].acts[i].next = None THEN None
                     ELSE stages'[stages'[x].acts[i].next].from)
               /\ Onto(acts[stages[x].from][i].next)' = Onto(acts[stages'[x].from][i].next)
    BY <1>2 DEF From, Onto, ToFirst
  <2> QED
    BY <1>2, <1>5, <1>9, <2>1, <2>2 DEF Linked
<1> QED
  BY <1>4, <1>13 DEF MergeInv

(* Later steps change nothing of it.                                       *)
LEMMA MergeNext == CompilerInv /\ MergeInv /\ [Next]_vars => MergeInv'
<1> SUFFICES ASSUME CompilerInv, MergeInv, [Next]_vars PROVE MergeInv'
  OBVIOUS
<1>1. CASE EmitTask \/ RemoveEmpty \/ Renumber
  BY <1>1, EmitTaskMerge, RemoveEmptyMerge, RenumberMerge
<1>2. CASE ~(EmitTask \/ RemoveEmpty \/ Renumber)
  <2>1. /\ UNCHANGED <<prog, acts, prims, removed, stages>>
        /\ phase' = "remove" => phase = "remove" /\ cursor' = cursor
        /\ phase' \notin {"remove", "dead"} => phase \notin {"remove", "dead"}
    <3>1. CASE UNCHANGED vars
      BY <3>1 DEF vars, sessionVars, stageVars
    <3>2. CASE RenumberDead \/ AllocateParsersDead \/ BuildProcessorDead
      BY <3>2 DEF RenumberDead, AllocateParsersDead, BuildProcessorDead, Dead, stageVars
    <3>3. CASE \/ AllocateParsers \/ PlaceStage \/ Placed \/ SetConfig \/ NextConfig \/ Configured
               \/ KeepMemory \/ KeepFails \/ NewTable \/ KeepDone \/ BuildProcessor \/ Output
      <4>1. phase \notin {"remove", "dead"} /\ phase' # "remove"
        BY <3>3 DEF AllocateParsers, PlaceStage, Placed, SetConfig, NextConfig, Configured, KeepMemory, KeepFails,
               NewTable, KeepDone, BuildProcessor, Output
      <4>2. UNCHANGED <<prog, acts, prims, removed, stages>>
        BY <3>3 DEF AllocateParsers, PlaceStage, Placed, SetConfig, NextConfig, Configured, KeepMemory, KeepFails,
               NewTable, KeepDone, BuildProcessor, Output, stageVars
      <4> QED
        BY <4>1, <4>2
    <3> QED
      BY <1>2, <3>1, <3>2, <3>3 DEF Next
  <2>2. ActsKept' /\ WaysKept' /\ HandedOn'
    <3>1. phase' = "remove" => \A s \in removed : s < cursor'
      BY <2>1 DEF MergeInv, ActsKept
    <3> QED
      BY <2>1, <3>1, MergeFrame DEF MergeInv
  <2>3. Untouched'
    <3>1. VirtualStages' = VirtualStages /\ \A r, i : ToFirst(r, i)' = ToFirst(r, i)
      BY <2>1, WayFrame
    <3>2. \A r, i : To(r, i)' = To(r, i)
      BY <2>1 DEF To
    <3> QED
      BY <2>1, <3>1, <3>2 DEF MergeInv, Untouched
  <2>4. Linked'
    <3>1. Kept' = Kept /\ (NoChain' <=> NoChain)
      BY <2>1 DEF Kept, NoChain, Goto
    <3>2. \A x, i : /\ From(stages[x].acts[i].next)' = From(stages[x].acts[i].next)
                    /\ Onto(acts[stages[x].from][i].next)' = Onto(acts[stages[x].from][i].next)
      BY <2>1 DEF From, Onto, ToFirst
    <3> QED
      BY <2>1, <3>1, <3>2 DEF MergeInv, Linked
  <2> QED
    BY <2>2, <2>3, <2>4 DEF MergeInv
<1> QED
  BY <1>1, <1>2

(* Where an entry leads, past a merged stage.                              *)
LEMMA OntoWay ==
    ASSUME CompilerInv, MergeInv, OwnActions, NoChain,
           NEW s \in Kept, NEW i \in DOMAIN prog.stage[s].acts
    PROVE  /\ Onto(To(s, i)) \in DOMAIN prog.stage \cup {None}
           /\ Way[Onto(To(s, i))].stop = Way[ToFirst(s, i)].stop
           /\ Does(s, i) \cup Way[Onto(To(s, i))].did = DoesFirst(s, i) \cup Way[ToFirst(s, i)].did
<1>0. WellFormed(prog) /\ ActsKept
  BY DEF CompilerInv, StageInv, MergeInv
<1> DEFINE t == To(s, i)
<1>1. s \in DOMAIN prog.stage
  BY DEF Kept
<1>2. /\ Way[t].stop = Way[ToFirst(s, i)].stop
      /\ Does(s, i) \cup Way[t].did = DoesFirst(s, i) \cup Way[ToFirst(s, i)].did
  BY <1>1 DEF MergeInv, WaysKept
<1>3. t \in DOMAIN prog.stage \cup {None}
  BY <1>0, <1>1, <1>1 DEF ActsKept, To
<1>4. CASE t \notin removed
  BY <1>2, <1>3, <1>4 DEF Onto
<1>5. CASE t \in removed
  <2>1. t \in VirtualStages /\ Onto(t) = ToFirst(t, 1)
    BY <1>0, <1>1, <1>5 DEF ActsKept, Onto
  <2>2. /\ Way[t].stop = Way[ToFirst(t, 1)].stop
        /\ Way[t].did = DoesFirst(t, 1) \cup Way[ToFirst(t, 1)].did
    BY <1>0, <1>1, <2>1, WayFacts
  <2>3. DoesFirst(t, 1) \subseteq Does(s, i)
    BY <1>5 DEF MergeInv, HandedOn
  <2>4. ToFirst(t, 1) \in DOMAIN prog.stage \cup {None}
    BY <1>0, <1>1, <2>1, ProgramFacts
  <2>5. Does(s, i) \cup Way[t].did = Does(s, i) \cup Way[ToFirst(t, 1)].did
    BY <2>2, <2>3
  <2> QED
    BY <1>2, <2>1, <2>2, <2>4, <2>5
<1> QED
  BY <1>4, <1>5

(* In the order of the stages, from its end: the way through what is left  *)
(* is the way through the program.                                         *)
LEMMA SameWay ==
    ASSUME CompilerInv, MergeInv, LevelInv, Done, OwnActions, NoChain,
           NEW x \in DOMAIN stages \cup {None}
    PROVE  /\ From(x) \in DOMAIN prog.stage \cup {None}
           /\ From(MergedWay[x].stop) = Way[From(x)].stop
           /\ MergedWay[x].did = Way[From(x)].did
<1> DEFINE nodes == DOMAIN stages \cup {None}
           to == [y \in VirtualLeft |-> stages[y].acts[1].next]
           does == [y \in VirtualLeft |-> prims[stages[y].acts[1].act]]
           order == topologicalSort(NextStages)
           n == Len(order)
           Same(y) == /\ From(MergedWay[y].stop) = Way[From(y)].stop
                      /\ MergedWay[y].did = Way[From(y)].did
<1>1. WellFormed(prog) /\ phase \notin {"remove", "dead"} /\ Linked /\ ActsKept
  BY DEF CompilerInv, StageInv, Done, MergeInv
<1>2. /\ DOMAIN NextStages = DOMAIN stages /\ DOMAIN stages \in SUBSET Nat
      /\ IsFiniteSet(DOMAIN stages) /\ None \notin DOMAIN stages
  <2>1. DOMAIN NextStages = DOMAIN stages /\ DOMAIN stages \in SUBSET Nat /\ IsFiniteSet(DOMAIN stages)
    BY StageNumbers DEF CompilerInv
  <2> QED
    BY <2>1 DEF None
<1>3. Orders(NextStages, order)
  <2>1. Acyclic(NextStages)
    BY DEF LevelInv, Sorted
  <2> QED
    BY <1>2, <2>1, SortOrders
<1>4. ASSUME NEW y \in DOMAIN stages
      PROVE  From(y) = stages[y].from /\ From(y) \in Kept /\ From(y) \in DOMAIN prog.stage
  BY <1>1, <1>2 DEF Linked, From, Kept
<1>5. ASSUME NEW y \in VirtualLeft
      PROVE  LET s == From(y)
                 t == stages[y].acts[1].next
             IN /\ y \in DOMAIN stages /\ s \in VirtualStages /\ s \in Kept
                /\ 1 \in DOMAIN prog.stage[s].acts /\ 1 \in DOMAIN stages[y].acts
                /\ t \in nodes /\ From(t) = Onto(To(s, 1))
                /\ prims[stages[y].acts[1].act] = Does(s, 1)
  <2> DEFINE s == From(y)
  <2>1. y \in DOMAIN stages /\ s \in VirtualStages /\ s = stages[y].from
    BY <1>4 DEF VirtualLeft
  <2>2. s \in Kept /\ s \in DOMAIN prog.stage
    BY <1>4, <2>1
  <2> HIDE DEF s
  <2>3. DOMAIN prog.stage[s].acts = {1}
    BY <1>1, <2>1, ProgramFacts
  <2>4. 1 \in DOMAIN prog.stage[s].acts /\ 1 \in DOMAIN stages[y].acts
    BY <1>1, <2>1, <2>2, <2>3 DEF Linked, ActsKept
  <2>5. stages[y].acts[1].next \in nodes
    BY <2>1, <2>4 DEF CompilerInv, StageInv
  <2>6. From(stages[y].acts[1].next) = Onto(To(s, 1)) /\ stages[y].acts[1].act = acts[s][1].act
    BY <1>1, <2>1, <2>4 DEF Linked, To
  <2>7. prims[stages[y].acts[1].act] = Does(s, 1)
    BY <1>1, <2>2, <2>4, <2>6 DEF ActsKept, Does
  <2> QED
    BY <2>1, <2>2, <2>4, <2>5, <2>6, <2>7 DEF s
<1>6. VirtualLeft \subseteq DOMAIN stages
  BY DEF VirtualLeft
<1>7. \A y \in nodes :
        /\ y \notin VirtualLeft => MergedWay[y].stop = y /\ MergedWay[y].did = {}
        /\ y \in VirtualLeft =>
             /\ MergedWay[y].stop = MergedWay[stages[y].acts[1].next].stop
             /\ MergedWay[y].did = prims[stages[y].acts[1].act]
                                     \cup MergedWay[stages[y].acts[1].next].did
  <2>1. DOMAIN to \subseteq nodes /\ \A z \in DOMAIN to : to[z] \in nodes
    BY <1>5, <1>6
  <2>2. MergedWay = Onward(nodes, to, does)
    BY DEF MergedWay
  <2>3. DOMAIN to = VirtualLeft /\ \A y \in VirtualLeft :
          to[y] = stages[y].acts[1].next /\ does[y] = prims[stages[y].acts[1].act]
    OBVIOUS
  <2> HIDE DEF nodes, to, does
  <2>4. \A y \in nodes :
          /\ y \notin DOMAIN to => MergedWay[y].stop = y /\ MergedWay[y].did = {}
          /\ y \in DOMAIN to => /\ MergedWay[y].stop = MergedWay[to[y]].stop
                                /\ MergedWay[y].did = does[y] \cup MergedWay[to[y]].did
    BY <2>1, <2>2, OnwardValue
  <2> QED
    BY <2>3, <2>4
<1>8. \A s \in Kept : \A i \in DOMAIN prog.stage[s].acts :
        /\ Way[Onto(To(s, i))].stop = Way[ToFirst(s, i)].stop
        /\ Does(s, i) \cup Way[Onto(To(s, i))].did = DoesFirst(s, i) \cup Way[ToFirst(s, i)].did
  BY OntoWay
<1>9. ASSUME NEW y \in nodes, y \notin VirtualLeft PROVE Same(y)
  <2>1. From(y) \in DOMAIN prog.stage \cup {None} /\ From(y) \notin VirtualStages
    <3>1. CASE y = None
      BY <1>1, <3>1, ProgramFacts DEF From
    <3>2. CASE y \in DOMAIN stages
      BY <1>4, <1>9, <3>2 DEF VirtualLeft
    <3> QED
      BY <3>1, <3>2
  <2>2. Way[From(y)].stop = From(y) /\ Way[From(y)].did = {}
    BY <1>1, <2>1, WayFacts
  <2> QED
    BY <1>7, <1>9, <2>2
<1>10. ASSUME NEW y \in VirtualLeft, Same(stages[y].acts[1].next) PROVE Same(y)
  <2> DEFINE s == From(y)
             t == stages[y].acts[1].next
  <2>1. /\ s \in VirtualStages /\ s \in Kept /\ 1 \in DOMAIN prog.stage[s].acts
        /\ t \in nodes /\ From(t) = Onto(To(s, 1)) /\ prims[stages[y].acts[1].act] = Does(s, 1)
    BY <1>5
  <2>2. MergedWay[y].stop = MergedWay[t].stop /\ MergedWay[y].did = Does(s, 1) \cup MergedWay[t].did
    BY <1>6, <1>7, <2>1
  <2>3. From(MergedWay[t].stop) = Way[Onto(To(s, 1))].stop
        /\ MergedWay[t].did = Way[Onto(To(s, 1))].did
    BY <1>10, <2>1
  <2>4. /\ Way[Onto(To(s, 1))].stop = Way[ToFirst(s, 1)].stop
        /\ Does(s, 1) \cup Way[Onto(To(s, 1))].did = DoesFirst(s, 1) \cup Way[ToFirst(s, 1)].did
    BY <1>8, <2>1
  <2>5. /\ Way[s].stop = Way[ToFirst(s, 1)].stop
        /\ Way[s].did = DoesFirst(s, 1) \cup Way[ToFirst(s, 1)].did
    BY <1>1, <2>1, WayFacts
  <2> QED
    BY <2>2, <2>3, <2>4, <2>5
<1>11. /\ n \in Nat /\ \A i \in 1 .. n : order[i] \in DOMAIN stages
       /\ \A y \in DOMAIN stages : \E i \in 1 .. n : order[i] = y
       /\ \A i \in 1 .. n : \A y \in Preds(NextStages, order[i]) : \E k \in 1 .. i - 1 : y = order[k]
       /\ \A i, k \in 1 .. n : order[i] = order[k] => i = k
  BY <1>2, <1>3 DEF Orders
<1> HIDE DEF order, Same
<1> DEFINE S == {k \in Nat : \A i \in 1 .. n : i > n - k => Same(order[i])}
<1>12. 0 \in S
  BY <1>11
<1>13. ASSUME NEW k \in Nat, k \in S PROVE k + 1 \in S
  <2> SUFFICES ASSUME NEW i \in 1 .. n, i > n - (k + 1) PROVE Same(order[i])
    OBVIOUS
  <2> DEFINE y == order[i]
             t == stages[y].acts[1].next
  <2>1. y \in nodes /\ y \in DOMAIN stages
    BY <1>11
  <2>2. CASE y \notin VirtualLeft
    BY <1>9, <2>1, <2>2
  <2>3. CASE y \in VirtualLeft
    <3>1. 1 \in DOMAIN stages[y].acts /\ t \in nodes
      BY <1>5, <2>3
    <3>2. Same(t)
      <4>1. CASE t = None
        <5>1. t \notin VirtualLeft
          BY <1>2, <1>6, <4>1
        <5> QED
          BY <1>9, <3>1, <5>1
      <4>2. CASE t # None
        <5>1. t \in DOMAIN stages
          BY <3>1, <4>2
        <5>2. y \in Preds(NextStages, t)
          <6>1. t \in NextStages[y]
            BY <2>1, <3>1, <4>2 DEF NextStages
          <6> QED
            BY <1>2, <2>1, <6>1 DEF Preds
        <5>3. PICK h \in 1 .. n : order[h] = t
          BY <1>11, <5>1
        <5>4. PICK m \in 1 .. h - 1 : y = order[m]
          <6>1. \A z \in Preds(NextStages, order[h]) : \E g \in 1 .. h - 1 : z = order[g]
            BY <1>11
          <6>2. y \in Preds(NextStages, order[h])
            BY <5>2, <5>3
          <6> HIDE DEF y
          <6> QED
            BY <6>1, <6>2
        <5>5. m = i
          <6>1. m \in 1 .. n /\ order[m] = order[i]
            BY <1>11, <5>3, <5>4
          <6> QED
            BY <1>11, <6>1
        <5>6. h > n - k
          BY <1>11, <5>3, <5>4, <5>5
        <5> QED
          BY <1>13, <5>3, <5>6
      <4> QED
        BY <4>1, <4>2
    <3> QED
      BY <1>10, <2>3, <3>2
  <2> QED
    BY <2>2, <2>3
<1> HIDE DEF S
<1>14. n \in S
  BY <1>11, <1>12, <1>13, SetInduction
<1>15. \A y \in DOMAIN stages : Same(y)
  <2> SUFFICES ASSUME NEW y \in DOMAIN stages PROVE Same(y)
    OBVIOUS
  <2>1. PICK i \in 1 .. n : order[i] = y
    BY <1>11
  <2>2. i > n - n
    BY <1>11
  <2> QED
    BY <1>14, <2>1, <2>2 DEF S
<1>16. Same(None)
  <2>1. None \notin VirtualLeft
    BY <1>2, <1>6
  <2> QED
    BY <1>9, <2>1
<1>17. From(x) \in DOMAIN prog.stage \cup {None}
  BY <1>4 DEF From
<1> QED
  BY <1>15, <1>16, <1>17 DEF Same

(* Whatever the program: if no action is run by two entries and no merged  *)
(* stage led to another or to None, then from each entry of a stage that   *)
(* is left, and is not virtual, the same assignments are made and the same *)
(* stage is reached as in the program, also when a virtual stage could be  *)
(* joined with some of the entries before it only (initializeStages,       *)
(* concatAction).                                                          *)
THEOREM MergingKeepsEffects == Spec => []EffectsKept
<1>1. Init => LevelInv /\ MergeInv
  <2> SUFFICES ASSUME Init PROVE LevelInv /\ MergeInv
    OBVIOUS
  <2>1. LevelInv
    BY DEF Init, LevelInv, Sorted, Done
  <2>2. /\ DOMAIN prog.stage = {} /\ DOMAIN prog.prims = {} /\ DOMAIN prims = {}
        /\ DOMAIN acts = {} /\ DOMAIN stages = {} /\ removed = {} /\ phase = "idle"
    <3>1. DOMAIN Empty = {}
      BY DEF Empty
    <3> QED
      BY <3>1 DEF Init, NoProgram
  <2>3. ActsKept
    BY <2>2 DEF ActsKept
  <2>4. WaysKept /\ Untouched /\ Linked
    BY <2>2 DEF WaysKept, Untouched, Linked
  <2>5. HandedOn
    BY <2>2 DEF HandedOn, Kept
  <2> QED
    BY <2>1, <2>3, <2>4, <2>5 DEF MergeInv
<1>2. CompilerInv /\ LevelInv /\ MergeInv => EffectsKept
  <2> SUFFICES ASSUME CompilerInv, LevelInv, MergeInv, Done, OwnActions, NoChain,
                      NEW x \in DOMAIN stages \ VirtualLeft, NEW i \in DOMAIN stages[x].acts
               PROVE  /\ From(MergedWay[stages[x].acts[i].next].stop)
                           = Way[prog.stage[stages[x].from].acts[i].next].stop
                      /\ prims[stages[x].acts[i].act] \cup MergedWay[stages[x].acts[i].next].did
                           = prog.prims[prog.stage[stages[x].from].acts[i].act]
                               \cup Way[prog.stage[stages[x].from].acts[i].next].did
    BY DEF EffectsKept
  <2> DEFINE s == stages[x].from
             t == stages[x].acts[i].next
  <2>1. phase \notin {"remove", "dead"} /\ Linked /\ ActsKept
    BY DEF Done, MergeInv
  <2>2. s \in Kept /\ s \in DOMAIN prog.stage /\ i \in DOMAIN prog.stage[s].acts
    BY <2>1 DEF Linked, ActsKept, Kept
  <2>3. t \in DOMAIN stages \cup {None}
    BY DEF CompilerInv, StageInv
  <2>4. From(t) = Onto(To(s, i)) /\ prims[stages[x].acts[i].act] = Does(s, i)
    <3>1. From(t) = Onto(acts[s][i].next) /\ stages[x].acts[i].act = acts[s][i].act
      BY <2>1 DEF Linked
    <3>2. acts[s][i].act = prog.stage[s].acts[i].act
      BY <2>1, <2>2 DEF ActsKept
    <3> QED
      BY <3>1, <3>2 DEF To, Does
  <2>5. From(MergedWay[t].stop) = Way[From(t)].stop /\ MergedWay[t].did = Way[From(t)].did
    BY <2>3, SameWay
  <2>6. /\ Way[Onto(To(s, i))].stop = Way[ToFirst(s, i)].stop
        /\ Does(s, i) \cup Way[Onto(To(s, i))].did = DoesFirst(s, i) \cup Way[ToFirst(s, i)].did
    BY <2>2, OntoWay
  <2> QED
    BY <2>4, <2>5, <2>6 DEF ToFirst, DoesFirst
<1> QED
  BY <1>1, <1>2, LevelStep, MergeNext, Invariance, PTL DEF Spec
=============================================================================
