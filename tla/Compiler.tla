------------------------------ MODULE Compiler ------------------------------
(***************************************************************************)
(* The back end of the rP4 compiler (rP4-compiler/rp4c): a session in      *)
(* which Rp4Runtime::emitTask compiles one program after another.          *)
(*                                                                         *)
(* A compilation merges the stages that only run one action into the       *)
(* actions before them (initializeStages), numbers the others, distributes *)
(* the parser levels (module Distribution), gives each stage a physical    *)
(* processor and each table its memory blocks, and renumbers everything to *)
(* the physical processors (allocateProcessors).  The first compilation of *)
(* a session allocates all memory anew; a later one first tries to keep    *)
(* the blocks of the tables that were there.                               *)
(*                                                                         *)
(* A loop of the code is an action that takes one iteration; cursor is its *)
(* loop variable.                                                          *)
(***************************************************************************)
EXTENDS Integers, Distribution, SequencesExt

CONSTANTS
    Program,        \* the programs that are compiled
    NCluster,       \* CLUSTER_COUNT
    ClusterProcs,   \* CLUSTER_PROC_COUNT
    NSram, NTcam,   \* CLUSTER_SRAM_COUNT, CLUSTER_TCAM_COUNT
    MaxLevel,       \* MAX_LEVEL, the levels one processor parses
    Junk,           \* what an uninitialised width or depth may hold
    MaxCompile,     \* bound: the compilations of a session
    Later,          \* bound: the programs of sessions with several compilations
    NoTask          \* a null pointer

Cluster == 0 .. NCluster - 1
Proc == 0 .. NCluster * ClusterProcs - 1
None == -1                              \* stage "None": the packet leaves

ASSUME SizeAssumption ==
    /\ NCluster \in Nat \ {0} /\ ClusterProcs \in Nat \ {0}
    /\ NSram \in Nat /\ NTcam \in Nat
    /\ MaxLevel \in Nat \ {0} /\ MaxCompile \in Nat
    /\ Junk \subseteq Int
    /\ Later \subseteq Program

(* A program as the managers load it: its stages, levels and tables are    *)
(* numbered, and the tables that are switched to exist, because the code   *)
(* follows the pointer it finds for their names.  An action that is not    *)
(* found is the first one, and a stage that is not found is None.          *)
WellFormed(p) ==
    /\ IsFiniteSet(DOMAIN p.stage) /\ DOMAIN p.stage = 0 .. Cardinality(DOMAIN p.stage) - 1
    /\ IsFiniteSet(DOMAIN p.parser) /\ DOMAIN p.parser \in SUBSET Nat
    /\ DOMAIN p.table \in SUBSET Nat
    /\ \A t \in DOMAIN p.table :
         /\ p.table[t].kw \in Nat /\ p.table[t].vw \in Nat /\ p.table[t].depth \in Nat
         /\ p.table[t].mem \in {"SRAM", "TCAM"}
    /\ \A s \in DOMAIN p.stage :
         LET switch == p.stage[s].switch IN
         /\ p.stage[s].acts \in Seq([act : DOMAIN p.prims, next : DOMAIN p.stage \cup {None}])
         /\ Len(switch) \in Nat /\ DOMAIN switch = 1 .. Len(switch)
         /\ \A i \in DOMAIN switch :
              switch[i].kind = "TABLE" => switch[i].id \in DOMAIN p.table

ASSUME ProgramAssumption == \A p \in Program : WellFormed(p)

VARIABLES
    phase,          \* what emitTask does next
    cursor,         \* the loop variable of the phase
    item,           \* the loop variable of an inner loop
    compiles,       \* compilations begun
    prog,           \* the program as it was parsed
    size,           \* the tables' sizes: key and value width, depth
    acts,           \* per logical stage: action_proc, the action and next stage
    prims,          \* per action: what it assigns
    removed,        \* the stages merged into others
    stages,         \* the remaining stages by stage_id
    table_at,       \* per table: proc_id, a stage_id, and id, its matcher
    topo, levels,   \* topo_sequence, distributed_levels
    place,          \* physical_proc_id: the stage of each processor, or -1
    space,          \* cluster_space: what each cluster has left
    number,         \* cluster_number: the next free block numbers
    bitmap,         \* cluster_bitmap: the blocks of the tables that are kept
    config,         \* per table: the blocks of its keys and values
    processors,     \* ipsa.processors, those that are not null
    extra,          \* extra_processor_id
    route,          \* proc_proc: stage_id to processor
    err,            \* an "error ..." message was printed
    incremental,    \* is_incremental
    prev,           \* now_task: its tables, or NoTask
    spoiled         \* history: what went wrong since the last full allocation

sessionVars == <<phase, cursor, item, compiles, prev, spoiled>>
stageVars == <<prog, size, acts, prims, removed, stages, table_at>>
levelVars == <<topo, levels>>
memVars == <<place, space, number, bitmap, config>>
outVars == <<processors, extra, route>>
flagVars == <<err, incremental>>
vars == <<sessionVars, stageVars, levelVars, memVars, outVars, flagVars>>

Empty == [x \in {} |-> x]
NoProgram == [stage |-> Empty, table |-> Empty, prims |-> Empty, params |-> {},
              parser |-> Empty]
NoBlocks == [key |-> <<>>, value |-> <<>>]

-----------------------------------------------------------------------------
Init ==
    /\ phase = "idle" /\ cursor = 0 /\ item = 0
    /\ compiles = 0 /\ prev = NoTask /\ spoiled = {}
    /\ prog = NoProgram /\ size = Empty /\ acts = Empty /\ prims = Empty
    /\ removed = {} /\ stages = Empty /\ table_at = Empty
    /\ topo = <<>> /\ levels = Empty
    /\ place = [i \in Proc |-> None] /\ config = Empty
    /\ space = [c \in Cluster |-> [sram |-> NSram, tcam |-> NTcam]]
    /\ number = [c \in Cluster |-> [sram |-> 0, tcam |-> 0]]
    /\ bitmap = [c \in Cluster |-> [sram |-> {}, tcam |-> {}]]
    /\ processors = Empty /\ extra = 0 /\ route = Empty
    /\ err = FALSE /\ incremental = FALSE

(* emitTask: a task of its own, filled by load.  The managers read the     *)
(* syntax tree; a file that cannot be parsed leaves the task without       *)
(* stages, because emitTask ignores the result of load.                    *)
Load(p, j) ==
    /\ compiles' = compiles + 1
    /\ phase' = "remove" /\ cursor' = 0 /\ item' = 0
    /\ prog' = p
    /\ size' = [t \in DOMAIN p.table |->
                  IF p.table[t].keyless THEN [kw |-> j, vw |-> j, depth |-> 1]
                  ELSE [kw |-> p.table[t].kw, vw |-> p.table[t].vw, depth |-> p.table[t].depth]]
    /\ acts' = [s \in DOMAIN p.stage |-> p.stage[s].acts]
    /\ prims' = p.prims
    /\ removed' = {} /\ stages' = Empty /\ table_at' = Empty
    /\ topo' = <<>> /\ levels' = Empty
    /\ place' = [i \in Proc |-> None] /\ config' = [t \in DOMAIN p.table |-> NoBlocks]
    /\ space' = [c \in Cluster |-> [sram |-> NSram, tcam |-> NTcam]]
    /\ number' = [c \in Cluster |-> [sram |-> 0, tcam |-> 0]]
    /\ bitmap' = [c \in Cluster |-> [sram |-> {}, tcam |-> {}]]
    /\ processors' = Empty /\ extra' = 0 /\ route' = Empty
    /\ err' = FALSE /\ incremental' = FALSE
    /\ UNCHANGED <<prev, spoiled>>

EmitTask ==
    /\ phase = "idle" /\ compiles < MaxCompile
    /\ compiles > 0 => prog \in Later
    /\ \E p \in IF compiles = 0 THEN Program ELSE Later, j \in Junk : Load(p, j)

-----------------------------------------------------------------------------
(***************************************************************************)
(* initializeStages: a stage that only leads to tables and runs a single   *)
(* action without parameters is merged into the actions that lead to it.   *)
(***************************************************************************)
Virtual(p, s) ==
    /\ \A i \in DOMAIN p.stage[s].switch : p.stage[s].switch[i].kind = "TABLE"
    /\ Len(p.stage[s].acts) = 1
    /\ p.stage[s].acts[1].act \notin p.params

(* The action of a virtual stage and where it leads, as the program has it *)
(* and not as earlier merges have left it.                                 *)
VirtualAction(s) == prog.stage[s].acts[1].act
Goto(s) == prog.stage[s].acts[1].next

LValues(a) == {x.lvalue : x \in prims[a]}

(* The entries of action_proc that lead to stage s.                        *)
LeadTo(s) ==
    {e \in UNION {{r} \X DOMAIN acts[r] : r \in DOMAIN acts \ removed} :
        acts[e[1]][e[2]].next = s}

ActOf(e) == acts[e[1]][e[2]].act
Before(e, f) == e[1] < f[1] \/ (e[1] = f[1] /\ e[2] < f[2])

(* concatAction succeeds unless an lvalue is assigned by both actions; two *)
(* entries of one action share it, so the second finds the lvalues there.  *)
CanConcat(s, e) ==
    LET a == VirtualAction(s) IN
    /\ LValues(ActOf(e)) \cap LValues(a) = {}
    /\ prims[a] # {} =>
         ~\E f \in LeadTo(s) : ActOf(f) = ActOf(e) /\ Before(f, e)

(* Mutant: a stage goes when it could be joined to one of its entries.     *)
RemovableAny(s, joined) == joined # {} \/ LeadTo(s) = {}

(* conflict_flag: entries that cannot be joined keep the stage.            *)
Removable(s, joined) == joined = LeadTo(s)

RemoveEmpty ==
    /\ phase = "remove" /\ cursor \in DOMAIN prog.stage
    /\ cursor' = cursor + 1
    /\ IF Virtual(prog, cursor)
       THEN LET joined == {e \in LeadTo(cursor) : CanConcat(cursor, e)} IN
            /\ acts' = [r \in DOMAIN acts |-> [i \in DOMAIN acts[r] |->
                          IF <<r, i>> \in joined
                          THEN [acts[r][i] EXCEPT !.next = Goto(cursor)]
                          ELSE acts[r][i]]]
            /\ prims' = [a \in DOMAIN prims |->
                           IF \E e \in joined : ActOf(e) = a
                           THEN prims[a] \cup prims[VirtualAction(cursor)]
                           ELSE prims[a]]
            /\ removed' = IF Removable(cursor, joined) THEN removed \cup {cursor} ELSE removed
       ELSE UNCHANGED <<acts, prims, removed>>
    /\ UNCHANGED <<phase, item, compiles, prev, spoiled, prog, size, stages, table_at, levelVars,
                   memVars, outVars, flagVars>>

-----------------------------------------------------------------------------
(***************************************************************************)
(* The second half of initializeStages, and the loads of the gateways and  *)
(* of the tables' ids (setupStages).                                       *)
(***************************************************************************)
Kept == DOMAIN prog.stage \ removed
Rank(s) == Cardinality({r \in Kept : r < s})

(* The merged stages from s on, each leading to the next.                  *)
MergedFrom(s) ==
    {r \in removed : \A S \in SUBSET removed :
        s \in S /\ (\A q \in S : Goto(q) \in removed => Goto(q) \in S) => r \in S}

(* A merged stage whose successor was merged too becomes a copy of it, and *)
(* so on: the last merged stage of the chain.                              *)
LastMerged(s) ==
    IF s \in removed THEN CHOOSE r \in MergedFrom(s) : Goto(r) \notin removed ELSE s

(* Merged stages that lead to each other in a circle have no last one.     *)
Endless == \E S \in SUBSET removed \ {{}} : \A s \in S : Goto(s) \in S

(* reorder_map.  A copied stage has lost its number, which operator[] then *)
(* maps to 0.  j is what is found for a merged stage that leads to None,   *)
(* because logical_stages[-1] is read.                                     *)
Reorder(s, j) ==
    CASE s = None -> None
      [] s \in Kept -> Rank(s)
      [] s \in removed /\ Goto(s) \in removed -> 0
      [] s \in removed /\ Goto(s) \in Kept -> Rank(Goto(s))
      [] OTHER -> j

StageTables(s) ==
    LET switch == prog.stage[s].switch
        tables == Picked(switch, {i \in DOMAIN switch : switch[i].kind = "TABLE"})
    IN [i \in DOMAIN tables |-> tables[i].id]

Target(e, j) ==
    IF e.kind = "TABLE" \/ e.id = None THEN [kind |-> e.kind, id |-> e.id]
    ELSE [kind |-> "STAGE", id |-> Reorder(LastMerged(e.id), j)]

(* Without a default entry the first entry is the default too, and the two *)
(* are one object.                                                         *)
StageRecord(s, j) ==
    LET switch == prog.stage[s].switch
        defaults == Picked(switch, {i \in DOMAIN switch : switch[i].default})
        entries == Picked(switch, {i \in DOMAIN switch : ~switch[i].default})
    IN [from |-> s,
        headers |-> prog.stage[s].headers,
        tables |-> StageTables(s),
        acts |-> [i \in DOMAIN acts[s] |->
                    [act |-> acts[s][i].act, next |-> Reorder(acts[s][i].next, j)]],
        default |-> Target(IF defaults = <<>> THEN entries[1] ELSE defaults[Len(defaults)], j),
        shared |-> defaults = <<>>,
        entries |-> [i \in DOMAIN entries |-> Target(entries[i], j)]]

(* Mutant: the matchers of a stage are not counted.                        *)
TableAtFirst(t, j) ==
    LET users == {s \in DOMAIN prog.stage : t \in Elements(StageTables(LastMerged(s)))}
    IN [stage |-> IF users = {} THEN 0 ELSE Reorder(LastMerged(Max(users)), j), matcher |-> 1]

(* setMatcherId: the last stage that lists a table gives it its ids.       *)
TableAt(t, j) ==
    LET lists(s) == Elements(StageTables(LastMerged(s)))
        users == {s \in DOMAIN prog.stage : t \in lists(s)}
        user == LastMerged(Max(users))
    IN IF users = {} THEN [stage |-> 0, matcher |-> 1]
       ELSE [stage |-> Reorder(user, j),
             matcher |-> Max({i \in DOMAIN StageTables(user) : StageTables(user)[i] = t})]

Renumber ==
    /\ phase = "remove" /\ cursor \notin DOMAIN prog.stage
    /\ ~Endless
    /\ phase' = "parsers"
    /\ \E j \in {None} \cup 0 .. Cardinality(Kept) - 1 :
         /\ stages' = [x \in 0 .. Cardinality(Kept) - 1 |->
                         StageRecord(CHOOSE s \in Kept : Rank(s) = x, j)]
         /\ table_at' = [t \in DOMAIN prog.table |-> TableAt(t, j)]
    /\ UNCHANGED <<cursor, item, compiles, prev, spoiled, prog, size, acts, prims, removed, levelVars,
                   memVars, outVars, flagVars>>

Dead == phase' = "dead" /\ UNCHANGED <<cursor, item, compiles, prev, spoiled, stageVars, levelVars,
                                       memVars, outVars, flagVars>>

(* ... or the copy of what lies before the vector kills the compiler, or   *)
(* the loop along the chain never ends.                                    *)
RenumberDead ==
    /\ phase = "remove" /\ cursor \notin DOMAIN prog.stage
    /\ Endless \/ \E s \in removed : Goto(s) = None
    /\ Dead

-----------------------------------------------------------------------------
(* allocateParsers.  Only actions make an edge of the stage graph, stage   *)
(* entries of a gateway do not.                                            *)
NextStages ==
    [x \in DOMAIN stages |->
       {stages[x].acts[i].next : i \in DOMAIN stages[x].acts} \ {None}]

AllocateParsers ==
    /\ phase = "parsers"
    /\ Acyclic(NextStages) /\ Acyclic(NextLevels(prog.parser))
    /\ topo' = topologicalSort(NextStages)
    /\ levels' = distributeParsers(prog.parser, NextStages,
                                   [x \in DOMAIN stages |-> stages[x].headers])
    /\ phase' = IF prev = NoTask THEN "place" ELSE "keep"
    /\ cursor' = 1
    /\ UNCHANGED <<item, compiles, prev, spoiled, stageVars, memVars, outVars, flagVars>>

AllocateParsersDead ==
    /\ phase = "parsers"
    /\ ~(Acyclic(NextStages) /\ Acyclic(NextLevels(prog.parser)))
    /\ Dead
-----------------------------------------------------------------------------
(***************************************************************************)
(* IpsaMemory: the blocks tables take (calculateTableSpace) and their full *)
(* allocation.                                                             *)
(***************************************************************************)
KeyBlocks(t) == size[t].kw * size[t].depth
ValueBlocks(t) == size[t].vw * size[t].depth
InTcam(t) == prog.table[t].mem = "TCAM"

SramOf(t) == ValueBlocks(t) + (IF InTcam(t) THEN 0 ELSE KeyBlocks(t))
TcamOf(t) == IF InTcam(t) THEN KeyBlocks(t) ELSE 0

Total(w, n) ==
    LET sum[i \in 0 .. n] == IF i = 0 THEN 0 ELSE sum[i - 1] + w[i] IN sum[n]

(* proc_space: the tables of a stage together.                             *)
SramSpace(x) ==
    LET tables == stages[x].tables
    IN Total([i \in DOMAIN tables |-> SramOf(tables[i])], Len(tables))
TcamSpace(x) ==
    LET tables == stages[x].tables
    IN Total([i \in DOMAIN tables |-> TcamOf(tables[i])], Len(tables))

ClusterOf(i) == i \div ClusterProcs
InCluster(c) == {i \in Proc : ClusterOf(i) = c /\ place[i] # None}

(* Mutant: the space that is left is not looked at.                        *)
HasRoomProcs(c, x) == Cardinality(InCluster(c)) < ClusterProcs

HasRoom(c, x) ==
    /\ Cardinality(InCluster(c)) < ClusterProcs
    /\ space[c].sram >= SramSpace(x)
    /\ space[c].tcam >= TcamSpace(x)

(* Mutant: the last cluster with room is taken.                            *)
FirstFitLast(x) == Max({c \in Cluster : HasRoom(c, x)})

FirstFit(x) == Min({c \in Cluster : HasRoom(c, x)})

(* First fit, in topological order; a stage that fits nowhere is skipped   *)
(* with a message.                                                         *)
PlaceStage ==
    /\ phase = "place" /\ cursor \in DOMAIN topo
    /\ LET x == topo[cursor]
           c == FirstFit(x)
       IN  IF \E d \in Cluster : HasRoom(d, x)
           THEN /\ place' = [place EXCEPT ![c * ClusterProcs + Cardinality(InCluster(c))] = x]
                /\ space' = [space EXCEPT ![c] = [sram |-> @.sram - SramSpace(x),
                                                  tcam |-> @.tcam - TcamSpace(x)]]
                /\ UNCHANGED err
           ELSE err' = TRUE /\ UNCHANGED <<place, space>>
    /\ cursor' = cursor + 1
    /\ UNCHANGED <<phase, item, compiles, prev, spoiled, stageVars, levelVars, number, bitmap, config,
                   outVars, incremental>>

Placed ==
    /\ phase = "place" /\ cursor \notin DOMAIN topo
    /\ phase' = "config" /\ cursor' = 0 /\ item' = 1
    /\ UNCHANGED <<compiles, prev, spoiled, stageVars, levelVars, memVars, outVars, flagVars>>

(* proc_cluster: a stage without a processor is looked up as 0.            *)
StageCluster(x) ==
    IF \E i \in Proc : place[i] = x
    THEN ClusterOf(CHOOSE i \in Proc : place[i] = x) ELSE 0

Run(from, n) == [i \in 1 .. n |-> from + i - 1]

(* Mutant: a negative count is taken as it is.                             *)
NonNegNot(n) == n

NonNeg(n) == IF n < 0 THEN 0 ELSE n

(* The tables in the order of their stages: key blocks, then value blocks, *)
(* numbered on from the last table of the cluster.                         *)
SetConfig ==
    /\ phase = "config" /\ cursor \in DOMAIN stages /\ item \in DOMAIN stages[cursor].tables
    /\ LET t == stages[cursor].tables[item]
           c == StageCluster(cursor)
           x == number[c].tcam
           y == number[c].sram
           keys == NonNeg(KeyBlocks(t))
           y1 == IF InTcam(t) THEN y ELSE y + keys
       IN  /\ config' = [config EXCEPT
                           ![t].key = @ \o Run(IF InTcam(t) THEN x ELSE y, keys),
                           ![t].value = @ \o Run(y1, NonNeg(ValueBlocks(t)))]
           /\ number' = [number EXCEPT
                           ![c] = [tcam |-> IF InTcam(t) THEN x + keys ELSE x,
                                   sram |-> y1 + NonNeg(ValueBlocks(t))]]
    /\ item' = item + 1
    /\ UNCHANGED <<phase, cursor, compiles, prev, spoiled, stageVars, levelVars, place, space,
                   bitmap, outVars, flagVars>>

NextConfig ==
    /\ phase = "config" /\ cursor \in DOMAIN stages /\ item \notin DOMAIN stages[cursor].tables
    /\ cursor' = cursor + 1 /\ item' = 1
    /\ UNCHANGED <<phase, compiles, prev, spoiled, stageVars, levelVars, memVars, outVars, flagVars>>

FirstExtra == Max(Elements(topo) \cup {0}) + 1

Configured ==
    /\ phase = "config" /\ cursor \notin DOMAIN stages
    /\ phase' = "build" /\ cursor' = 0 /\ extra' = FirstExtra
    /\ UNCHANGED <<item, compiles, prev, spoiled, stageVars, levelVars, memVars, processors, route,
                   flagVars>>

-----------------------------------------------------------------------------
(***************************************************************************)
(* IpsaBuilder::allocateMemory(prev): keep what the last program's tables  *)
(* have.  A table is recognised by its name.                               *)
(***************************************************************************)
Existing == DOMAIN prog.table \cap DOMAIN prev

(* The clusters in which the tables of a stage were.                       *)
OldClusters(x) ==
    {NonNeg(ClusterOf(prev[t].proc)) : t \in {u \in Existing : table_at[u].stage = x}}
        \cup (IF x \in DOMAIN stages THEN {} ELSE {0})

OldCluster(x) == CHOOSE c \in OldClusters(x) : TRUE

(* The stages of a cluster up to x, in topological order.                  *)
UpTo(x) ==
    LET n == CHOOSE k \in DOMAIN topo : topo[k] = x
    IN {topo[k] : k \in {i \in 1 .. n : OldCluster(topo[i]) = OldCluster(x)}}

(* A stage without an old table makes the attempt fail: the processor that *)
(* was found for it is lost in an inner declaration of target.             *)
CanKeep ==
    /\ \A t \in Existing : Cardinality(OldClusters(table_at[t].stage)) = 1
    /\ \A x \in DOMAIN stages : OldClusters(x) # {}
    /\ \A x \in DOMAIN stages :
         /\ Cardinality(UpTo(x)) <= ClusterProcs
         /\ MapThenSumSet(SramSpace, UpTo(x)) <= NSram
         /\ MapThenSumSet(TcamSpace, UpTo(x)) <= NTcam

BlocksIn(c, mem, t) ==
    IF NonNeg(OldCluster(table_at[t].stage)) # c THEN {}
    ELSE (IF prev[t].mem = mem THEN Elements(prev[t].key) ELSE {})
           \cup (IF mem = "SRAM" THEN Elements(prev[t].value) ELSE {})

(* Mutant: the old tables' blocks are not copied.                          *)
OldBlocksNone(t) == NoBlocks

OldBlocks(t) == [key |-> prev[t].key, value |-> prev[t].value]

(* physical_proc_id is not initialised here, so the processors without a   *)
(* stage are looked up as 0: they become copies of stage 0.                *)
KeepMemory ==
    /\ phase = "keep" /\ CanKeep
    /\ incremental' = TRUE
    /\ place' = [i \in Proc |->
                   LET here == {x \in DOMAIN stages :
                                  OldCluster(x) * ClusterProcs + Cardinality(UpTo(x)) - 1 = i}
                   IN IF here = {} THEN 0 ELSE CHOOSE x \in here : TRUE]
    /\ config' = [t \in DOMAIN prog.table |->
                    IF t \in Existing THEN OldBlocks(t) ELSE NoBlocks]
    /\ bitmap' = [c \in Cluster |->
                    [sram |-> UNION {BlocksIn(c, "SRAM", t) : t \in Existing},
                     tcam |-> UNION {BlocksIn(c, "TCAM", t) : t \in Existing}]]
    /\ phase' = "new" /\ cursor' = 0
    /\ UNCHANGED <<item, compiles, prev, spoiled, stageVars, levelVars, space, number, outVars, err>>

KeepFails ==
    /\ phase = "keep" /\ ~CanKeep
    /\ phase' = "place" /\ cursor' = 1
    /\ UNCHANGED <<item, compiles, prev, spoiled, stageVars, levelVars, memVars, outVars, flagVars>>

New == {t \in DOMAIN prog.table \ Existing : t >= cursor}
Copies(n, S) == [i \in 1 .. (IF S = {} THEN 0 ELSE n) |-> Min(S)]
FirstFew(n, S) ==
    [i \in 1 .. Min({n, Cardinality(S)}) |->
        CHOOSE x \in S : Cardinality({y \in S : y < x}) = i - 1]

(* The blocks of a new table, in the order of the names.  A free SRAM      *)
(* block is looked for in one bitmap and marked in the other, that of the  *)
(* TCAM blocks: every SRAM block of the cluster's new tables is the same.  *)
NewTable ==
    /\ phase = "new" /\ New # {}
    /\ LET t == Min(New)
           c == NonNeg(OldCluster(table_at[t].stage))
           sram == (0 .. NSram - 1) \ bitmap[c].sram
           tcam == (0 .. NTcam - 1) \ bitmap[c].tcam
           key == IF InTcam(t) THEN FirstFew(NonNeg(KeyBlocks(t)), tcam)
                  ELSE Copies(NonNeg(KeyBlocks(t)), sram)
           value == Copies(NonNeg(ValueBlocks(t)), sram)
       IN  /\ config' = [config EXCEPT ![t] = [key |-> key, value |-> value]]
           /\ bitmap' = [bitmap EXCEPT ![c].tcam = @ \cup Elements(key) \cup Elements(value)]
           /\ cursor' = t + 1
    /\ UNCHANGED <<phase, item, compiles, prev, spoiled, stageVars, levelVars, place, space, number,
                   outVars, flagVars>>

KeepDone ==
    /\ phase = "new" /\ New = {}
    /\ phase' = "build" /\ cursor' = 0 /\ extra' = FirstExtra
    /\ UNCHANGED <<item, compiles, prev, spoiled, stageVars, levelVars, memVars, processors, route,
                   flagVars>>

-----------------------------------------------------------------------------
(***************************************************************************)
(* allocateProcessors.  A stage with more levels than one processor parses *)
(* gets processors that only parse, each leading to the next.              *)
(***************************************************************************)
Chunk(seq, n) ==
    SubSeq(seq, n * MaxLevel + 1,
           IF (n + 1) * MaxLevel < Len(seq) THEN (n + 1) * MaxLevel ELSE Len(seq))

BuildProcessor ==
    /\ phase = "build" /\ cursor \in Proc
    /\ place[cursor] = None \/ place[cursor] \in DOMAIN stages
    /\ LET x == place[cursor]
           lv == levels[x]
           more == IF lv = <<>> THEN 0 ELSE (Len(lv) - 1) \div MaxLevel
           free == {k \in Proc \ DOMAIN processors : place[k] = None}
           before(k) == Cardinality({j \in free : j < k})
           taken == {k \in free : before(k) < more}
           only(n) == [id |-> extra + n, levels |-> Chunk(lv, n), only |-> TRUE,
                       next |-> IF (n + 2) * MaxLevel < Len(lv) THEN extra + n + 1 ELSE x]
           rest == [id |-> x, only |-> FALSE, next |-> None,
                    levels |-> SubSeq(lv, Cardinality(taken) * MaxLevel + 1, Len(lv))]
       IN  IF x = None THEN UNCHANGED <<processors, extra, err>>
           ELSE /\ processors' = [k \in DOMAIN processors \cup taken \cup {cursor} |->
                      IF k = cursor THEN rest
                      ELSE IF k \in taken THEN only(before(k))
                      ELSE processors[k]]
                /\ extra' = extra + Cardinality(taken)
                /\ err' = (err \/ Cardinality(taken) < more)
    /\ cursor' = cursor + 1
    /\ UNCHANGED <<phase, item, compiles, prev, spoiled, stageVars, levelVars, memVars, route, incremental>>

(* Without a stage 0 the lookup of the stage finds null.                   *)
BuildProcessorDead ==
    /\ phase = "build" /\ cursor \in Proc
    /\ place[cursor] # None /\ place[cursor] \notin DOMAIN stages
    /\ Dead

(* proc_proc: the first processor with an id stands for it, an unknown id  *)
(* is mapped to 0.                                                         *)
Ids == {processors[i].id : i \in DOMAIN processors}

(* Mutant: an action keeps the logical number of its next stage.           *)
PhysicalNot(x) == x

Physical(x) == IF x \in DOMAIN route THEN route[x] ELSE 0

(* No table is listed by two stages, or twice by one.                      *)
OwnTables ==
    \A s, r \in DOMAIN prog.stage :
        \A i \in DOMAIN StageTables(s), k \in DOMAIN StageTables(r) :
            StageTables(s)[i] = StageTables(r)[k] => s = r /\ i = k

(* No table was added, and none moved to another kind of memory.           *)
SameTables ==
    /\ DOMAIN prog.table \subseteq DOMAIN prev
    /\ \A t \in DOMAIN prog.table : prog.table[t].mem = prev[t].mem

Keyless == \E t \in DOMAIN prog.table : prog.table[t].keyless

(* What makes blocks of tables meet: an error, a table of two stages, one  *)
(* without keys, and in an incremental compilation a new or changed table, *)
(* or a copy of stage 0 that stands for it in another cluster.             *)
Trouble == {"error", "shared", "keyless", "changed", "copies"}

Spoils(r) ==
    {w \in Trouble :
        \/ w = "error" /\ err
        \/ w = "shared" /\ ~OwnTables
        \/ w = "keyless" /\ Keyless
        \/ w = "changed" /\ incremental /\ ~SameTables
        \/ w = "copies" /\ incremental /\ ClusterOf(r[0]) # OldCluster(0)}

Output ==
    /\ phase = "build" /\ cursor \notin Proc
    /\ LET at(x) == Min({i \in DOMAIN processors : processors[i].id = x})
           r == [x \in Ids \cup {None} |-> IF x = None THEN None ELSE at(x)]
       IN  /\ route' = r
           /\ prev' = [t \in DOMAIN prog.table |->
                 [proc |-> IF table_at[t].stage \in DOMAIN r THEN r[table_at[t].stage] ELSE 0,
                  mem |-> prog.table[t].mem, key |-> config[t].key, value |-> config[t].value]]
           /\ spoiled' = (IF incremental THEN spoiled ELSE {}) \cup Spoils(r)
    /\ phase' = "idle" /\ cursor' = 0
    /\ UNCHANGED <<item, compiles, stageVars, levelVars, memVars, processors, extra, flagVars>>

-----------------------------------------------------------------------------
Next ==
    \/ EmitTask
    \/ RemoveEmpty
    \/ Renumber
    \/ RenumberDead
    \/ AllocateParsers
    \/ AllocateParsersDead
    \/ PlaceStage
    \/ Placed
    \/ SetConfig
    \/ NextConfig
    \/ Configured
    \/ KeepMemory
    \/ KeepFails
    \/ NewTable
    \/ KeepDone
    \/ BuildProcessor
    \/ BuildProcessorDead
    \/ Output

Spec == Init /\ [][Next]_vars
-----------------------------------------------------------------------------
(***************************************************************************)
(* Properties of what a compilation has put out.                           *)
(***************************************************************************)
Done == phase = "idle" /\ compiles > 0

(* The variables have the types of the managers' members.                  *)
TypeOK ==
    /\ phase \in {"idle", "remove", "parsers", "keep", "new", "place", "config",
                  "build", "dead"}
    /\ cursor \in Nat /\ item \in Nat
    /\ compiles \in 0 .. MaxCompile
    /\ removed \subseteq DOMAIN prog.stage
    /\ Elements(topo) \subseteq DOMAIN stages
    /\ place \in [Proc -> DOMAIN stages \cup {None, 0}]
    /\ space \in [Cluster -> [sram : Int, tcam : Int]]
    /\ number \in [Cluster -> [sram : Nat, tcam : Nat]]
    /\ DOMAIN config = DOMAIN prog.table
    /\ extra \in Nat
    /\ \A x \in DOMAIN route : route[x] \in Proc \cup {None}
    /\ err \in BOOLEAN /\ incremental \in BOOLEAN /\ spoiled \subseteq Trouble

(* On every way through the actions of the program, from a stage nothing   *)
(* leads to up to a stage x, the levels that extract x's headers are       *)
(* parsed, and each level after the levels that lead to it, although the   *)
(* levels are spread over the stages of the way and shared with other ways *)
(* (distributeParsers).                                                    *)
LevelsReady ==
    Done => LET next == NextStages
                before == NextLevels(prog.parser)
            IN
        \A n \in 1 .. Cardinality(DOMAIN stages) : \A way \in [1 .. n -> DOMAIN stages] :
            /\ Preds(next, way[1]) = {}
            /\ \A i \in 1 .. n - 1 : way[i + 1] \in next[way[i]]
            =>
            /\ HeaderLevels(prog.parser, stages[way[n]].headers)
                 \subseteq UNION {Elements(levels[way[i]]) : i \in 1 .. n}
            /\ \A i \in 1 .. n : \A k \in DOMAIN levels[way[i]] :
                 \A l \in Preds(before, levels[way[i]][k]) :
                    \/ \E h \in 1 .. i - 1 : l \in Elements(levels[way[h]])
                    \/ \E m \in 1 .. k - 1 : levels[way[i]][m] = l

(* The blocks of a table in the memory of its kind.                        *)
Blocks(t) ==
    {<<prog.table[t].mem, b>> : b \in Elements(config[t].key)}
        \cup {<<"SRAM", b>> : b \in Elements(config[t].value)}

(* No two tables of one cluster share a block, and no block lies beyond    *)
(* the cluster's memory.                                                   *)
NoSharedBlocks ==
    \A x, y \in DOMAIN stages :
        \A t \in Elements(stages[x].tables), u \in Elements(stages[y].tables) :
            /\ \A b \in Blocks(t) : b[2] < (IF b[1] = "SRAM" THEN NSram ELSE NTcam)
            /\ t # u /\ ClusterOf(Physical(x)) = ClusterOf(Physical(y)) =>
                 Blocks(t) \cap Blocks(u) = {}

(* If, since the last full allocation, there was no error, no table        *)
(* without keys or of two stages, and no incremental compilation that      *)
(* added a table, changed its kind of memory or has a copy of stage 0 in   *)
(* front of it, the tables are apart.  This is what the matchers of the    *)
(* dataplane rely on (ipsa_memory.h).                                      *)
BlocksDisjoint == Done /\ spoiled = {} => NoSharedBlocks

(* A number that is renumbered n times.                                    *)
Renumbered(x, n) ==
    LET again[k \in 0 .. n] ==
            IF k = 0 THEN x
            ELSE IF again[k - 1] \in DOMAIN route THEN route[again[k - 1]] ELSE again[k - 1]
    IN again[n]

(* A gateway's default entry, renumbered once for every processor that     *)
(* points to the gateway.                                                  *)
DefaultOut(x) ==
    Renumbered(stages[x].default.id,
               Cardinality({i \in DOMAIN processors : processors[i].id = x}))

LeadsTo(q, x) ==
    IF x = None THEN q = None
    ELSE q \in DOMAIN processors /\ processors[q].id = x

(* After the renumbering every action leads to a processor that holds the  *)
(* stage it led to before, in full and in incremental compilations, and so *)
(* does the default entry of each gateway after a full one                 *)
(* (reorderStages, setNextId).                                             *)
RoutesKept ==
    Done /\ ~err => \A x \in DOMAIN stages :
        /\ \A i \in DOMAIN stages[x].acts :
              LeadsTo(Physical(stages[x].acts[i].next), stages[x].acts[i].next)
        /\ ~incremental /\ stages[x].default.kind = "STAGE" =>
              LeadsTo(DefaultOut(x), stages[x].default.id)

(* Where a packet goes from a node on until it meets one that does not     *)
(* simply lead to another, and what is assigned on the way.                *)
Onward(nodes, to, does) ==
    LET way[x \in nodes] ==
            IF x \notin DOMAIN to THEN [stop |-> x, did |-> {}]
            ELSE [stop |-> way[to[x]].stop, did |-> does[x] \cup way[to[x]].did]
    IN way

(* ... in the program, through its virtual stages,                         *)
VirtualStages == {s \in DOMAIN prog.stage : Virtual(prog, s)}
Way == Onward(DOMAIN prog.stage \cup {None},
              [s \in VirtualStages |-> Goto(s)],
              [s \in VirtualStages |-> prog.prims[VirtualAction(s)]])

(* ... and in what is left of it, through those that were not merged.      *)
VirtualLeft == {x \in DOMAIN stages : stages[x].from \in VirtualStages}
MergedWay == Onward(DOMAIN stages \cup {None},
                    [x \in VirtualLeft |-> stages[x].acts[1].next],
                    [x \in VirtualLeft |-> prims[stages[x].acts[1].act]])

From(x) == IF x = None THEN None ELSE stages[x].from

AllEntries == UNION {{s} \X DOMAIN prog.stage[s].acts : s \in DOMAIN prog.stage}
EntryAct(e) == prog.stage[e[1]].acts[e[2]].act

(* No action is run by two entries, so a merge changes one entry only.     *)
OwnActions == \A e, f \in AllEntries : EntryAct(e) = EntryAct(f) => e = f

(* No merged stage led to another one or to None.                          *)
NoChain == \A s \in removed : Goto(s) \in Kept

(* Merging virtual stages changes nothing for a packet: from each entry of *)
(* a remaining stage the same assignments are made, and the same stage     *)
(* that is not virtual is reached, as in the program, also when a stage    *)
(* could be merged into some of the actions before it only                 *)
(* (initializeStages, concatAction).                                       *)
EffectsKept ==
    Done /\ OwnActions /\ NoChain =>
        \A x \in DOMAIN stages \ VirtualLeft : \A i \in DOMAIN stages[x].acts :
            LET was == prog.stage[stages[x].from].acts[i]
                is == stages[x].acts[i]
            IN  /\ From(MergedWay[is.next].stop) = Way[was.next].stop
                /\ prims[is.act] \cup MergedWay[is.next].did
                     = prog.prims[was.act] \cup Way[was.next].did

(* The dataplane starts every packet at processor 0.  After a full         *)
(* compilation that is the first stage in topological order, one that      *)
(* nothing leads to.                                                       *)
EntryFirst ==
    Done /\ ~err /\ ~incremental /\ DOMAIN stages # {} =>
        /\ 0 \in DOMAIN processors /\ ~processors[0].only
        /\ Preds(NextStages, processors[0].id) = {}

(* emitUpdate: the processor and the matcher a table update is sent to.    *)
UpdateProc(t) == Physical(table_at[t].stage)
UpdateMatcher(t) == table_at[t].matcher

(* An update for a table of a remaining stage reaches that table, not      *)
(* another one of the same or of another processor, also after the stages  *)
(* were numbered twice and merged stages, which list their tables too,     *)
(* have become copies of each other (emitUpdate, setMatcherId,             *)
(* reorderStages).                                                         *)
UpdatesReach ==
    Done /\ ~err /\ OwnTables => \A x \in DOMAIN stages : \A t \in Elements(stages[x].tables) :
        /\ LeadsTo(UpdateProc(t), x)
        /\ stages[x].tables[UpdateMatcher(t)] = t

(* An incremental compilation leaves a table that had a processor in its   *)
(* cluster and on its blocks, so its entries survive, although its stage   *)
(* may move to another processor.  (Stage 0 is left out: its copies on the *)
(* unused processors may stand for it.)                                    *)
KeptInPlace ==
    [][phase = "build" /\ phase' = "idle" /\ incremental =>
         \A t \in Existing :
            table_at[t].stage \in DOMAIN stages \ {0} /\ prev[t].proc # None =>
                /\ ClusterOf(prev'[t].proc) = ClusterOf(prev[t].proc)
                /\ prev'[t].key = prev[t].key /\ prev'[t].value = prev[t].value]_vars
=============================================================================
