------------------------------- MODULE Switch -------------------------------
(***************************************************************************)
(* A packet's way through the pipeline while the controller loads and      *)
(* reloads it (sw-src/dataplane/pipeline.h, processor.h, executor.h and    *)
(* extract() of sw-src/controller/ctrl_init_dataplane.h).                  *)
(*                                                                         *)
(* A processor parses, asks its gateway for the next operation, and either *)
(* sends the packet to another processor or looks it up in a table; the    *)
(* action found names the next processor and is then executed.  Parser,    *)
(* expressions and tables stand here for the outcomes they can have;       *)
(* Parser, Gateway and Matcher say which outcome it is.                    *)
(*                                                                         *)
(* The controller sends a configuration call by call, processor after      *)
(* processor, while packets pass; it may send the entries of a gateway,    *)
(* the tables and the actions of a processor in any order.  The table tool *)
(* adds entries at any time.                                               *)
(***************************************************************************)
EXTENDS Integers

CONSTANTS
    NProc,      \* PROC_NUM
    Tab,        \* the matcher threads of a processor
    Act,        \* action ids
    Params,     \* the actions that take parameters
    Key,        \* the bitmaps of a gateway
    Block,      \* SRAM blocks
    Config,     \* the configurations of the controller
    MaxUpdate   \* bound: how many configurations it sends

Proc == 0 .. NProc - 1
Out == -1               \* next_proc_id: the packet leaves the pipeline
NoAction == -1          \* miss_act_id of a thread without configuration
Absent == -2            \* an action that is not in an action_proc_map
ZeroAction == 0         \* what a cleared word is read as

Table(t) == [type |-> "TABLE", val |-> t]
Stage(p) == [type |-> "STAGE", val |-> p]
Op == {Table(t) : t \in Tab} \cup {Stage(p) : p \in Proc \cup {Out}}
Wild == [type |-> "WILD", val |-> 0]    \* an entry that was never written
NoOp == [type |-> "NONE", val |-> 0]    \* a bitmap that is not in res_next

(* A configuration of processor p: the number of the gateway's             *)
(* expressions, its default entry and its map; the tables, each with its   *)
(* miss action, the processors its actions lead to, the blocks with the    *)
(* first words of its values (heads), its other blocks (rest) and its      *)
(* kind; and the actions of the executor.                                  *)
WellFormed(c, p) ==
    /\ c.exps[p] \in Nat
    /\ c.default[p] \in Op
    /\ DOMAIN c.entries[p] \subseteq Key
    /\ \A k \in DOMAIN c.entries[p] : c.entries[p][k] \in Op
    /\ c.tabs[p] \subseteq Tab /\ c.exact[p] \subseteq c.tabs[p] /\ c.acts[p] \subseteq Act
    /\ \A t \in c.tabs[p] :
          /\ c.miss[p][t] \in Act
          /\ c.heads[p][t] \subseteq Block /\ c.rest[p][t] \subseteq Block
          /\ DOMAIN c.next[p][t] \subseteq Act
          /\ \A a \in DOMAIN c.next[p][t] : c.next[p][t][a] \in Proc \cup {Out}

ASSUME ConfigAssumption ==
    /\ NProc \in Nat \ {0} /\ 0 \in Tab /\ ZeroAction \in Act /\ Act \subseteq Nat
    /\ MaxUpdate \in Nat /\ Key # {} /\ Config # {}
    /\ \A c \in Config : c.procs \subseteq Proc /\ \A p \in c.procs : WellFormed(c, p)

VARIABLES
    if_work,        \* per processor: the parser works
    default_entry,  \* per processor
    res_next,       \* per processor and bitmap
    exps,           \* per processor: size, capacity and cells written of the vector
    no_table,       \* per processor and thread
    miss_act_id,    \* per processor and thread
    table,          \* per processor and thread: its blocks and its kind
    action_proc_map,    \* per processor and thread: the processor of each action
    words,          \* per block: the actions that its words can be read as
    actions,        \* per processor: the actions inserted
    cfg, updates,   \* the controller: the configuration it sends
    cur, at, tab,   \* ... its place in extract(): processor, call, table
    ents, tabs, acts,   \* ... what it has still to send to the processor
    pp, proc, op, action, match_value, next_proc,   \* the packet
    bitmap,         \* ... what the gateway has found in res_next
    ones,           \* ... its parse met the key that an empty slot stands for
    loaded,         \* history: per processor the configuration last begun with it
    quiet           \* history: no call met the packet, nor an open update

gateVars == <<default_entry, res_next, exps>>
tableVars == <<no_table, miss_act_id, table>>
cfgVars == <<if_work, gateVars, tableVars, actions, loaded>>
mapVars == <<action_proc_map, words>>
leftVars == <<ents, tabs, acts>>
ctlVars == <<cfg, updates, cur, at, tab, leftVars>>
pktVars == <<pp, proc, op, action, match_value, next_proc, bitmap, ones>>
vars == <<cfgVars, mapVars, ctlVars, pktVars, quiet>>

-----------------------------------------------------------------------------
EmptyMap == [a \in Act \cup {NoAction} |-> Absent]
EmptyGate == [k \in Key |-> NoOp]
NoTable == [heads |-> {}, rest |-> {}, exact |-> TRUE]
AnyKey == CHOOSE k \in Key : TRUE
AnyConfig == CHOOSE c \in Config : TRUE

Init ==
    /\ if_work = [p \in Proc |-> 0]
    /\ default_entry = [p \in Proc |-> Wild]
    /\ res_next = [p \in Proc |-> EmptyGate]
    /\ exps = [p \in Proc |-> [size |-> 0, cap |-> 0, set |-> 0]]
    /\ no_table = [p \in Proc |-> [t \in Tab |-> TRUE]]
    /\ miss_act_id = [p \in Proc |-> [t \in Tab |-> NoAction]]
    /\ table = [p \in Proc |-> [t \in Tab |-> NoTable]]
    /\ action_proc_map = [p \in Proc |-> [t \in Tab |-> EmptyMap]]
    /\ words = [b \in Block |-> {ZeroAction}]
    /\ actions = [p \in Proc |-> {}]
    /\ cfg = AnyConfig /\ updates = 0 /\ loaded = [p \in Proc |-> cfg]
    /\ cur = NProc /\ at = "done" /\ tab = 0 /\ ents = {} /\ tabs = {} /\ acts = {}
    /\ pp = "idle" /\ proc = 0 /\ op = Table(0) /\ action = 0
    /\ match_value = "none" /\ next_proc = 0 /\ bitmap = AnyKey /\ ones = FALSE
    /\ quiet = TRUE

Disturb == quiet' = (quiet /\ pp = "idle")

(***************************************************************************)
(* The controller: extract() and, call by call, the handlers.              *)
(***************************************************************************)
extract(c) ==
    /\ at = "done" /\ updates < MaxUpdate
    /\ cfg' = c /\ updates' = updates + 1
    /\ cur' = 0 /\ at' = "parser"
    /\ Disturb
    /\ UNCHANGED <<cfgVars, mapVars, tab, leftVars, pktVars>>

(* Mutant: the last action of a processor is not sent.                     *)
ActionsShort(c, p) == {a \in c.acts[p] : \E b \in c.acts[p] : b > a}

(* What extract_gateway, extract_matcher and extract_executor send to a    *)
(* processor: each entry of the gateway's map, each table, each action.    *)
Entries(c, p) == DOMAIN c.entries[p]
Tables(c, p) == c.tabs[p]
Actions(c, p) == c.acts[p]

(* The handler of one call changes nothing of the packet.                  *)
Sends(call, next) ==
    /\ at = call /\ at' = next
    /\ UNCHANGED <<cfg, updates, cur, pktVars, quiet>>

init_parser_level ==
    /\ Sends("parser", "clear") /\ cur \in cfg.procs
    /\ if_work' = [if_work EXCEPT ![cur] = 1]
    /\ loaded' = [loaded EXCEPT ![cur] = cfg]
    /\ ents' = Entries(cfg, cur) /\ tabs' = Tables(cfg, cur) /\ acts' = Actions(cfg, cur)
    /\ UNCHANGED <<gateVars, tableVars, actions, mapVars, tab>>

(* Gateway::clear: the vector keeps its storage and the cells written.     *)
clear_relation_exp ==
    /\ Sends("clear", "exps")
    /\ default_entry' = [default_entry EXCEPT ![cur] = Table(0)]
    /\ res_next' = [res_next EXCEPT ![cur] = EmptyGate]
    /\ exps' = [exps EXCEPT ![cur].size = 0]
    /\ UNCHANGED <<if_work, tableVars, actions, loaded, mapVars, tab, leftVars>>

(* push_back: a full vector moves to storage of twice the size.            *)
Push(v) ==
    [size |-> v.size + 1,
     cap  |-> IF v.size < v.cap THEN v.cap ELSE IF v.cap = 0 THEN 1 ELSE 2 * v.cap,
     set  |-> IF v.size < v.cap /\ v.size < v.set THEN v.set ELSE v.size + 1]

insert_relation_exp ==
    /\ Sends("exps", "exps") /\ exps[cur].size < cfg.exps[cur]
    /\ exps' = [exps EXCEPT ![cur] = Push(@)]
    /\ UNCHANGED <<if_work, default_entry, res_next, tableVars, actions, loaded, mapVars,
                   tab, leftVars>>

set_default_gate_entry ==
    /\ Sends("exps", "list") /\ exps[cur].size = cfg.exps[cur]
    /\ default_entry' = [default_entry EXCEPT ![cur] = cfg.default[cur]]
    /\ UNCHANGED <<if_work, res_next, exps, tableVars, actions, loaded, mapVars, tab, leftVars>>

mod_res_map(k) ==
    /\ Sends("list", "list") /\ k \in ents
    /\ ents' = ents \ {k}
    /\ res_next' = [res_next EXCEPT ![cur][k] = cfg.entries[cur][k]]
    /\ UNCHANGED <<if_work, default_entry, exps, tableVars, actions, loaded, mapVars,
                   tab, tabs, acts>>

(* The blocks that clear_old_config zeroes: all those of an exact table;   *)
(* those of a ternary one only in their lower half.                        *)
Zeroed(m) == IF m.exact THEN m.heads \cup m.rest ELSE {}

(* clear_old_config of the handler setMemConfig ...                        *)
set_mem_config(t) ==
    /\ Sends("list", "mem") /\ ents = {} /\ t \in tabs
    /\ tab' = t /\ tabs' = tabs \ {t}
    /\ no_table' = [no_table EXCEPT ![cur][t] = TRUE]
    /\ miss_act_id' = [miss_act_id EXCEPT ![cur][t] = NoAction]
    /\ action_proc_map' = [action_proc_map EXCEPT ![cur][t] = EmptyMap]
    /\ words' = [b \in Block |-> IF b \in Zeroed(table[cur][t]) THEN {ZeroAction} ELSE words[b]]
    /\ table' = [table EXCEPT ![cur][t] = [heads |-> {}, rest |-> {}, exact |-> @.exact]]
    /\ UNCHANGED <<if_work, gateVars, actions, loaded, ents, acts>>

(* ... and what follows it.                                                *)
SetMemConfigEnd ==
    /\ Sends("mem", "map")
    /\ no_table' = [no_table EXCEPT ![cur][tab] = FALSE]
    /\ miss_act_id' = [miss_act_id EXCEPT ![cur][tab] = cfg.miss[cur][tab]]
    /\ table' = [table EXCEPT ![cur][tab] =
                    [heads |-> cfg.heads[cur][tab], rest |-> cfg.rest[cur][tab],
                     exact |-> tab \in cfg.exact[cur]]]
    /\ UNCHANGED <<if_work, gateVars, actions, loaded, mapVars, tab, leftVars>>

(* Mutant: an action that is in the map keeps its processor.               *)
MergeOld(f, g) == [a \in DOMAIN f |-> IF f[a] # Absent \/ a \notin DOMAIN g THEN f[a] ELSE g[a]]

(* set_action_proc_map adds to the map and overwrites.                     *)
Merge(f, g) == [a \in DOMAIN f |-> IF a \in DOMAIN g THEN g[a] ELSE f[a]]

set_action_proc ==
    /\ Sends("map", "list")
    /\ action_proc_map' = [action_proc_map EXCEPT ![cur][tab] = Merge(@, cfg.next[cur][tab])]
    /\ UNCHANGED <<cfgVars, words, tab, leftVars>>

insert_action(a) ==
    /\ Sends("list", "list") /\ ents = {} /\ tabs = {} /\ a \in acts
    /\ acts' = acts \ {a}
    /\ actions' = [actions EXCEPT ![cur] = @ \cup {a}]
    /\ UNCHANGED <<if_work, gateVars, tableVars, loaded, mapVars, tab, ents, tabs>>

(* The loop goes on to the next processor; one that the configuration does *)
(* not have is skipped.                                                    *)
NextProcessor ==
    /\ \/ at = "parser" /\ cur \notin cfg.procs
       \/ at = "list" /\ ents = {} /\ tabs = {} /\ acts = {}
    /\ cur' = cur + 1
    /\ at' = IF cur + 1 = NProc THEN "done" ELSE "parser"
    /\ UNCHANGED <<cfgVars, mapVars, cfg, updates, tab, leftVars, pktVars, quiet>>

(* extract() of the table tool adds an entry to a table that has blocks.   *)
(* It sends the value without the action's id, so a is what the first      *)
(* bytes of the parameters, or what they leave of an earlier value, read   *)
(* as: any action.  w is a word of its key, or a further word of the       *)
(* value, where the table has blocks for them.                             *)
add_table_entry(p, t, a, w) ==
    LET m == table[p][t] IN
    /\ m.heads # {} /\ (m.rest = {} => w = ZeroAction)
    /\ words' = [b \in Block |-> words[b] \cup (IF b \in m.heads THEN {a} ELSE {})
                                          \cup (IF b \in m.rest THEN {w} ELSE {})]
    /\ Disturb
    /\ UNCHANGED <<cfgVars, action_proc_map, ctlVars, pktVars>>

-----------------------------------------------------------------------------
(***************************************************************************)
(* The packet thread: Pipeline::execute and Processor::process_packet.     *)
(***************************************************************************)
Arrive ==
    /\ pp = "idle"
    /\ pp' = "parse" /\ proc' = 0 /\ match_value' = "none"
    /\ quiet' = (at = "done")
    /\ UNCHANGED <<cfgVars, mapVars, ctlVars, op, action, next_proc, bitmap, ones>>

Die == pp' = "dead" /\ UNCHANGED proc

(* The parser drops the packet or lets it pass; without work it drops it.  *)
(* A slot of its table that was never written kills the process: if the    *)
(* packet has the key of an empty slot, or while the entries are sent.     *)
parse ==
    /\ pp = "parse"
    /\ \/ pp' = "out" /\ UNCHANGED <<proc, ones>>
       \/ if_work[proc] = 1 /\ pp' = "gateway" /\ UNCHANGED <<proc, ones>>
       \/ if_work[proc] = 1 /\ ones' = TRUE /\ Die
       \/ cur = proc /\ at = "clear" /\ Die /\ UNCHANGED ones
    /\ UNCHANGED <<cfgVars, mapVars, ctlVars, op, action, match_value, next_proc, bitmap, quiet>>

(* Mutant: the test for -1 is missing in Pipeline::execute.                *)
GoOn(q) == pp' = "parse" /\ proc' = q

(* The packet goes to processor q, or leaves.                              *)
Go(q) ==
    /\ pp' = IF q = Out THEN "out" ELSE "parse"
    /\ proc' = IF q = Out THEN proc ELSE q

(* next_op is set: a table, another stage, or what no memory is behind.    *)
Decide(o) ==
    /\ op' = o
    /\ CASE o.type = "TABLE" -> pp' = "match" /\ UNCHANGED proc
         [] o.type = "STAGE" -> Go(o.val)
         [] o.type = "WILD"  -> Die

(* The expressions give some bitmap, which is in the map or not.  A        *)
(* default entry that was never written is any operation.                  *)
GatewayFind ==
    /\ pp = "gateway"
    /\ \E k \in Key :
          \/ /\ res_next[proc][k] = NoOp
             /\ \E o \in IF default_entry[proc] = Wild THEN Op \cup {Wild}
                                                       ELSE {default_entry[proc]} : Decide(o)
             /\ UNCHANGED bitmap
          \/ /\ res_next[proc][k] # NoOp
             /\ bitmap' = k /\ pp' = "get"
             /\ UNCHANGED <<proc, op>>
    /\ UNCHANGED <<cfgVars, mapVars, ctlVars, action, match_value, next_proc, ones, quiet>>

(* operator[] of res_next: a null operation if the key has gone meanwhile, *)
(* which stays in the map.                                                 *)
GatewayGet ==
    /\ pp = "get"
    /\ IF res_next[proc][bitmap] # NoOp
       THEN Decide(res_next[proc][bitmap]) /\ UNCHANGED res_next
       ELSE Decide(Table(0)) /\ res_next' = [res_next EXCEPT ![proc][bitmap] = Table(0)]
    /\ bitmap' = AnyKey
    /\ UNCHANGED <<if_work, default_entry, exps, tableVars, actions, loaded, mapVars, ctlVars,
                   action, match_value, next_proc, ones, quiet>>

(* A cell of the vector that nothing was written to lies below its         *)
(* capacity.                                                               *)
Spare(p) == exps[p].set < exps[p].cap

(* Gateway::execute follows such a cell, or meets a handler of the gateway.*)
GatewayCrash ==
    /\ pp \in {"gateway", "get"}
    /\ \/ pp = "gateway" /\ Spare(proc)
       \/ cur = proc /\ (at \in {"clear", "exps"} \/ (at = "list" /\ ents # {}))
    /\ Die
    /\ UNCHANGED <<cfgVars, mapVars, ctlVars, op, action, match_value, next_proc, bitmap,
                   ones, quiet>>

(* A miss, or no table: the miss action, and the value of the last hit.    *)
MatchMiss ==
    /\ pp = "match"
    /\ action' = miss_act_id[proc][op.val]
    /\ match_value' = IF match_value = "none" THEN "none" ELSE "stale"
    /\ pp' = "route"
    /\ UNCHANGED <<cfgVars, mapVars, ctlVars, proc, op, next_proc, bitmap, ones, quiet>>

(* The actions a hit can give: the ids in the blocks of the table's values,*)
(* whoever wrote them; a key of zeros hits a cleared cell.                 *)
Found(p, t) == UNION {words[b] : b \in table[p][t].heads}

MatchHit ==
    /\ pp = "match"
    /\ ~no_table[proc][op.val]
    /\ action' \in Found(proc, op.val)
    /\ match_value' = "fresh"
    /\ pp' = "route"
    /\ UNCHANGED <<cfgVars, mapVars, ctlVars, proc, op, next_proc, bitmap, ones, quiet>>

(* A lookup of a table that is being configured may kill the process.      *)
MatchCrash ==
    /\ pp = "match"
    /\ at = "mem" /\ <<cur, tab>> = <<proc, op.val>>
    /\ Die
    /\ UNCHANGED <<cfgVars, mapVars, ctlVars, op, action, match_value, next_proc, bitmap,
                   ones, quiet>>

(* operator[] of action_proc_map: processor 0 for an action it has not.    *)
Route ==
    LET m == action_proc_map[proc][op.val] IN
    /\ pp = "route"
    /\ IF m[action] # Absent
       THEN next_proc' = m[action] /\ UNCHANGED action_proc_map
       ELSE /\ next_proc' = 0
            /\ action_proc_map' = [action_proc_map EXCEPT ![proc][op.val][action] = 0]
    /\ pp' = "execute"
    /\ UNCHANGED <<cfgVars, words, ctlVars, proc, op, action, match_value, bitmap, ones, quiet>>

(* The map is read while the handler of the next call changes it, which    *)
(* may kill the process.                                                   *)
MapRace ==
    /\ pp = "route"
    /\ cur = proc
    /\ \/ at = "list" /\ ents = {} /\ op.val \in tabs
       \/ at = "map" /\ tab = op.val
    /\ Die
    /\ UNCHANGED <<cfgVars, mapVars, ctlVars, op, action, match_value, next_proc, bitmap,
                   ones, quiet>>

(* Executor::execute follows the pointer of the action, and for each       *)
(* parameter that of the value matched last.                               *)
ExecuteAction ==
    /\ pp = "execute"
    /\ IF action \in actions[proc] /\ (action \in Params => match_value # "none")
       THEN Go(next_proc)
       ELSE Die
    /\ UNCHANGED <<cfgVars, mapVars, ctlVars, op, action, match_value, next_proc, bitmap,
                   ones, quiet>>

(* main() sends the packet or drops it and waits for the next one.         *)
Leave ==
    /\ pp = "out"
    /\ pp' = "idle" /\ proc' = 0 /\ op' = Table(0) /\ action' = 0
    /\ match_value' = "none" /\ next_proc' = 0
    /\ quiet' = TRUE
    /\ UNCHANGED <<cfgVars, mapVars, ctlVars, bitmap, ones>>

-----------------------------------------------------------------------------
(* The rest of a configuration that was begun.                             *)
Load ==
    /\ pp # "dead"
    /\ \/ init_parser_level
       \/ clear_relation_exp
       \/ insert_relation_exp
       \/ set_default_gate_entry
       \/ \E k \in Key : mod_res_map(k)
       \/ \E t \in Tab : set_mem_config(t)
       \/ SetMemConfigEnd
       \/ set_action_proc
       \/ \E a \in Act : insert_action(a)
       \/ NextProcessor

Controller ==
    \/ pp # "dead" /\ \E c \in Config : extract(c)
    \/ Load
    \/ pp # "dead" /\ \E p \in Proc, t \in Tab, a, w \in Act : add_table_entry(p, t, a, w)

(* A packet that is in the pipeline goes on.                               *)
Advance ==
    \/ parse
    \/ GatewayFind
    \/ GatewayGet
    \/ GatewayCrash
    \/ MatchMiss
    \/ MatchHit
    \/ MatchCrash
    \/ Route
    \/ MapRace
    \/ ExecuteAction
    \/ Leave

Next == Controller \/ Arrive \/ Advance

(* The packet thread runs, and a controller finishes what it has begun.    *)
Fairness == WF_vars(Advance) /\ WF_vars(Load)

Spec == Init /\ [][Next]_vars /\ Fairness

-----------------------------------------------------------------------------
(***************************************************************************)
(* Properties.                                                             *)
(***************************************************************************)

ProcessorTypes ==
    /\ if_work \in [Proc -> {0, 1}]
    /\ default_entry \in [Proc -> Op \cup {Wild}]
    /\ res_next \in [Proc -> [Key -> Op \cup {NoOp}]]
    /\ exps \in [Proc -> [size : Nat, cap : Nat, set : Nat]]
    /\ no_table \in [Proc -> [Tab -> BOOLEAN]]
    /\ miss_act_id \in [Proc -> [Tab -> Act \cup {NoAction}]]
    /\ table \in [Proc -> [Tab -> [heads : SUBSET Block, rest : SUBSET Block, exact : BOOLEAN]]]
    /\ actions \in [Proc -> SUBSET Act]
    /\ loaded \in [Proc -> Config]

MapTypes ==
    /\ action_proc_map \in [Proc -> [Tab -> [Act \cup {NoAction} -> Proc \cup {Out, Absent}]]]
    /\ words \in [Block -> SUBSET Act]

ControllerTypes ==
    /\ cfg \in Config /\ updates \in 0 .. MaxUpdate
    /\ cur \in 0 .. NProc /\ at \in {"parser", "clear", "exps", "list", "mem", "map", "done"}
    /\ tab \in Tab /\ ents \subseteq Key /\ tabs \subseteq Tab /\ acts \subseteq Act

PacketTypes ==
    /\ pp \in {"idle", "parse", "gateway", "get", "match", "route", "execute", "out", "dead"}
    /\ proc \in Proc /\ op \in Op \cup {Wild} /\ action \in Act \cup {NoAction}
    /\ match_value \in {"none", "stale", "fresh"}
    /\ next_proc \in Proc \cup {Out} /\ bitmap \in Key /\ ones \in BOOLEAN

(* The variables have the types of the members they stand for.  An action  *)
(* can be -1 and an entry of a gateway unwritten: the array _actions is    *)
(* then read outside of its bounds (dead).                                 *)
TypeOK == ProcessorTypes /\ MapTypes /\ ControllerTypes /\ PacketTypes /\ quiet \in BOOLEAN

Forward(p, q) == q = Out \/ q > p

(* The configuration c is one that packets can follow through processor p: *)
(* its gateway leads to later processors or to its own tables; the actions *)
(* of a table are in the executor and lead to later processors, and that   *)
(* of a miss is among them.  The compiler does not see to it: first fit    *)
(* can place a later stage on an earlier processor (ipsa_memory.h:72-86),  *)
(* the map of a table has the actions of its stage only, and a missing     *)
(* default action gets the id 0 (ipsa_table_manager.h:69-79), which is     *)
(* some action of the program.                                             *)
Sound(c, p) ==
    /\ \A o \in {c.default[p]} \cup {c.entries[p][k] : k \in DOMAIN c.entries[p]} :
          IF o.type = "TABLE" THEN o.val \in c.tabs[p] ELSE Forward(p, o.val)
    /\ \A t \in c.tabs[p] :
          /\ c.miss[p][t] \in DOMAIN c.next[p][t]
          /\ DOMAIN c.next[p][t] \subseteq c.acts[p]
          /\ c.miss[p][t] \notin Params
          /\ \A a \in DOMAIN c.next[p][t] : Forward(p, c.next[p][t][a])

(* A bitmap that was not configured has an entry left over, and it leads   *)
(* to a table that is none of the configuration's.                         *)
Leftover(p) ==
    /\ 0 \notin loaded[p].tabs[p]
    /\ \E k \in Key \ DOMAIN loaded[p].entries[p] : res_next[p][k] # NoOp

(* The values of a table name an action that it does not have: one of an   *)
(* entry, which the tool sends without the id, a word that another table   *)
(* has left in the blocks, or the action 0 of a cleared cell.              *)
Foreign(p) == \E t \in loaded[p].tabs[p] : ~(Found(p, t) \subseteq DOMAIN loaded[p].next[p][t])

(* What can go wrong on processor p without any race.                      *)
Flawed(p) == ~Sound(loaded[p], p) \/ Leftover(p) \/ Foreign(p)

(* A packet that meets no update and no insertion dies only for one of     *)
(* five reasons: the key that an empty slot of the parser stands for, an   *)
(* unwritten cell of the gateway's vector, a configuration that is not     *)
(* sound, a null operation left over by operator[], an entry with an       *)
(* action that is not the table's.  Whatever else earlier updates and the  *)
(* packets that met them have left behind, on processors of the last       *)
(* configuration and on those it does not name, it runs no action that was *)
(* not inserted, reads no parameter without a value and no operation that  *)
(* was never written (Processor::process_packet, Executor::execute).       *)
QuietNoCrash == pp = "dead" /\ quiet => ones \/ Spare(proc) \/ Flawed(proc)

(* A packet that meets no update and no insertion goes on to a later       *)
(* processor than the one it leaves, or that one's configuration or        *)
(* entries are flawed (Pipeline::execute).  The processor 0 which          *)
(* operator[] answers for an unknown action, and keeps in the map, is      *)
(* never one it is sent to after set_action_proc.                          *)
QuietForward ==
    [][quiet /\ quiet' /\ pp # "idle" /\ pp' = "parse" => proc' > proc \/ Flawed(proc)]_vars

(* Every packet leaves the pipeline or kills the process, unless a         *)
(* processor that is loaded is flawed: a table between set_mem_config and  *)
(* set_action_proc sends packets round through processor 0, but only until *)
(* the controller goes on.                                                 *)
PacketLeaves ==
    pp # "idle" ~>
        (pp \in {"idle", "dead"} \/ \E p \in Proc : if_work[p] = 1 /\ cur # p /\ Flawed(p))
=============================================================================
