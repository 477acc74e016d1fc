---------------------------- MODULE SwitchProofs ----------------------------
(***************************************************************************)
(* The inductive invariant of Switch and the proofs of its properties.     *)
(***************************************************************************)
EXTENDS Switch, TLAPS

Listing == {"list", "mem", "map"}
Sending == {"clear", "exps"} \cup Listing

(* Where the controller is in extract(), and that a processor works only   *)
(* if a configuration that has it was begun.                               *)
PlaceInv ==
    /\ at = "done" <=> cur = NProc
    /\ at \in Sending =>
         /\ cur \in cfg.procs /\ loaded[cur] = cfg /\ acts \subseteq cfg.acts[cur]
         /\ ents \subseteq DOMAIN cfg.entries[cur] /\ tabs \subseteq cfg.tabs[cur]
    /\ at \in {"clear", "exps"} =>
         /\ ents = DOMAIN cfg.entries[cur]
         /\ tabs = cfg.tabs[cur] /\ acts = cfg.acts[cur]
    /\ at \in {"mem", "map"} => tab \in cfg.tabs[cur]
    /\ \A p \in Proc : if_work[p] = 1 => p \in loaded[p].procs

(* The map of a gateway without the entries E that are still to be sent:   *)
(* besides those of the configuration only null operations.                *)
GateLoaded(p, E) ==
    \A k \in Key :
        IF k \in DOMAIN loaded[p].entries[p] \ E
        THEN res_next[p][k] = loaded[p].entries[p][k]
        ELSE res_next[p][k] \in {NoOp, Table(0)}

(* Table t of processor p is as the configuration last begun has it ...    *)
TabLoaded(p, t) ==
    /\ miss_act_id[p][t] = loaded[p].miss[p][t]
    /\ \A a \in DOMAIN loaded[p].next[p][t] : action_proc_map[p][t][a] = loaded[p].next[p][t][a]

(* ... and so is the processor.                                            *)
ProcLoaded(p) ==
    /\ default_entry[p] = loaded[p].default[p]
    /\ GateLoaded(p, {})
    /\ loaded[p].acts[p] \subseteq actions[p]
    /\ \A t \in loaded[p].tabs[p] : TabLoaded(p, t)

(* Every processor that works has all of its configuration, whichever that *)
(* is, except the one that is being loaded; that one has what was sent.    *)
LoadInv ==
    /\ \A p \in Proc : if_work[p] = 1 /\ ~(cur = p /\ at \in Sending) => ProcLoaded(p)
    /\ at \in {"exps"} \cup Listing => GateLoaded(cur, ents)
    /\ at \in Listing =>
         /\ default_entry[cur] = cfg.default[cur]
         /\ cfg.acts[cur] \ acts \subseteq actions[cur]
         /\ \A t \in cfg.tabs[cur] \ tabs :
              at = "list" \/ t # tab => TabLoaded(cur, t)
    /\ at = "map" => miss_act_id[cur][tab] = cfg.miss[cur][tab]

PacketInv == pp \in {"match", "route", "execute"} => op.type = "TABLE" /\ op.val \in Tab

(* What a quiet packet has seen.                                           *)
QuietInv ==
    quiet /\ pp # "idle" =>
        /\ at = "done"
        /\ pp \in {"gateway", "get", "match", "route", "execute"} => if_work[proc] = 1
        /\ pp = "get" => res_next[proc][bitmap] # NoOp
        /\ pp = "dead" => ones \/ Spare(proc) \/ Flawed(proc)
        /\ pp \in {"match", "route", "execute"} /\ ~Flawed(proc) =>
             /\ op.val \in loaded[proc].tabs[proc]
             /\ pp \in {"route", "execute"} =>
                  /\ action \in DOMAIN loaded[proc].next[proc][op.val]
                  /\ action \in Params => match_value # "none"
             /\ pp = "execute" => Forward(proc, next_proc)

(* The inductive invariant.                                                *)
IInv ==
    /\ TypeOK
    /\ PlaceInv
    /\ LoadInv
    /\ PacketInv
    /\ QuietInv

-----------------------------------------------------------------------------
(***************************************************************************)
(* Lemmas about operations, configurations and processors.                 *)
(***************************************************************************)

(* What a gateway can answer.                                              *)
LEMMA OpFacts ==
    ASSUME NEW o \in Op \cup {Wild, NoOp}
    PROVE  /\ o.type \in {"TABLE", "STAGE", "WILD", "NONE"}
           /\ o.type = "TABLE" => o.val \in Tab
           /\ o.type = "STAGE" => o.val \in Proc \cup {Out}
           /\ o \in Op => o.type \in {"TABLE", "STAGE"} /\ o # NoOp /\ o # Wild
           /\ o # NoOp => o.type # "NONE"
<1>1. CASE o \in {Table(t) : t \in Tab}
  BY <1>1 DEF Table, Op, NoOp, Wild
<1>2. CASE o \in {Stage(p) : p \in Proc \cup {Out}}
  BY <1>2 DEF Stage, Op, NoOp, Wild
<1>3. CASE o = Wild
  <2>1. o.type = "WILD"
    BY <1>3 DEF Wild
  <2>2. o \notin Op
    BY <2>1 DEF Op, Table, Stage
  <2> QED
    BY <2>1, <2>2
<1>4. CASE o = NoOp
  <2>1. o.type = "NONE"
    BY <1>4 DEF NoOp
  <2>2. o \notin Op
    BY <2>1 DEF Op, Table, Stage
  <2> QED
    BY <1>4, <2>1, <2>2
<1> QED
  BY <1>1, <1>2, <1>3, <1>4 DEF Op

(* The operation that an unknown bitmap or entry stands for.               *)
LEMMA NullOp == Table(0) \in Op /\ Table(0).type = "TABLE" /\ Table(0).val = 0 /\ 0 \in Tab
  BY ConfigAssumption DEF ConfigAssumption, Op, Table

(* The types of a configuration.                                           *)
LEMMA ConfigFacts ==
    ASSUME NEW c \in Config, NEW p \in c.procs
    PROVE  /\ p \in Proc /\ c.default[p] \in Op
           /\ c.exps[p] \in Nat
           /\ DOMAIN c.entries[p] \subseteq Key
           /\ \A k \in DOMAIN c.entries[p] : c.entries[p][k] \in Op
           /\ c.tabs[p] \subseteq Tab /\ c.acts[p] \subseteq Act
<1>1. c.procs \subseteq Proc /\ WellFormed(c, p)
  BY ConfigAssumption DEF ConfigAssumption
<1> QED
  BY <1>1 DEF WellFormed

(* ... and of a table of it.                                               *)
LEMMA TableFacts ==
    ASSUME NEW c \in Config, NEW p \in c.procs, NEW t \in c.tabs[p]
    PROVE  /\ c.miss[p][t] \in Act /\ t \in Tab
           /\ c.heads[p][t] \subseteq Block /\ c.rest[p][t] \subseteq Block
           /\ DOMAIN c.next[p][t] \subseteq Act
           /\ \A a \in DOMAIN c.next[p][t] :
                 c.next[p][t][a] \in Proc \cup {Out} /\ c.next[p][t][a] # Absent
<1>1. c.procs \subseteq Proc /\ WellFormed(c, p)
  BY ConfigAssumption DEF ConfigAssumption
<1>2. Absent \notin Proc \cup {Out}
  BY ConfigAssumption DEF ConfigAssumption, Absent, Proc, Out
<1> QED
  BY <1>1, <1>2 DEF WellFormed

(* A processor that a step leaves alone.                                   *)
LEMMA ProcFrame ==
    ASSUME NEW p, default_entry'[p] = default_entry[p], res_next'[p] = res_next[p],
           actions'[p] = actions[p], miss_act_id'[p] = miss_act_id[p],
           action_proc_map'[p] = action_proc_map[p], loaded'[p] = loaded[p]
    PROVE  ProcLoaded(p)' <=> ProcLoaded(p)
<1>1. \A t : TabLoaded(p, t)' <=> TabLoaded(p, t)
  BY DEF TabLoaded
<1>2. GateLoaded(p, {})' <=> GateLoaded(p, {})
  BY DEF GateLoaded
<1> QED
  BY <1>1, <1>2 DEF ProcLoaded

(* A step that leaves the controller and all processors alone.             *)
LEMMA CfgFrame ==
    ASSUME LoadInv, UNCHANGED <<cfgVars, action_proc_map, ctlVars>>
    PROVE  LoadInv'
<1>1. /\ UNCHANGED <<if_work, default_entry, res_next, actions, miss_act_id, loaded>>
      /\ UNCHANGED <<action_proc_map, cfg, cur, at, tab, ents, tabs, acts>>
  BY DEF cfgVars, gateVars, tableVars, ctlVars, leftVars
<1>2. \A p : ProcLoaded(p)' <=> ProcLoaded(p)
  BY <1>1, ProcFrame
<1>3. \A t : TabLoaded(cur, t)' <=> TabLoaded(cur, t)
  BY <1>1 DEF TabLoaded
<1>4. GateLoaded(cur, ents)' <=> GateLoaded(cur, ents)
  BY <1>1 DEF GateLoaded
<1> QED
  BY <1>1, <1>2, <1>3, <1>4 DEF LoadInv


-----------------------------------------------------------------------------
(***************************************************************************)
(* Types, and the controller's place.                                      *)
(***************************************************************************)
CodeInv == TypeOK /\ PlaceInv /\ PacketInv

(* The pipeline as the constructors leave it.                              *)
LEMMA CodeInit == Init => CodeInv
<1> SUFFICES ASSUME Init PROVE CodeInv
  OBVIOUS
<1> USE ConfigAssumption DEF ConfigAssumption
<1>1. AnyConfig \in Config /\ AnyKey \in Key
  BY DEF AnyConfig, AnyKey
<1>2. ProcessorTypes
  <2>1. res_next \in [Proc -> [Key -> Op \cup {NoOp}]]
    BY DEF Init, EmptyGate
  <2>2. exps \in [Proc -> [size : Nat, cap : Nat, set : Nat]]
    BY DEF Init
  <2>3. table \in [Proc -> [Tab -> [heads : SUBSET Block, rest : SUBSET Block, exact : BOOLEAN]]]
    BY DEF Init, NoTable
  <2>4. /\ if_work \in [Proc -> {0, 1}] /\ default_entry \in [Proc -> Op \cup {Wild}]
        /\ no_table \in [Proc -> [Tab -> BOOLEAN]] /\ actions \in [Proc -> SUBSET Act]
        /\ miss_act_id \in [Proc -> [Tab -> Act \cup {NoAction}]]
    BY DEF Init
  <2>5. loaded \in [Proc -> Config]
    BY <1>1 DEF Init
  <2> QED
    BY <2>1, <2>2, <2>3, <2>4, <2>5 DEF ProcessorTypes
<1>3. MapTypes
  BY DEF Init, MapTypes, EmptyMap
<1>4. ControllerTypes
  BY <1>1 DEF Init, ControllerTypes
<1>5. PacketTypes
  <2>1. /\ pp = "idle" /\ proc = 0 /\ op = Table(0) /\ action = 0 /\ match_value = "none"
        /\ next_proc = 0 /\ bitmap = AnyKey /\ ones = FALSE
    BY DEF Init
  <2>2. 0 \in Proc /\ 0 \in Act
    BY DEF Proc, ZeroAction
  <2> QED
    BY <1>1, <2>1, <2>2, NullOp DEF PacketTypes
<1>6. PlaceInv /\ PacketInv
  <2>1. PlaceInv
    BY DEF Init, PlaceInv, Sending, Listing
  <2>2. PacketInv
    BY DEF Init, PacketInv
  <2> QED
    BY <2>1, <2>2
<1> QED
  BY <1>2, <1>3, <1>4, <1>5, <1>6 DEF CodeInv, TypeOK, Init

(* A call of extract() goes to a processor of the configuration.           *)
LEMMA SendingFacts ==
    ASSUME CodeInv, at \in Sending
    PROVE  /\ cfg \in Config /\ cur \in cfg.procs /\ cur \in Proc /\ loaded[cur] = cfg
           /\ at \in {"mem", "map"} => tab \in Tab /\ tab \in cfg.tabs[cur]
  BY ConfigFacts DEF CodeInv, PlaceInv, TypeOK, ControllerTypes

(* A call leaves the packet alone; what it has to keep is the rest.        *)
LEMMA SendsCode ==
    ASSUME CodeInv, UNCHANGED <<pktVars, quiet>>,
           ProcessorTypes', MapTypes', ControllerTypes', PlaceInv'
    PROVE  CodeInv'
<1>1. UNCHANGED <<pp, proc, op, action, match_value, next_proc, bitmap, ones>>
  BY DEF pktVars
<1>2. PacketTypes'
  BY <1>1 DEF CodeInv, TypeOK, PacketTypes
<1>3. PacketInv'
  BY <1>1 DEF CodeInv, PacketInv
<1>4. quiet' \in BOOLEAN
  BY DEF CodeInv, TypeOK
<1> QED
  BY <1>2, <1>3, <1>4 DEF CodeInv, TypeOK

(* push_back changes the sizes of a vector.                                *)
LEMMA PushType ==
    ASSUME NEW v \in [size : Nat, cap : Nat, set : Nat]
    PROVE  Push(v) \in [size : Nat, cap : Nat, set : Nat]
  BY DEF Push

(* Every call keeps the types and the place.                               *)
LEMMA LoadCode ==
    ASSUME CodeInv, Load
    PROVE  CodeInv'
<1>0. ProcessorTypes /\ MapTypes /\ ControllerTypes /\ PlaceInv
  BY DEF CodeInv, TypeOK
<1> USE DEF Sends, gateVars, tableVars, cfgVars, mapVars, leftVars
<1>1. CASE init_parser_level
  <2>1. /\ cfg \in Config /\ cur \in cfg.procs /\ cur \in Proc
        /\ DOMAIN cfg.entries[cur] \subseteq Key
        /\ cfg.tabs[cur] \subseteq Tab /\ cfg.acts[cur] \subseteq Act
    BY <1>0, <1>1, ConfigFacts DEF init_parser_level, ControllerTypes
  <2>2. ProcessorTypes'
    BY <1>0, <1>1, <2>1 DEF ProcessorTypes, init_parser_level
  <2>3. MapTypes'
    BY <1>0, <1>1 DEF MapTypes, init_parser_level
  <2>4. ControllerTypes'
    BY <1>0, <1>1, <2>1 DEF ControllerTypes, init_parser_level, Actions, Entries, Tables
  <2>5. PlaceInv'
    <3>1. loaded'[cur] = cfg /\ \A p \in Proc : p # cur => loaded'[p] = loaded[p] /\ if_work'[p] = if_work[p]
      BY <1>0, <1>1, <2>1 DEF ProcessorTypes, init_parser_level
    <3> QED
      BY <1>0, <1>1, <2>1, <3>1 DEF PlaceInv, init_parser_level, Actions, Entries, Tables, Sending, Listing
  <2> QED
    BY <1>1, <2>2, <2>3, <2>4, <2>5, SendsCode DEF init_parser_level
<1>2. CASE clear_relation_exp
  <2>1. cur \in Proc
    BY <1>2, SendingFacts DEF clear_relation_exp, Sending
  <2>2. res_next' \in [Proc -> [Key -> Op \cup {NoOp}]]
    BY <1>0, <1>2, <2>1 DEF ProcessorTypes, clear_relation_exp, EmptyGate
  <2>3. exps' \in [Proc -> [size : Nat, cap : Nat, set : Nat]]
    BY <1>0, <1>2, <2>1 DEF ProcessorTypes, clear_relation_exp
  <2>4. default_entry' \in [Proc -> Op \cup {Wild}]
    BY <1>0, <1>2, <2>1, NullOp DEF ProcessorTypes, clear_relation_exp
  <2>5. ProcessorTypes'
    BY <1>0, <1>2, <2>2, <2>3, <2>4 DEF ProcessorTypes, clear_relation_exp
  <2>6. MapTypes' /\ ControllerTypes'
    BY <1>0, <1>2 DEF MapTypes, ControllerTypes, clear_relation_exp
  <2>7. PlaceInv'
    BY <1>0, <1>2 DEF PlaceInv, clear_relation_exp, Sending, Listing
  <2> QED
    BY <1>2, <2>5, <2>6, <2>7, SendsCode DEF clear_relation_exp
<1>3. CASE insert_relation_exp
  <2>1. cur \in Proc
    BY <1>3, SendingFacts DEF insert_relation_exp, Sending
  <2>2. exps' \in [Proc -> [size : Nat, cap : Nat, set : Nat]]
    BY <1>0, <1>3, <2>1, PushType DEF ProcessorTypes, insert_relation_exp
  <2>3. ProcessorTypes'
    BY <1>0, <1>3, <2>2 DEF ProcessorTypes, insert_relation_exp
  <2>4. MapTypes' /\ ControllerTypes'
    BY <1>0, <1>3 DEF MapTypes, ControllerTypes, insert_relation_exp
  <2>5. PlaceInv'
    BY <1>0, <1>3 DEF PlaceInv, insert_relation_exp, Sending, Listing
  <2> QED
    BY <1>3, <2>3, <2>4, <2>5, SendsCode DEF insert_relation_exp
<1>4. CASE set_default_gate_entry
  <2>1. cur \in Proc /\ cfg.default[cur] \in Op
    BY <1>4, SendingFacts, ConfigFacts DEF set_default_gate_entry, Sending
  <2>2. ProcessorTypes'
    BY <1>0, <1>4, <2>1 DEF ProcessorTypes, set_default_gate_entry
  <2>3. MapTypes' /\ ControllerTypes'
    BY <1>0, <1>4 DEF MapTypes, ControllerTypes, set_default_gate_entry
  <2>4. PlaceInv'
    BY <1>0, <1>4 DEF PlaceInv, set_default_gate_entry, Sending, Listing
  <2> QED
    BY <1>4, <2>2, <2>3, <2>4, SendsCode DEF set_default_gate_entry
<1>5. ASSUME NEW k \in Key, mod_res_map(k) PROVE CodeInv'
  <2>1. cur \in Proc /\ cfg.entries[cur][k] \in Op
    BY <1>0, <1>5, SendingFacts, ConfigFacts DEF mod_res_map, Sending, Listing, PlaceInv
  <2>2. res_next' \in [Proc -> [Key -> Op \cup {NoOp}]]
    BY <1>0, <1>5, <2>1 DEF ProcessorTypes, mod_res_map
  <2>3. ProcessorTypes'
    BY <1>0, <1>5, <2>2 DEF ProcessorTypes, mod_res_map
  <2>4. MapTypes' /\ ControllerTypes'
    BY <1>0, <1>5 DEF MapTypes, ControllerTypes, mod_res_map
  <2>5. PlaceInv'
    BY <1>0, <1>5 DEF PlaceInv, mod_res_map, Sending, Listing
  <2> QED
    BY <1>5, <2>3, <2>4, <2>5, SendsCode DEF mod_res_map
<1>6. ASSUME NEW t \in Tab, set_mem_config(t) PROVE CodeInv'
  <2>0. cur \in Proc /\ EmptyMap \in [Act \cup {NoAction} -> Proc \cup {Out, Absent}]
    BY <1>6, SendingFacts DEF EmptyMap, set_mem_config, Sending, Listing
  <2>1. /\ no_table' \in [Proc -> [Tab -> BOOLEAN]]
        /\ miss_act_id' \in [Proc -> [Tab -> Act \cup {NoAction}]]
    BY <1>0, <1>6 DEF ProcessorTypes, set_mem_config
  <2>2. table' \in [Proc -> [Tab -> [heads : SUBSET Block, rest : SUBSET Block, exact : BOOLEAN]]]
    BY <1>0, <1>6, <2>0 DEF ProcessorTypes, set_mem_config
  <2>3. ProcessorTypes'
    BY <1>0, <1>6, <2>1, <2>2 DEF ProcessorTypes, set_mem_config
  <2>4. action_proc_map' \in [Proc -> [Tab -> [Act \cup {NoAction} -> Proc \cup {Out, Absent}]]]
    BY <1>0, <1>6, <2>0 DEF MapTypes, set_mem_config
  <2>5. words' \in [Block -> SUBSET Act]
    BY <1>0, <1>6, ConfigAssumption DEF MapTypes, set_mem_config, ConfigAssumption
  <2>6. MapTypes'
    BY <2>4, <2>5 DEF MapTypes
  <2>7. ControllerTypes'
    BY <1>0, <1>6 DEF ControllerTypes, set_mem_config
  <2>8. PlaceInv'
    BY <1>0, <1>6 DEF PlaceInv, set_mem_config, Sending, Listing
  <2> QED
    BY <1>6, <2>3, <2>6, <2>7, <2>8, SendsCode DEF set_mem_config
<1>7. CASE SetMemConfigEnd
  <2>1. /\ cur \in Proc /\ tab \in Tab /\ cfg.miss[cur][tab] \in Act
        /\ cfg.heads[cur][tab] \subseteq Block /\ cfg.rest[cur][tab] \subseteq Block
    BY <1>7, SendingFacts, TableFacts DEF SetMemConfigEnd, Sending, Listing
  <2>2. /\ no_table' \in [Proc -> [Tab -> BOOLEAN]]
        /\ miss_act_id' \in [Proc -> [Tab -> Act \cup {NoAction}]]
    BY <1>0, <1>7, <2>1 DEF ProcessorTypes, SetMemConfigEnd
  <2>3. table' \in [Proc -> [Tab -> [heads : SUBSET Block, rest : SUBSET Block, exact : BOOLEAN]]]
    BY <1>0, <1>7, <2>1 DEF ProcessorTypes, SetMemConfigEnd
  <2>4. ProcessorTypes'
    BY <1>0, <1>7, <2>2, <2>3 DEF ProcessorTypes, SetMemConfigEnd
  <2>5. MapTypes' /\ ControllerTypes'
    BY <1>0, <1>7 DEF MapTypes, ControllerTypes, SetMemConfigEnd
  <2>6. PlaceInv'
    BY <1>0, <1>7 DEF PlaceInv, SetMemConfigEnd, Sending, Listing
  <2> QED
    BY <1>7, <2>4, <2>5, <2>6, SendsCode DEF SetMemConfigEnd
<1>8. CASE set_action_proc
  <2> DEFINE m == action_proc_map[cur][tab]
             g == cfg.next[cur][tab]
  <2>1. cfg \in Config /\ cur \in cfg.procs /\ cur \in Proc /\ tab \in cfg.tabs[cur] /\ tab \in Tab
    BY <1>8, SendingFacts DEF set_action_proc, Sending, Listing
  <2>0. action_proc_map \in [Proc -> [Tab -> [Act \cup {NoAction} -> Proc \cup {Out, Absent}]]]
    BY <1>0 DEF MapTypes
  <2>2. m \in [Act \cup {NoAction} -> Proc \cup {Out, Absent}]
    BY <2>0, <2>1
  <2>3. \A a \in DOMAIN g : g[a] \in Proc \cup {Out}
    BY <2>1, TableFacts
  <2>4. action_proc_map' = [action_proc_map EXCEPT ![cur][tab] = Merge(m, g)]
    BY <1>8 DEF set_action_proc
  <2> HIDE DEF m, g
  <2>5. Merge(m, g) \in [Act \cup {NoAction} -> Proc \cup {Out, Absent}]
    BY <2>2, <2>3 DEF Merge
  <2>6. action_proc_map' \in [Proc -> [Tab -> [Act \cup {NoAction} -> Proc \cup {Out, Absent}]]]
    BY <2>0, <2>4, <2>5
  <2>7. MapTypes'
    BY <1>0, <1>8, <2>6 DEF MapTypes, set_action_proc
  <2>8. ProcessorTypes' /\ ControllerTypes'
    BY <1>0, <1>8 DEF ProcessorTypes, ControllerTypes, set_action_proc
  <2>9. PlaceInv'
    BY <1>0, <1>8 DEF PlaceInv, set_action_proc, Sending, Listing
  <2> QED
    BY <1>8, <2>7, <2>8, <2>9, SendsCode DEF set_action_proc
<1>9. ASSUME NEW a \in Act, insert_action(a) PROVE CodeInv'
  <2>1. ProcessorTypes'
    BY <1>0, <1>9 DEF ProcessorTypes, insert_action
  <2>2. MapTypes' /\ ControllerTypes'
    BY <1>0, <1>9 DEF MapTypes, ControllerTypes, insert_action
  <2>3. PlaceInv'
    BY <1>0, <1>9 DEF PlaceInv, insert_action, Sending, Listing
  <2> QED
    BY <1>9, <2>1, <2>2, <2>3, SendsCode DEF insert_action
<1>10. CASE NextProcessor
  <2>1. cur \in 0 .. NProc - 1 /\ cur' = cur + 1 /\ NProc \in Nat
    BY <1>0, <1>10, ConfigAssumption DEF ControllerTypes, PlaceInv, NextProcessor, ConfigAssumption
  <2>2. cur' \in 0 .. NProc
    BY <2>1
  <2>3. ControllerTypes'
    BY <1>0, <1>10, <2>2 DEF ControllerTypes, NextProcessor
  <2>4. ProcessorTypes' /\ MapTypes'
    BY <1>0, <1>10 DEF ProcessorTypes, MapTypes, NextProcessor
  <2>5. PlaceInv'
    BY <1>0, <1>10, <2>1 DEF PlaceInv, NextProcessor, Sending, Listing
  <2> QED
    BY <1>10, <2>3, <2>4, <2>5, SendsCode DEF NextProcessor
<1> QED
  BY <1>1, <1>2, <1>3, <1>4, <1>5, <1>6, <1>7, <1>8, <1>9, <1>10 DEF Load


(* A packet's step leaves the controller alone.                            *)
LEMMA PacketKeeps ==
    ASSUME Arrive \/ Advance
    PROVE  /\ UNCHANGED <<ctlVars, words, loaded, if_work, default_entry, exps, tableVars, actions>>
           /\ ~GatewayGet => UNCHANGED res_next
           /\ ~Route => UNCHANGED action_proc_map
<1> USE DEF cfgVars, mapVars, gateVars
<1>1. CASE Arrive
  BY <1>1 DEF Arrive
<1>2. CASE parse \/ GatewayFind \/ GatewayGet \/ GatewayCrash
  BY <1>2 DEF parse, GatewayFind, GatewayGet, GatewayCrash
<1>3. CASE MatchMiss \/ MatchHit \/ MatchCrash
  BY <1>3 DEF MatchMiss, MatchHit, MatchCrash
<1>4. CASE Route \/ MapRace \/ ExecuteAction \/ Leave
  BY <1>4 DEF Route, MapRace, ExecuteAction, Leave
<1> QED
  BY <1>1, <1>2, <1>3, <1>4 DEF Advance

(* Following an operation of the gateway.                                  *)
LEMMA DecideFacts ==
    ASSUME NEW o \in Op \cup {Wild}, Decide(o)
    PROVE  /\ op' = o
           /\ \/ o.type = "TABLE" /\ o.val \in Tab /\ pp' = "match" /\ proc' = proc
              \/ o.type = "STAGE" /\ o.val \in Proc /\ pp' = "parse" /\ proc' = o.val
              \/ o.type = "STAGE" /\ o.val = Out /\ pp' = "out" /\ proc' = proc
              \/ o = Wild /\ pp' = "dead" /\ proc' = proc
<1>1. op' = o
  BY DEF Decide
<1>2. CASE o.type = "TABLE"
  BY <1>1, <1>2, OpFacts DEF Decide
<1>3. CASE o.type = "STAGE"
  <2>1. Go(o.val) /\ o.val \in Proc \cup {Out}
    BY <1>3, OpFacts DEF Decide
  <2>2. Out \notin Proc
    BY ConfigAssumption DEF ConfigAssumption, Out, Proc
  <2> QED
    BY <1>1, <1>3, <2>1, <2>2 DEF Go
<1>4. CASE o = Wild
  <2>1. o.type = "WILD"
    BY <1>4 DEF Wild
  <2>2. Die
    BY <2>1 DEF Decide
  <2> QED
    BY <1>1, <1>4, <2>2 DEF Die
<1> QED
  BY <1>2, <1>3, <1>4, OpFacts

(* What the gateway does with a bitmap.                                    *)
LEMMA FindFacts ==
    ASSUME CodeInv, GatewayFind
    PROVE  \/ \E o \in Op \cup {Wild} :
                /\ Decide(o) /\ bitmap' = bitmap
                /\ default_entry[proc] = Wild \/ o = default_entry[proc]
           \/ \E k \in Key :
                /\ res_next[proc][k] # NoOp /\ bitmap' = k /\ pp' = "get"
                /\ proc' = proc /\ op' = op
<1>1. default_entry[proc] \in Op \cup {Wild}
  BY DEF CodeInv, TypeOK, ProcessorTypes, PacketTypes
<1>2. PICK k \in Key :
          \/ /\ res_next[proc][k] = NoOp
             /\ \E o \in IF default_entry[proc] = Wild THEN Op \cup {Wild}
                                                       ELSE {default_entry[proc]} : Decide(o)
             /\ UNCHANGED bitmap
          \/ /\ res_next[proc][k] # NoOp
             /\ bitmap' = k /\ pp' = "get"
             /\ UNCHANGED <<proc, op>>
  BY DEF GatewayFind
<1> QED
  BY <1>1, <1>2, Zenon

(* A packet's step keeps types and place.                                  *)
LEMMA PacketCode ==
    ASSUME CodeInv, Arrive \/ Advance
    PROVE  CodeInv'
<1>0. ProcessorTypes /\ MapTypes /\ ControllerTypes /\ PacketTypes /\ PlaceInv /\ PacketInv
  BY DEF CodeInv, TypeOK
<1>1. PlaceInv' /\ ControllerTypes'
  BY <1>0, PacketKeeps DEF PlaceInv, ControllerTypes, ctlVars, leftVars
<1>2. 0 \in Proc /\ 0 \in Tab /\ Table(0) \in Op /\ 0 \in Act /\ AnyKey \in Key
  BY NullOp, ConfigAssumption DEF ConfigAssumption, Proc, ZeroAction, AnyKey
<1>3. /\ pp \in {"match", "route", "execute"} => op.val \in Tab
      /\ proc \in Proc /\ action \in Act \cup {NoAction}
  BY <1>0 DEF PacketInv, PacketTypes
<1>4. MapTypes'
  <2>1. CASE ~Route
    BY <1>0, <2>1, PacketKeeps DEF MapTypes
  <2>2. CASE Route
    <3>1. /\ op.val \in Tab
          /\ action_proc_map \in [Proc -> [Tab -> [Act \cup {NoAction} -> Proc \cup {Out, Absent}]]]
      BY <1>0, <1>3, <2>2 DEF MapTypes, Route
    <3>2. \/ UNCHANGED action_proc_map
          \/ action_proc_map' = [action_proc_map EXCEPT ![proc][op.val][action] = 0]
      BY <2>2 DEF Route
    <3>3. [action_proc_map[proc][op.val] EXCEPT ![action] = 0]
             \in [Act \cup {NoAction} -> Proc \cup {Out, Absent}]
      BY <1>2, <1>3, <3>1
    <3>5. [action_proc_map EXCEPT ![proc][op.val][action] = 0]
             \in [Proc -> [Tab -> [Act \cup {NoAction} -> Proc \cup {Out, Absent}]]]
      BY <1>3, <3>1, <3>3
    <3>4. action_proc_map' \in [Proc -> [Tab -> [Act \cup {NoAction} -> Proc \cup {Out, Absent}]]]
      BY <3>1, <3>2, <3>5, Zenon
    <3> QED
      BY <1>0, <3>4, PacketKeeps DEF MapTypes
  <2> QED
    BY <2>1, <2>2
<1>5. ProcessorTypes'
  <2>1. res_next' \in [Proc -> [Key -> Op \cup {NoOp}]]
    <3>1. CASE ~GatewayGet
      BY <1>0, <3>1, PacketKeeps DEF ProcessorTypes
    <3>2. CASE GatewayGet
      <4>1. /\ res_next \in [Proc -> [Key -> Op \cup {NoOp}]]
            /\ bitmap \in Key
        BY <1>0 DEF ProcessorTypes, PacketTypes
      <4>2. [res_next EXCEPT ![proc][bitmap] = Table(0)] \in [Proc -> [Key -> Op \cup {NoOp}]]
        BY <1>2, <1>3, <4>1
      <4> QED
        BY <3>2, <4>1, <4>2, Zenon DEF GatewayGet
    <3> QED
      BY <3>1, <3>2
  <2> QED
    BY <1>0, <2>1, PacketKeeps DEF ProcessorTypes, tableVars
<1>6. quiet' \in BOOLEAN
  BY <1>0 DEF CodeInv, TypeOK, Arrive, Advance, parse, GatewayFind, GatewayGet, GatewayCrash,
     MatchMiss, MatchHit, MatchCrash, Route, MapRace, ExecuteAction, Leave
<1>7. SUFFICES PacketTypes' /\ PacketInv'
  BY <1>1, <1>4, <1>5, <1>6 DEF CodeInv, TypeOK
<1>8. CASE Arrive
  BY <1>0, <1>2, <1>8 DEF PacketTypes, PacketInv, Arrive
<1>9. CASE parse \/ GatewayCrash \/ MatchCrash \/ MapRace
  BY <1>0, <1>9 DEF PacketTypes, PacketInv, parse, GatewayCrash, MatchCrash, MapRace, Die
<1>10. ASSUME NEW o \in Op \cup {Wild}, Decide(o), bitmap' \in Key,
              UNCHANGED <<action, match_value, next_proc, ones>>
       PROVE  PacketTypes' /\ PacketInv'
  <2>1. PacketInv'
    BY <1>10, DecideFacts DEF PacketInv
  <2>2. op' = o /\ proc' \in Proc /\ pp' \in {"match", "parse", "out", "dead"}
    BY <1>3, <1>10, DecideFacts
  <2>3. PacketTypes'
    BY <1>0, <1>10, <2>2 DEF PacketTypes
  <2> QED
    BY <2>1, <2>3
<1>11. CASE GatewayFind
  <2>1. UNCHANGED <<action, match_value, next_proc, ones>> /\ bitmap \in Key
    BY <1>0, <1>11 DEF GatewayFind, PacketTypes
  <2>2. CASE \E o \in Op \cup {Wild} : Decide(o) /\ bitmap' = bitmap
    BY <1>10, <2>1, <2>2
  <2>3. CASE \E k \in Key : bitmap' = k /\ pp' = "get" /\ proc' = proc /\ op' = op
    BY <1>0, <2>1, <2>3 DEF PacketTypes, PacketInv
  <2> QED
    BY <1>11, <2>2, <2>3, FindFacts
<1>12. CASE GatewayGet
  <2>1. UNCHANGED <<action, match_value, next_proc, ones>> /\ bitmap' \in Key
    BY <1>2, <1>12 DEF GatewayGet
  <2>2. res_next[proc][bitmap] \in Op \cup {NoOp}
    BY <1>0 DEF ProcessorTypes, PacketTypes
  <2>3. \E o \in Op : Decide(o)
    BY <1>2, <1>12, <2>2 DEF GatewayGet
  <2> QED
    BY <1>10, <2>1, <2>3
<1>13. CASE MatchMiss
  <2>1. miss_act_id[proc][op.val] \in Act \cup {NoAction}
    BY <1>0, <1>3, <1>13 DEF ProcessorTypes, MatchMiss
  <2> QED
    BY <1>0, <1>13, <2>1 DEF PacketTypes, PacketInv, MatchMiss
<1>14. CASE MatchHit
  <2>1. table[proc][op.val].heads \subseteq Block
    BY <1>0, <1>3, <1>14 DEF ProcessorTypes, MatchHit
  <2>2. Found(proc, op.val) \subseteq Act
    BY <1>0, <2>1 DEF MapTypes, Found
  <2>3. action' \in Act
    BY <1>14, <2>2 DEF MatchHit
  <2> QED
    BY <1>0, <1>14, <2>3 DEF PacketTypes, PacketInv, MatchHit
<1>15. CASE Route
  <2>1. action_proc_map[proc][op.val][action] \in Proc \cup {Out, Absent}
    BY <1>0, <1>3, <1>15 DEF MapTypes, Route
  <2>2. next_proc' \in Proc \cup {Out}
    BY <1>2, <1>15, <2>1 DEF Route
  <2> QED
    BY <1>0, <1>15, <2>2 DEF PacketTypes, PacketInv, Route
<1>16. CASE ExecuteAction
  <2>1. proc' \in Proc /\ pp' \in {"parse", "out", "dead"}
    BY <1>0, <1>16 DEF PacketTypes, ExecuteAction, Go, Die
  <2> QED
    BY <1>0, <1>16, <2>1 DEF PacketTypes, PacketInv, ExecuteAction
<1>17. CASE Leave
  BY <1>0, <1>2, <1>17 DEF PacketTypes, PacketInv, Leave
<1> QED
  BY <1>8, <1>9, <1>11, <1>12, <1>13, <1>14, <1>15, <1>16, <1>17 DEF Advance

(* An entry is written to the blocks of a table.                           *)
LEMMA EntryKeeps ==
    ASSUME CodeInv, NEW p \in Proc, NEW t \in Tab, NEW a \in Act, NEW w \in Act,
           add_table_entry(p, t, a, w)
    PROVE  /\ words' \in [Block -> SUBSET Act] /\ quiet' \in BOOLEAN
           /\ UNCHANGED <<cfgVars, action_proc_map, ctlVars, pktVars>>
  BY DEF add_table_entry, CodeInv, TypeOK, MapTypes, Disturb

(* Each call and each step of a packet keeps types and places in range.    *)
LEMMA CodeStep == CodeInv /\ [Next]_vars => CodeInv'
<1> SUFFICES ASSUME CodeInv, [Next]_vars PROVE CodeInv'
  OBVIOUS
<1>0. ProcessorTypes /\ MapTypes /\ ControllerTypes /\ PacketTypes /\ PlaceInv /\ PacketInv
  BY DEF CodeInv, TypeOK
<1>1. ASSUME UNCHANGED cfgVars PROVE ProcessorTypes'
  BY <1>0, <1>1 DEF ProcessorTypes, cfgVars, gateVars, tableVars
<1>2. ASSUME UNCHANGED pktVars PROVE PacketTypes' /\ PacketInv'
  BY <1>0, <1>2 DEF PacketTypes, PacketInv, pktVars
<1>3. ASSUME UNCHANGED <<ctlVars, cfgVars>> PROVE ControllerTypes' /\ PlaceInv'
  BY <1>0, <1>3 DEF ControllerTypes, PlaceInv, ctlVars, leftVars, cfgVars
<1>4. ASSUME NEW c \in Config, extract(c) PROVE CodeInv'
  <2>1. UNCHANGED <<cfgVars, mapVars, pktVars>> /\ quiet' \in BOOLEAN
    BY <1>4 DEF extract, Disturb, CodeInv, TypeOK
  <2>2. ControllerTypes'
    BY <1>0, <1>4, ConfigAssumption DEF ControllerTypes, extract, leftVars, ConfigAssumption
  <2>3. PlaceInv'
    BY <1>0, <1>4, ConfigAssumption
    DEF PlaceInv, extract, cfgVars, ConfigAssumption, Sending, Listing
  <2>4. MapTypes'
    BY <1>0, <2>1 DEF MapTypes, mapVars
  <2> QED
    BY <1>1, <1>2, <2>1, <2>2, <2>3, <2>4 DEF CodeInv, TypeOK
<1>5. CASE Load
  BY <1>5, LoadCode
<1>6. ASSUME NEW p \in Proc, NEW t \in Tab, NEW a \in Act, NEW w \in Act,
             add_table_entry(p, t, a, w)
      PROVE  CodeInv'
  <2>1. MapTypes'
    BY <1>0, <1>6, EntryKeeps DEF MapTypes
  <2> QED
    BY <1>1, <1>2, <1>3, <1>6, <2>1, EntryKeeps DEF CodeInv, TypeOK
<1>7. CASE Arrive \/ Advance
  BY <1>7, PacketCode
<1>8. CASE UNCHANGED vars
  <2>1. UNCHANGED <<cfgVars, mapVars, ctlVars, pktVars, quiet>>
    BY <1>8 DEF vars
  <2>2. MapTypes' /\ quiet' \in BOOLEAN
    BY <1>0, <2>1 DEF MapTypes, mapVars, CodeInv, TypeOK
  <2> QED
    BY <1>1, <1>2, <1>3, <2>1, <2>2 DEF CodeInv, TypeOK
<1> QED
  BY <1>4, <1>5, <1>6, <1>7, <1>8 DEF Next, Controller

(* Whatever configurations are loaded, sound or not, whatever words the    *)
(* table tool writes and however packets and calls interleave: a packet is *)
(* sent to processors of the pipeline and looked up in threads of it only, *)
(* and the maps that operator[] adds to keep their types.  An action may   *)
(* be one that was never inserted, or -1; what it does then is             *)
(* QuietNoCrash's subject (Pipeline::execute, Processor::process_packet).  *)
THEOREM TypeCorrect == Spec => []TypeOK
<1>1. CodeInv => TypeOK
  BY DEF CodeInv
<1> QED
  BY <1>1, CodeInit, CodeStep, PTL DEF Spec


-----------------------------------------------------------------------------
(***************************************************************************)
(* What has been loaded.                                                   *)
(***************************************************************************)

(* The call goes to one processor only.                                    *)
OthersKept ==
    /\ cfg' = cfg /\ cur' = cur
    /\ \A p \in Proc \ {cur} :
         /\ if_work'[p] = if_work[p] /\ default_entry'[p] = default_entry[p]
         /\ res_next'[p] = res_next[p] /\ actions'[p] = actions[p] /\ loaded'[p] = loaded[p]
         /\ miss_act_id'[p] = miss_act_id[p] /\ action_proc_map'[p] = action_proc_map[p]

(* Then the other processors stay as they were.                            *)
LEMMA OthersFrame ==
    ASSUME LoadInv, OthersKept, at' \in Sending
    PROVE  \A p \in Proc : if_work'[p] = 1 /\ ~(cur' = p /\ at' \in Sending) => ProcLoaded(p)'
<1>1. \A p \in Proc \ {cur} : ProcLoaded(p)' <=> ProcLoaded(p)
  BY ProcFrame DEF OthersKept
<1> QED
  BY <1>1 DEF LoadInv, OthersKept

(* A table of the processor that the call leaves alone.                    *)
LEMMA TabFrame ==
    ASSUME NEW t, cur' = cur, loaded'[cur] = loaded[cur],
           miss_act_id'[cur][t] = miss_act_id[cur][t],
           action_proc_map'[cur][t] = action_proc_map[cur][t], TabLoaded(cur, t)
    PROVE  TabLoaded(cur, t)'
  BY DEF TabLoaded

(* A call moves the controller on: what it has passed is loaded, and the   *)
(* processors it does not work on stay as they are.                        *)
LEMMA LoadStep ==
    ASSUME CodeInv, LoadInv, Load
    PROVE  LoadInv'
<1>0. ProcessorTypes /\ MapTypes /\ ControllerTypes /\ PlaceInv
  BY DEF CodeInv, TypeOK
<1>t. /\ if_work \in [Proc -> {0, 1}] /\ default_entry \in [Proc -> Op \cup {Wild}]
      /\ res_next \in [Proc -> [Key -> Op \cup {NoOp}]] /\ loaded \in [Proc -> Config]
      /\ miss_act_id \in [Proc -> [Tab -> Act \cup {NoAction}]] /\ actions \in [Proc -> SUBSET Act]
      /\ action_proc_map \in [Proc -> [Tab -> [Act \cup {NoAction} -> Proc \cup {Out, Absent}]]]
  BY <1>0 DEF ProcessorTypes, MapTypes
<1> USE DEF Sends, cfgVars, gateVars, tableVars, mapVars, leftVars, Sending, Listing
<1>1. CASE init_parser_level
  <2>1. OthersKept /\ at' = "clear"
    BY <1>1, <1>t DEF init_parser_level, OthersKept
  <2> QED
    BY <2>1, OthersFrame DEF LoadInv
<1>2. CASE clear_relation_exp
  <2>1. OthersKept /\ at' = "exps" /\ at = "clear" /\ ents' = ents
    BY <1>2, <1>t DEF clear_relation_exp, OthersKept
  <2>2. /\ cur \in Proc /\ cur' = cur /\ cfg' = cfg /\ loaded[cur] = cfg /\ loaded' = loaded
        /\ ents = DOMAIN cfg.entries[cur]
    BY <1>0, <1>2, <2>1, SendingFacts DEF OthersKept, clear_relation_exp, PlaceInv
  <2>3. res_next'[cur] = EmptyGate
    BY <1>2, <1>t, <2>2 DEF clear_relation_exp
  <2>4. GateLoaded(cur, ents)'
    BY <2>1, <2>2, <2>3 DEF GateLoaded, EmptyGate
  <2> QED
    BY <2>1, <2>4, OthersFrame DEF LoadInv
<1>3. CASE insert_relation_exp
  <2>1. OthersKept /\ at' = "exps" /\ at = "exps"
    BY <1>3, <1>t DEF insert_relation_exp, OthersKept
  <2>2. UNCHANGED <<res_next, loaded, cur, ents>>
    BY <1>3 DEF insert_relation_exp
  <2>3. GateLoaded(cur, ents)'
    BY <2>1, <2>2 DEF LoadInv, GateLoaded
  <2> QED
    BY <2>1, <2>3, OthersFrame DEF LoadInv
<1>4. CASE set_default_gate_entry
  <2>1. OthersKept /\ at' = "list" /\ at = "exps"
    BY <1>4, <1>t DEF set_default_gate_entry, OthersKept
  <2>2. cur \in Proc /\ cur' = cur /\ cfg' = cfg
    BY <2>1, SendingFacts DEF OthersKept
  <2>3. default_entry'[cur] = cfg.default[cur] /\ UNCHANGED <<res_next, loaded, ents, acts, tabs>>
    BY <1>4, <1>t, <2>2 DEF set_default_gate_entry
  <2>4. acts = cfg.acts[cur] /\ tabs = cfg.tabs[cur]
    BY <1>0, <2>1 DEF PlaceInv
  <2>5. GateLoaded(cur, ents)'
    BY <2>1, <2>2, <2>3 DEF LoadInv, GateLoaded
  <2> QED
    BY <2>1, <2>2, <2>3, <2>4, <2>5, OthersFrame DEF LoadInv
<1>5. ASSUME NEW k \in Key, mod_res_map(k) PROVE LoadInv'
  <2>1. OthersKept /\ at' = "list" /\ at = "list"
    BY <1>5, <1>t DEF mod_res_map, OthersKept
  <2>2. cur \in Proc /\ cur' = cur /\ cfg' = cfg /\ loaded[cur] = cfg
    BY <2>1, SendingFacts DEF OthersKept
  <2>3. /\ k \in ents /\ ents' = ents \ {k}
        /\ UNCHANGED <<acts, tabs, actions, default_entry, miss_act_id, action_proc_map, loaded>>
    BY <1>5 DEF mod_res_map
  <2>4. \A j \in Key : res_next'[cur][j] = IF j = k THEN cfg.entries[cur][k] ELSE res_next[cur][j]
    BY <1>5, <1>t, <2>2 DEF mod_res_map
  <2>5. ents \subseteq DOMAIN cfg.entries[cur]
    BY <1>0, <2>1 DEF PlaceInv
  <2>6. GateLoaded(cur, ents)'
    <3>1. GateLoaded(cur, ents)
      BY <2>1 DEF LoadInv
    <3> QED
      BY <2>2, <2>3, <2>4, <2>5, <3>1 DEF GateLoaded
  <2>7. \A t : TabLoaded(cur, t) => TabLoaded(cur, t)'
    BY <2>2, <2>3, TabFrame
  <2> QED
    BY <2>1, <2>2, <2>3, <2>6, <2>7, OthersFrame DEF LoadInv
<1>6. ASSUME NEW t \in Tab, set_mem_config(t) PROVE LoadInv'
  <2>1. OthersKept /\ at' = "mem" /\ at = "list"
    BY <1>6, <1>t DEF set_mem_config, OthersKept
  <2>2. cur \in Proc /\ cur' = cur /\ cfg' = cfg /\ cfg.tabs[cur] \subseteq Tab
    BY <2>1, SendingFacts, ConfigFacts DEF OthersKept
  <2>3. /\ tab' = t /\ tabs' = tabs \ {t}
        /\ UNCHANGED <<default_entry, res_next, loaded, actions, acts, ents>>
    BY <1>6 DEF set_mem_config
  <2>4. \A u \in Tab : u # t => /\ miss_act_id'[cur][u] = miss_act_id[cur][u]
                                /\ action_proc_map'[cur][u] = action_proc_map[cur][u]
    BY <1>6, <1>t, <2>2 DEF set_mem_config
  <2>5. \A u \in cfg.tabs[cur] : u # t /\ TabLoaded(cur, u) => TabLoaded(cur, u)'
    BY <2>2, <2>3, <2>4, TabFrame
  <2>6. GateLoaded(cur, ents)'
    BY <2>1, <2>2, <2>3 DEF LoadInv, GateLoaded
  <2> QED
    BY <2>1, <2>2, <2>3, <2>5, <2>6, OthersFrame DEF LoadInv
<1>7. CASE SetMemConfigEnd
  <2>1. OthersKept /\ at' = "map" /\ at = "mem"
    BY <1>7, <1>t DEF SetMemConfigEnd, OthersKept
  <2>2. cur \in Proc /\ tab \in Tab /\ cur' = cur /\ cfg' = cfg /\ cfg.tabs[cur] \subseteq Tab
    BY <2>1, SendingFacts, ConfigFacts DEF OthersKept
  <2>3. /\ miss_act_id'[cur][tab] = cfg.miss[cur][tab]
        /\ \A u \in Tab : u # tab => miss_act_id'[cur][u] = miss_act_id[cur][u]
        /\ UNCHANGED <<default_entry, res_next, loaded, ents, actions, acts, tabs, tab, action_proc_map>>
    BY <1>7, <1>t, <2>2 DEF SetMemConfigEnd
  <2>4. \A u \in cfg.tabs[cur] : u # tab /\ TabLoaded(cur, u) => TabLoaded(cur, u)'
    BY <2>2, <2>3, TabFrame
  <2>5. GateLoaded(cur, ents)'
    BY <2>1, <2>2, <2>3 DEF LoadInv, GateLoaded
  <2> QED
    BY <2>1, <2>2, <2>3, <2>4, <2>5, OthersFrame DEF LoadInv
<1>8. CASE set_action_proc
  <2> DEFINE g == cfg.next[cur][tab]
  <2>1. OthersKept /\ at' = "list" /\ at = "map"
    BY <1>8, <1>t DEF set_action_proc, OthersKept
  <2>2. /\ cfg \in Config /\ cur \in cfg.procs /\ cur \in Proc /\ loaded[cur] = cfg
        /\ tab \in Tab /\ tab \in cfg.tabs[cur] /\ cfg.tabs[cur] \subseteq Tab
        /\ cur' = cur /\ cfg' = cfg /\ tab' = tab
    BY <1>8, <2>1, SendingFacts, ConfigFacts DEF OthersKept, set_action_proc
  <2>3. DOMAIN g \subseteq Act
    BY <2>2, TableFacts
  <2>4. /\ action_proc_map' = [action_proc_map EXCEPT ![cur][tab] = Merge(action_proc_map[cur][tab], g)]
        /\ UNCHANGED <<default_entry, res_next, loaded, ents, actions, acts, tabs, miss_act_id>>
    BY <1>8 DEF set_action_proc
  <2> HIDE DEF g
  <2>5. \A u \in Tab : u # tab => action_proc_map'[cur][u] = action_proc_map[cur][u]
    BY <1>t, <2>2, <2>4
  <2>6. \A a \in DOMAIN g : action_proc_map'[cur][tab][a] = g[a]
    <3>1. action_proc_map'[cur][tab] = Merge(action_proc_map[cur][tab], g)
      BY <1>t, <2>2, <2>4
    <3>2. DOMAIN action_proc_map[cur][tab] = Act \cup {NoAction}
      BY <1>t, <2>2
    <3> QED
      BY <2>3, <3>1, <3>2 DEF Merge
  <2>7. TabLoaded(cur, tab)'
    BY <2>1, <2>2, <2>4, <2>6 DEF TabLoaded, LoadInv, g
  <2>8. \A u \in cfg.tabs[cur] : u # tab /\ TabLoaded(cur, u) => TabLoaded(cur, u)'
    BY <2>2, <2>4, <2>5, TabFrame
  <2>9. GateLoaded(cur, ents)'
    BY <2>1, <2>2, <2>4 DEF LoadInv, GateLoaded
  <2> QED
    BY <2>1, <2>2, <2>4, <2>7, <2>8, <2>9, OthersFrame DEF LoadInv
<1>9. ASSUME NEW a \in Act, insert_action(a) PROVE LoadInv'
  <2>1. OthersKept /\ at' = "list" /\ at = "list"
    BY <1>9, <1>t DEF insert_action, OthersKept
  <2>2. cur \in Proc /\ cur' = cur /\ cfg' = cfg
    BY <2>1, SendingFacts DEF OthersKept
  <2>3. /\ actions'[cur] = actions[cur] \cup {a} /\ acts' = acts \ {a}
        /\ UNCHANGED <<default_entry, res_next, loaded, ents, tabs, miss_act_id, action_proc_map>>
    BY <1>9, <1>t, <2>2 DEF insert_action
  <2>4. \A t : TabLoaded(cur, t) => TabLoaded(cur, t)'
    BY <2>2, <2>3, TabFrame
  <2>5. GateLoaded(cur, ents)'
    BY <2>1, <2>2, <2>3 DEF LoadInv, GateLoaded
  <2> QED
    BY <2>1, <2>2, <2>3, <2>4, <2>5, OthersFrame DEF LoadInv
<1>10. CASE NextProcessor
  <2>1. /\ at' \in {"done", "parser"}
        /\ UNCHANGED <<if_work, default_entry, res_next, loaded, actions, miss_act_id,
                       action_proc_map, cfg>>
    BY <1>10 DEF NextProcessor
  <2>2. \A p : ProcLoaded(p)' <=> ProcLoaded(p)
    BY <2>1, ProcFrame
  <2>3. at \in Sending => ProcLoaded(cur)
    <3> SUFFICES ASSUME at \in Sending PROVE ProcLoaded(cur)
      OBVIOUS
    <3>1. at = "list" /\ ents = {} /\ tabs = {} /\ acts = {} /\ loaded[cur] = cfg
      BY <1>10, SendingFacts DEF NextProcessor
    <3> QED
      BY <3>1 DEF LoadInv, ProcLoaded
  <2>4. \A p \in Proc : if_work[p] = 1 => ProcLoaded(p)
    BY <2>3 DEF LoadInv
  <2> QED
    BY <2>1, <2>2, <2>4 DEF LoadInv
<1> QED
  BY <1>1, <1>2, <1>3, <1>4, <1>5, <1>6, <1>7, <1>8, <1>9, <1>10 DEF Load

(* A new configuration is begun: what works, works on.                     *)
LEMMA ExtractStep ==
    ASSUME LoadInv, NEW c \in Config, extract(c)
    PROVE  LoadInv'
<1>1. /\ at = "done" /\ at' = "parser"
      /\ UNCHANGED <<if_work, default_entry, res_next, loaded, actions, miss_act_id, action_proc_map>>
  BY DEF extract, cfgVars, gateVars, tableVars, mapVars
<1>2. \A p : ProcLoaded(p)' <=> ProcLoaded(p)
  BY <1>1, ProcFrame
<1> QED
  BY <1>1, <1>2 DEF LoadInv, Sending, Listing

(* operator[] of action_proc_map adds an action that the map has not, and  *)
(* no table that is loaded lacks one of its own.                           *)
LEMMA RouteStep ==
    ASSUME CodeInv, LoadInv, Route
    PROVE  LoadInv'
<1>0. ProcessorTypes /\ MapTypes /\ ControllerTypes /\ PacketTypes /\ PlaceInv /\ PacketInv
  BY DEF CodeInv, TypeOK
<1>1. UNCHANGED <<if_work, default_entry, res_next, loaded, actions, miss_act_id, cfg, cur, at, tab,
                  ents, tabs, acts>>
  BY DEF Route, cfgVars, gateVars, tableVars, ctlVars, leftVars
<1>2. \A p \in Proc, t \in Tab, a \in Act \cup {NoAction} :
        action_proc_map[p][t][a] # Absent => action_proc_map'[p][t][a] = action_proc_map[p][t][a]
  <2>1. /\ proc \in Proc /\ op.val \in Tab /\ action \in Act \cup {NoAction}
        /\ action_proc_map \in [Proc -> [Tab -> [Act \cup {NoAction} -> Proc \cup {Out, Absent}]]]
    BY <1>0 DEF MapTypes, PacketTypes, PacketInv, Route
  <2>2. \/ action_proc_map' = action_proc_map
        \/ /\ action_proc_map[proc][op.val][action] = Absent
           /\ action_proc_map' = [action_proc_map EXCEPT ![proc][op.val][action] = 0]
    BY DEF Route
  <2>3. ASSUME NEW p \in Proc, NEW t \in Tab, NEW a \in Act \cup {NoAction},
               <<p, t, a>> # <<proc, op.val, action>>
        PROVE  action_proc_map'[p][t][a] = action_proc_map[p][t][a]
    <3>1. CASE p # proc
      BY <2>1, <2>2, <3>1
    <3>2. CASE p = proc /\ t # op.val
      BY <2>1, <2>2, <3>2
    <3>3. CASE p = proc /\ t = op.val /\ a # action
      BY <2>1, <2>2, <3>3
    <3> QED
      BY <2>3, <3>1, <3>2, <3>3
  <2> QED
    BY <2>2, <2>3
<1>3. ASSUME NEW p \in Proc, p \in loaded[p].procs, NEW t \in loaded[p].tabs[p], TabLoaded(p, t)
      PROVE  /\ miss_act_id[p][t] = loaded[p].miss[p][t]
             /\ \A a \in DOMAIN loaded[p].next[p][t] :
                   action_proc_map'[p][t][a] = loaded[p].next[p][t][a]
  <2>1. /\ t \in Tab /\ DOMAIN loaded[p].next[p][t] \subseteq Act
        /\ \A a \in DOMAIN loaded[p].next[p][t] : loaded[p].next[p][t][a] # Absent
    <3>1. loaded[p] \in Config
      BY <1>0 DEF ProcessorTypes
    <3> QED
      BY <1>3, <3>1, TableFacts
  <2> QED
    BY <1>1, <1>2, <1>3, <2>1 DEF TabLoaded
<1>4. \A p : GateLoaded(p, {}) => GateLoaded(p, {})'
  BY <1>1 DEF GateLoaded
<1>5. \A p \in Proc : if_work[p] = 1 /\ ProcLoaded(p) => ProcLoaded(p)'
  <2>1. \A p \in Proc : if_work[p] = 1 => p \in loaded[p].procs
    BY <1>0 DEF PlaceInv
  <2>2. \A p \in Proc : p \in loaded[p].procs =>
           \A t \in loaded[p].tabs[p] : TabLoaded(p, t) => TabLoaded(p, t)'
    BY <1>1, <1>3 DEF TabLoaded
  <2> QED
    BY <1>1, <1>4, <2>1, <2>2 DEF ProcLoaded
<1>6. at \in Listing => \A t \in cfg.tabs[cur] : TabLoaded(cur, t) => TabLoaded(cur, t)'
  <2> SUFFICES ASSUME at \in Listing, NEW t \in cfg.tabs[cur], TabLoaded(cur, t)
               PROVE  TabLoaded(cur, t)'
    OBVIOUS
  <2>1. cur \in Proc /\ cur \in cfg.procs /\ loaded[cur] = cfg
    BY SendingFacts DEF Sending
  <2>2. \A a \in DOMAIN loaded[cur].next[cur][t] :
           action_proc_map'[cur][t][a] = loaded[cur].next[cur][t][a]
    BY <1>3, <2>1
  <2> QED
    BY <1>1, <2>2 DEF TabLoaded
<1>7. GateLoaded(cur, ents) => GateLoaded(cur, ents)'
  BY <1>1 DEF GateLoaded
<1> QED
  BY <1>1, <1>5, <1>6, <1>7 DEF LoadInv

(* operator[] of res_next adds a null operation for a bitmap that the map  *)
(* has not, and that is none that was sent.                                *)
LEMMA GetStep ==
    ASSUME CodeInv, LoadInv, GatewayGet
    PROVE  LoadInv'
<1>0. ProcessorTypes /\ ControllerTypes /\ PacketTypes /\ PlaceInv
  BY DEF CodeInv, TypeOK
<1>1. UNCHANGED <<if_work, default_entry, loaded, actions, miss_act_id, action_proc_map, cfg, cur,
                  at, tab, ents, tabs, acts>>
  BY DEF GatewayGet, tableVars, mapVars, ctlVars, leftVars
<1>2. \A p \in Proc, k \in Key :
        \/ res_next'[p][k] = res_next[p][k]
        \/ res_next[p][k] = NoOp /\ res_next'[p][k] = Table(0)
  <2>1. /\ proc \in Proc /\ bitmap \in Key /\ res_next \in [Proc -> [Key -> Op \cup {NoOp}]]
    BY <1>0 DEF ProcessorTypes, PacketTypes
  <2>2. \/ res_next' = res_next
        \/ /\ res_next[proc][bitmap] = NoOp
           /\ res_next' = [res_next EXCEPT ![proc][bitmap] = Table(0)]
    BY DEF GatewayGet
  <2> QED
    BY <2>1, <2>2
<1>3. ASSUME NEW p \in Proc, p \in loaded[p].procs, NEW E, GateLoaded(p, E)
      PROVE  \A k \in Key :
               IF k \in DOMAIN loaded[p].entries[p] \ E
               THEN res_next'[p][k] = loaded[p].entries[p][k]
               ELSE res_next'[p][k] \in {NoOp, Table(0)}
  <2>1. \A k \in DOMAIN loaded[p].entries[p] : loaded[p].entries[p][k] # NoOp
    <3>1. loaded[p] \in Config
      BY <1>0 DEF ProcessorTypes
    <3>2. \A k \in DOMAIN loaded[p].entries[p] : loaded[p].entries[p][k] \in Op
      BY <1>3, <3>1, ConfigFacts
    <3> QED
      BY <3>2, OpFacts
  <2> QED
    BY <1>2, <1>3, <2>1 DEF GateLoaded
<1>4. \A p \in Proc : if_work[p] = 1 /\ ProcLoaded(p) => ProcLoaded(p)'
  <2> SUFFICES ASSUME NEW p \in Proc, if_work[p] = 1, ProcLoaded(p) PROVE ProcLoaded(p)'
    OBVIOUS
  <2>1. p \in loaded[p].procs
    BY <1>0 DEF PlaceInv
  <2>2. GateLoaded(p, {})'
    BY <1>1, <1>3, <2>1 DEF GateLoaded, ProcLoaded
  <2>3. \A t : TabLoaded(p, t) => TabLoaded(p, t)'
    BY <1>1 DEF TabLoaded
  <2> QED
    BY <1>1, <2>2, <2>3 DEF ProcLoaded
<1>5. at \in {"exps"} \cup Listing => GateLoaded(cur, ents)'
  <2> SUFFICES ASSUME at \in {"exps"} \cup Listing PROVE GateLoaded(cur, ents)'
    OBVIOUS
  <2>1. cur \in Proc /\ cur \in loaded[cur].procs
    BY SendingFacts DEF Sending
  <2>2. GateLoaded(cur, ents)
    BY DEF LoadInv
  <2> QED
    BY <1>1, <1>3, <2>1, <2>2 DEF GateLoaded
<1>6. \A t : TabLoaded(cur, t)' <=> TabLoaded(cur, t)
  BY <1>1 DEF TabLoaded
<1> QED
  BY <1>1, <1>4, <1>5, <1>6 DEF LoadInv

(* The same for every step; a packet only adds to the maps what was not    *)
(* configured.                                                             *)
LEMMA ConfigStep == CodeInv /\ LoadInv /\ [Next]_vars => LoadInv'
<1> SUFFICES ASSUME CodeInv, LoadInv, [Next]_vars PROVE LoadInv'
  OBVIOUS
<1>1. CASE \E c \in Config : extract(c)
  BY <1>1, ExtractStep
<1>2. CASE Load
  BY <1>2, LoadStep
<1>3. CASE Route
  BY <1>3, RouteStep
<1>4. CASE GatewayGet
  BY <1>4, GetStep
<1>5. CASE UNCHANGED <<cfgVars, action_proc_map, ctlVars>>
  BY <1>5, CfgFrame
<1>6. (Arrive \/ Advance) /\ ~Route /\ ~GatewayGet => UNCHANGED <<cfgVars, action_proc_map, ctlVars>>
  BY PacketKeeps DEF cfgVars, gateVars
<1>7. UNCHANGED vars => UNCHANGED <<cfgVars, action_proc_map, ctlVars>>
  BY DEF vars, mapVars
<1>8. (\E p \in Proc, t \in Tab, a, w \in Act : add_table_entry(p, t, a, w))
        => UNCHANGED <<cfgVars, action_proc_map, ctlVars>>
  BY EntryKeeps
<1> QED
  BY <1>1, <1>2, <1>3, <1>4, <1>5, <1>6, <1>7, <1>8 DEF Next, Controller


(* Nothing works before a configuration is begun.                          *)
LEMMA LoadInit == Init => LoadInv
  BY DEF Init, LoadInv, Sending, Listing

-----------------------------------------------------------------------------
(***************************************************************************)
(* What a quiet packet meets.                                              *)
(***************************************************************************)

(* A processor is flawed by its configuration, its map and the words of    *)
(* its tables only.                                                        *)
LEMMA FlawFrame ==
    ASSUME NEW p, UNCHANGED <<loaded, res_next, words, table, exps>>
    PROVE  (Flawed(p)' <=> Flawed(p)) /\ (Spare(p)' <=> Spare(p))
<1>1. Sound(loaded[p], p)' <=> Sound(loaded[p], p)
  BY DEF Sound, Forward
<1>2. Leftover(p)' <=> Leftover(p)
  BY DEF Leftover
<1>3. Foreign(p)' <=> Foreign(p)
  BY DEF Foreign, Found
<1> QED
  BY <1>1, <1>2, <1>3 DEF Flawed, Spare

(* A quiet packet that has passed the parser is at a processor that has    *)
(* all of its configuration.                                               *)
LEMMA QuietProc ==
    ASSUME CodeInv, LoadInv, QuietInv, quiet,
           pp \in {"gateway", "get", "match", "route", "execute"}
    PROVE  /\ at = "done" /\ proc \in Proc /\ if_work[proc] = 1
           /\ loaded[proc] \in Config /\ proc \in loaded[proc].procs
           /\ ProcLoaded(proc)
<1>1. at = "done" /\ proc \in Proc /\ if_work[proc] = 1
  BY DEF CodeInv, TypeOK, PacketTypes, QuietInv
<1>2. loaded[proc] \in Config /\ proc \in loaded[proc].procs
  BY <1>1 DEF CodeInv, TypeOK, ProcessorTypes, PlaceInv
<1>3. ProcLoaded(proc)
  BY <1>1 DEF LoadInv, Sending, Listing
<1> QED
  BY <1>1, <1>2, <1>3

(* The operation leads forward or to a table of the configuration, if the  *)
(* processor is not flawed.                                                *)
Leads(o) ==
    ~Flawed(proc) => IF o.type = "TABLE" THEN o.val \in loaded[proc].tabs[proc]
                                         ELSE Forward(proc, o.val)

(* A quiet packet gets an operation of the configuration, or a null        *)
(* operation that was left over.                                           *)
LEMMA GateLeads ==
    ASSUME CodeInv, LoadInv, QuietInv, quiet, pp \in {"gateway", "get"}
    PROVE  /\ default_entry[proc] \in Op /\ Leads(default_entry[proc])
           /\ \A k \in Key : res_next[proc][k] # NoOp =>
                  res_next[proc][k] \in Op /\ Leads(res_next[proc][k])
<1> DEFINE c == loaded[proc]
<1>1. c \in Config /\ proc \in c.procs /\ ProcLoaded(proc)
  BY QuietProc
<1>2. /\ c.default[proc] \in Op /\ DOMAIN c.entries[proc] \subseteq Key
      /\ \A k \in DOMAIN c.entries[proc] : c.entries[proc][k] \in Op
  BY <1>1, ConfigFacts
<1>3. default_entry[proc] = c.default[proc] /\ GateLoaded(proc, {})
  BY <1>1 DEF ProcLoaded
<1>4. \A o \in {c.default[proc]} \cup {c.entries[proc][k] : k \in DOMAIN c.entries[proc]} : Leads(o)
  BY DEF Leads, Flawed, Sound
<1>5. ASSUME NEW k \in Key, res_next[proc][k] # NoOp
      PROVE  res_next[proc][k] \in Op /\ Leads(res_next[proc][k])
  <2>1. CASE k \in DOMAIN c.entries[proc]
    <3>1. res_next[proc][k] = c.entries[proc][k]
      BY <1>3, <2>1 DEF GateLoaded
    <3> QED
      BY <1>2, <1>4, <2>1, <3>1
  <2>2. CASE k \notin DOMAIN c.entries[proc]
    <3>1. res_next[proc][k] = Table(0)
      BY <1>3, <1>5, <2>2 DEF GateLoaded
    <3>2. ~Flawed(proc) => 0 \in c.tabs[proc]
      BY <1>5, <2>2 DEF Flawed, Leftover
    <3> QED
      BY <3>1, <3>2, NullOp DEF Leads
  <2> QED
    BY <2>1, <2>2
<1> QED
  BY <1>2, <1>3, <1>4, <1>5

(* Following an operation that leads somewhere.                            *)
LEMMA QuietDecide ==
    ASSUME CodeInv, LoadInv, QuietInv, quiet, quiet', pp \in {"gateway", "get"},
           NEW o \in Op, Leads(o), Decide(o),
           UNCHANGED <<at, if_work, loaded, res_next, words, table, exps>>
    PROVE  /\ QuietInv'
           /\ pp' = "parse" => proc' > proc \/ Flawed(proc)
<1>1. at' = "done" /\ proc \in Proc /\ if_work'[proc] = 1
  BY QuietProc
<1>2. o # Wild
  BY OpFacts
<1>3. CASE o.type = "TABLE" /\ pp' = "match" /\ proc' = proc /\ op' = o
  <2>1. Flawed(proc)' <=> Flawed(proc)
    BY <1>3, FlawFrame DEF Flawed, Sound, Leftover, Foreign, Found, Forward
  <2>2. (~Flawed(proc))' => op'.val \in loaded'[proc'].tabs[proc']
    BY <1>3, <2>1 DEF Leads
  <2> QED
    BY <1>1, <1>3, <2>2 DEF QuietInv
<1>4. CASE o.type = "STAGE" /\ o.val \in Proc /\ pp' = "parse" /\ proc' = o.val
  <2>1. Out \notin Proc
    BY ConfigAssumption DEF ConfigAssumption, Out, Proc
  <2>2. proc' > proc \/ Flawed(proc)
    BY <1>4, <2>1 DEF Leads, Forward
  <2> QED
    BY <1>1, <1>4, <2>2 DEF QuietInv
<1>5. CASE pp' = "out"
  BY <1>1, <1>5 DEF QuietInv
<1> QED
  BY <1>2, <1>3, <1>4, <1>5, DecideFacts

(* While the controller is at work no packet is quiet.                     *)
LEMMA ControllerQuiet ==
    ASSUME CodeInv, QuietInv, Controller
    PROVE  QuietInv' /\ (quiet' => pp' = "idle")
<1>1. ASSUME NEW c \in Config, extract(c) PROVE quiet' => pp' = "idle"
  BY <1>1 DEF extract, Disturb, pktVars
<1>2. ASSUME NEW p \in Proc, NEW t \in Tab, NEW a \in Act, NEW w \in Act,
             add_table_entry(p, t, a, w)
      PROVE  quiet' => pp' = "idle"
  BY <1>2 DEF add_table_entry, Disturb, pktVars
<1>3. ASSUME Load PROVE quiet' => pp' = "idle"
  <2>1. at # "done" /\ UNCHANGED <<pp, quiet>>
    BY <1>3 DEF Load, Sends, pktVars, init_parser_level, clear_relation_exp,
                insert_relation_exp, set_default_gate_entry, mod_res_map, set_mem_config,
                SetMemConfigEnd, set_action_proc, insert_action, NextProcessor
  <2> QED
    BY <2>1 DEF QuietInv
<1>4. quiet' => pp' = "idle"
  BY <1>1, <1>2, <1>3 DEF Controller
<1> QED
  BY <1>4 DEF QuietInv


(* A step of the packet thread keeps a quiet packet from harm, and if it   *)
(* takes the packet on, then to a later processor, or the processor is     *)
(* flawed.                                                                 *)
LEMMA PacketQuiet ==
    ASSUME CodeInv, LoadInv, QuietInv, Arrive \/ Advance
    PROVE  /\ QuietInv'
           /\ quiet /\ quiet' /\ pp # "idle" /\ pp' = "parse" => proc' > proc \/ Flawed(proc)
<1>0. /\ UNCHANGED <<at, if_work, loaded, words, table, exps, default_entry, actions, miss_act_id>>
      /\ ~GatewayGet => UNCHANGED res_next
  BY PacketKeeps DEF ctlVars, tableVars
<1>1. CASE Arrive
  BY <1>0, <1>1 DEF Arrive, QuietInv
<1>2. CASE Leave
  BY <1>2 DEF Leave, QuietInv
<1>3. CASE Advance /\ ~Leave /\ ~quiet
  <2>1. quiet' = quiet
    BY <1>3 DEF Advance, parse, GatewayFind, GatewayGet, GatewayCrash, MatchMiss, MatchHit,
                MatchCrash, Route, MapRace, ExecuteAction
  <2> QED
    BY <1>3, <2>1 DEF QuietInv
<1>f. ASSUME UNCHANGED <<proc, res_next>>
      PROVE  (Flawed(proc)' <=> Flawed(proc)) /\ (Spare(proc)' <=> Spare(proc))
  BY <1>0, <1>f DEF Flawed, Sound, Leftover, Foreign, Found, Forward, Spare
<1>4. CASE parse /\ quiet
  <2>1. pp = "parse" /\ quiet' = quiet /\ at = "done"
    BY <1>4 DEF parse, QuietInv
  <2>2. \/ pp' = "out"
        \/ pp' = "gateway" /\ proc' = proc /\ if_work[proc] = 1
        \/ pp' = "dead" /\ ones'
    BY <1>4, <2>1 DEF parse, Die
  <2> QED
    BY <1>0, <2>1, <2>2 DEF QuietInv
<1>5. CASE GatewayFind /\ quiet
  <2>1. pp = "gateway" /\ quiet' = quiet /\ UNCHANGED res_next
    BY <1>0, <1>5 DEF GatewayFind, GatewayGet
  <2>2. CASE \E o \in Op \cup {Wild} :
               Decide(o) /\ (default_entry[proc] = Wild \/ o = default_entry[proc])
    <3>1. default_entry[proc] \in Op /\ Leads(default_entry[proc])
      BY <1>5, <2>1, GateLeads
    <3>2. Decide(default_entry[proc])
      BY <2>2, <3>1, OpFacts
    <3> QED
      BY <1>0, <1>5, <2>1, <3>1, <3>2, QuietDecide
  <2>3. CASE \E k \in Key : /\ res_next[proc][k] # NoOp /\ bitmap' = k /\ pp' = "get"
                            /\ proc' = proc /\ op' = op
    <3>1. at = "done" /\ if_work[proc] = 1
      BY <1>5, <2>1, QuietProc
    <3> QED
      BY <1>0, <2>1, <2>3, <3>1 DEF QuietInv
  <2> QED
    BY <1>5, <2>2, <2>3, FindFacts
<1>6. CASE GatewayGet /\ quiet
  <2>1. pp = "get" /\ quiet' = quiet /\ res_next[proc][bitmap] # NoOp /\ bitmap \in Key
    BY <1>6 DEF GatewayGet, QuietInv, CodeInv, TypeOK, PacketTypes
  <2>2. Decide(res_next[proc][bitmap]) /\ UNCHANGED res_next
    BY <1>6, <2>1 DEF GatewayGet
  <2>3. res_next[proc][bitmap] \in Op /\ Leads(res_next[proc][bitmap])
    BY <1>6, <2>1, GateLeads
  <2> QED
    BY <1>0, <1>6, <2>1, <2>2, <2>3, QuietDecide
<1>7. CASE (GatewayCrash \/ MatchCrash \/ MapRace) /\ quiet
  <2>1. /\ at = "done" /\ at' = "done" /\ pp' = "dead" /\ quiet' = quiet
        /\ proc' = proc /\ UNCHANGED res_next
    BY <1>0, <1>7 DEF GatewayCrash, MatchCrash, MapRace, Die, QuietInv, GatewayGet
  <2>2. Spare(proc)
    <3>1. cur # proc
      BY <2>1, ConfigAssumption
         DEF CodeInv, PlaceInv, TypeOK, PacketTypes, Proc, ConfigAssumption
    <3> QED
      BY <1>7, <2>1, <3>1 DEF GatewayCrash, MatchCrash, MapRace
  <2> QED
    BY <1>f, <2>1, <2>2 DEF QuietInv
<1>8. CASE MatchMiss /\ quiet
  <2>1. /\ pp = "match" /\ pp' = "route" /\ quiet' = quiet
        /\ action' = miss_act_id[proc][op.val] /\ UNCHANGED <<proc, op, res_next>>
    BY <1>0, <1>8 DEF MatchMiss, GatewayGet
  <2>2. at = "done" /\ if_work[proc] = 1 /\ ProcLoaded(proc)
    BY <1>8, <2>1, QuietProc
  <2>3. ASSUME ~Flawed(proc)
        PROVE  /\ op.val \in loaded[proc].tabs[proc]
               /\ action' \in DOMAIN loaded[proc].next[proc][op.val] /\ action' \notin Params
    <3>1. op.val \in loaded[proc].tabs[proc]
      BY <1>8, <2>1, <2>3 DEF QuietInv
    <3>2. action' = loaded[proc].miss[proc][op.val]
      BY <2>1, <2>2, <3>1 DEF ProcLoaded, TabLoaded
    <3>3. Sound(loaded[proc], proc)
      BY <2>3 DEF Flawed
    <3> QED
      BY <3>1, <3>2, <3>3 DEF Sound
  <2> QED
    BY <1>0, <1>f, <2>1, <2>2, <2>3 DEF QuietInv
<1>9. CASE MatchHit /\ quiet
  <2>1. /\ pp = "match" /\ pp' = "route" /\ quiet' = quiet /\ match_value' = "fresh"
        /\ action' \in Found(proc, op.val) /\ UNCHANGED <<proc, op, res_next>>
    BY <1>0, <1>9 DEF MatchHit, GatewayGet
  <2>2. at = "done" /\ if_work[proc] = 1
    BY <1>9, <2>1, QuietProc
  <2>3. ASSUME ~Flawed(proc)
        PROVE  /\ op.val \in loaded[proc].tabs[proc]
               /\ action' \in DOMAIN loaded[proc].next[proc][op.val]
    BY <1>9, <2>1, <2>3 DEF QuietInv, Flawed, Foreign
  <2> QED
    BY <1>0, <1>f, <2>1, <2>2, <2>3 DEF QuietInv
<1>10. CASE Route /\ quiet
  <2>1. /\ pp = "route" /\ pp' = "execute" /\ quiet' = quiet
        /\ UNCHANGED <<proc, op, action, match_value, res_next>>
    BY <1>0, <1>10 DEF Route, GatewayGet
  <2>2. /\ at = "done" /\ if_work[proc] = 1 /\ ProcLoaded(proc)
        /\ loaded[proc] \in Config /\ proc \in loaded[proc].procs
    BY <1>10, <2>1, QuietProc
  <2>3. ASSUME ~Flawed(proc)
        PROVE  /\ op.val \in loaded[proc].tabs[proc]
               /\ action \in DOMAIN loaded[proc].next[proc][op.val]
               /\ action \in Params => match_value # "none"
               /\ Forward(proc, next_proc')
    <3>1. /\ op.val \in loaded[proc].tabs[proc]
          /\ action \in DOMAIN loaded[proc].next[proc][op.val]
          /\ action \in Params => match_value # "none"
      BY <1>10, <2>1, <2>3 DEF QuietInv
    <3>2. action_proc_map[proc][op.val][action] = loaded[proc].next[proc][op.val][action]
      BY <2>2, <3>1 DEF ProcLoaded, TabLoaded
    <3>3. loaded[proc].next[proc][op.val][action] # Absent
      BY <2>2, <3>1, TableFacts
    <3>4. next_proc' = loaded[proc].next[proc][op.val][action]
      BY <1>10, <3>2, <3>3 DEF Route
    <3>5. Sound(loaded[proc], proc)
      BY <2>3 DEF Flawed
    <3> QED
      BY <3>1, <3>4, <3>5 DEF Sound
  <2>4. Forward(proc, next_proc') <=> Forward(proc, next_proc)'
    BY <2>1 DEF Forward
  <2> QED
    BY <1>0, <1>f, <2>1, <2>2, <2>3, <2>4 DEF QuietInv
<1>11. CASE ExecuteAction /\ quiet
  <2>1. pp = "execute" /\ quiet' = quiet /\ UNCHANGED res_next
    BY <1>0, <1>11 DEF ExecuteAction, GatewayGet
  <2>2. at = "done" /\ proc \in Proc /\ ProcLoaded(proc)
    BY <1>11, <2>1, QuietProc
  <2>3. ASSUME ~Flawed(proc) PROVE Go(next_proc) /\ Forward(proc, next_proc)
    <3>1. /\ op.val \in loaded[proc].tabs[proc] /\ Forward(proc, next_proc)
          /\ action \in DOMAIN loaded[proc].next[proc][op.val]
          /\ action \in Params => match_value # "none"
      BY <1>11, <2>1, <2>3 DEF QuietInv
    <3>2. action \in loaded[proc].acts[proc]
      BY <2>3, <3>1 DEF Flawed, Sound
    <3>3. action \in actions[proc]
      BY <2>2, <3>2 DEF ProcLoaded
    <3> QED
      BY <1>11, <3>1, <3>3 DEF ExecuteAction
  <2>4. \/ pp' = "out"
        \/ pp' = "parse" /\ (proc' > proc \/ Flawed(proc))
        \/ pp' = "dead" /\ proc' = proc /\ Flawed(proc)
    <3>1. Go(next_proc) \/ Die
      BY <1>11 DEF ExecuteAction
    <3>2. CASE Flawed(proc)
      BY <3>1, <3>2 DEF Go, Die
    <3>3. CASE ~Flawed(proc)
      BY <2>3, <3>3 DEF Go, Forward
    <3> QED
      BY <3>2, <3>3
  <2> QED
    BY <1>0, <1>f, <2>1, <2>2, <2>4 DEF QuietInv
<1> QED
  BY <1>1, <1>2, <1>3, <1>4, <1>5, <1>6, <1>7, <1>8, <1>9, <1>10, <1>11 DEF Advance

(* The invariant holds in the initial states ...                           *)
LEMMA InvInit == Init => IInv
<1>1. Init => QuietInv
  BY DEF Init, QuietInv
<1> QED
  BY <1>1, CodeInit, LoadInit DEF IInv, CodeInv

(* ... and every step keeps it.                                            *)
LEMMA InvStep == IInv /\ [Next]_vars => IInv'
<1> SUFFICES ASSUME IInv, [Next]_vars PROVE IInv'
  OBVIOUS
<1>1. CodeInv /\ LoadInv /\ QuietInv
  BY DEF IInv, CodeInv
<1>2. CodeInv' /\ LoadInv'
  BY <1>1, CodeStep, ConfigStep
<1>3. QuietInv'
  <2>1. CASE UNCHANGED vars
    <3>1. UNCHANGED <<if_work, res_next, exps, table, words, loaded, at, pp, proc, op, action,
                      match_value, next_proc, bitmap, ones, quiet>>
      BY <2>1 DEF vars, cfgVars, gateVars, tableVars, mapVars, ctlVars, pktVars
    <3>2. /\ Flawed(proc)' <=> Flawed(proc)
          /\ Spare(proc)' <=> Spare(proc)
          /\ Forward(proc, next_proc)' <=> Forward(proc, next_proc)
      BY <3>1 DEF Flawed, Sound, Leftover, Foreign, Found, Spare, Forward
    <3> QED
      BY <1>1, <3>1, <3>2 DEF QuietInv
  <2>2. CASE Controller
    BY <1>1, <2>2, ControllerQuiet
  <2>3. CASE Arrive \/ Advance
    BY <1>1, <2>3, PacketQuiet
  <2> QED
    BY <2>1, <2>2, <2>3 DEF Next
<1> QED
  BY <1>2, <1>3 DEF IInv, CodeInv

(* For every pipeline and every sequence of configurations, sound or not,  *)
(* and of entries with any actions, a packet that meets no update and no   *)
(* insertion dies only for one of five reasons that are visible on the     *)
(* processor it dies on: the key of an empty parser slot, an unwritten     *)
(* cell of the gateway's vector, a configuration that is not sound, a null *)
(* operation left over for a bitmap, or a word with an action that is not  *)
(* the table's.  Nothing else that earlier updates left behind, in any     *)
(* order of calls and packets, can kill it (Processor::process_packet,     *)
(* Executor::execute).                                                     *)
THEOREM QuietPacketsDoNotCrash == Spec => []QuietNoCrash
<1>1. IInv => QuietNoCrash
  BY DEF IInv, QuietInv, QuietNoCrash
<1> QED
  BY <1>1, InvInit, InvStep, PTL DEF Spec

(* A packet that meets no update and no insertion goes on to a later       *)
(* processor, unless the one it leaves is flawed: the 0 that operator[]    *)
(* puts into action_proc_map for an unknown action is followed by a quiet  *)
(* packet only where the configuration or an entry names such an action    *)
(* (Pipeline::execute).                                                    *)
THEOREM QuietPacketsGoForward == Spec => QuietForward
<1>1. IInv /\ [Next]_vars =>
        [quiet /\ quiet' /\ pp # "idle" /\ pp' = "parse" => proc' > proc \/ Flawed(proc)]_vars
  <2> SUFFICES ASSUME IInv, Next
               PROVE  quiet /\ quiet' /\ pp # "idle" /\ pp' = "parse" => proc' > proc \/ Flawed(proc)
    OBVIOUS
  <2>1. CodeInv /\ LoadInv /\ QuietInv
    BY DEF IInv, CodeInv
  <2>2. CASE Controller
    BY <2>1, <2>2, ControllerQuiet
  <2>3. CASE Arrive \/ Advance
    BY <2>1, <2>3, PacketQuiet
  <2> QED
    BY <2>2, <2>3 DEF Next
<1> QED
  BY <1>1, InvInit, InvStep, PTL DEF Spec, QuietForward
=============================================================================
