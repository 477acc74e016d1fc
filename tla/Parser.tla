------------------------------- MODULE Parser -------------------------------
(***************************************************************************)
(* The parser of one processor (sw-src/dataplane/parser.h).                *)
(*                                                                         *)
(* A parser has levels, a level has two tables of NIdx slots: ps_trans_tbl *)
(* holds the state and the masked key a slot stands for, ps_act_tbl the    *)
(* header to extract, the next state and the fields of the next key.  The  *)
(* slot of an entry is computed from its state and the bytes of its key;   *)
(* a wildcard goes to the slot counted from the end by its state.  A level *)
(* takes the first slot that matches.                                      *)
(*                                                                         *)
(* The thread of the gRPC server changes the tables, the levels and the    *)
(* flag if_work while the packet thread parses; no lock is taken.          *)
(***************************************************************************)
EXTENDS Integers, Sequences

CONSTANTS
    NLevel,     \* the levels of a parser: 4
    NIdx,       \* the slots of a level: 256
    LenMod,     \* modify_parser_entry_direct takes an 8-bit length: 256
    WordMod,    \* keys are 32 bits wide: 2^32
    ByteSum,    \* the sum of the bytes of a key
    And(_, _),  \* bitwise and of keys
    Request,    \* the entries the controller sends, each with its level
    Hdr,        \* header numbers
    Arrival,    \* packets as they enter the parser
    Garbage,    \* the slot of ps_act_tbl that no code has written
    Stray       \* the actions such a slot may be read as

Level == 0 .. NLevel - 1
Idx == 0 .. NIdx - 1
Key == 0 .. WordMod - 1
AllOnes == WordMod - 1
NoIdx == -1

(* The key and the action of an entry.                                     *)
Trans(e) == [state |-> e.state, entry |-> e.entry, mask |-> e.mask]
ActionOf(e) == [hdr_id |-> e.hdr_id, hdr_len |-> e.hdr_len % LenMod,
                next_state |-> e.next_state, fds |-> e.fds, miss_act |-> e.miss_act]

Unset == [state |-> 0, entry |-> AllOnes, mask |-> AllOnes]

TransEntry == [state : 0 .. NIdx - 1, entry : Key, mask : Key]
FieldDesc == [hdr : Hdr, off : Nat, len : Nat, valid : BOOLEAN]
ActEntry == [hdr_id : Hdr, hdr_len : Nat, next_state : 0 .. NIdx - 1,
             fds : Seq(FieldDesc), miss_act : 0 .. 2]

ASSUME SizeAssumption ==
    /\ NLevel \in Nat \ {0} /\ NIdx \in Nat \ {0}
    /\ LenMod \in Nat \ {0} /\ WordMod \in Nat \ {0}

ASSUME KeyAssumption ==
    /\ ByteSum \in [Key -> Nat]
    /\ \A a \in Key : And(a, AllOnes) = a

(* An entry has room for four fields (trans_fds); the code does not check  *)
(* it, and entries with more, which write behind the array, are left out.  *)
NField == 4

ASSUME RequestAssumption ==
    \A r \in Request :
        /\ r.level \in Level
        /\ Trans(r) \in TransEntry
        /\ r.hdr_id \in Hdr /\ r.hdr_len \in Nat /\ r.next_state \in 0 .. NIdx - 1
        /\ r.miss_act \in 0 .. 2
        /\ r.fds \in Seq(FieldDesc) /\ Len(r.fds) <= NField
        /\ Garbage # ActionOf(r)

ASSUME StrayAssumption == Stray \subseteq ActEntry

ASSUME ArrivalAssumption ==
    /\ 0 \in Hdr
    /\ \A a \in Arrival :
          /\ a.valid \subseteq Hdr /\ a.offset \in Nat
          /\ a.hoff \in [Hdr -> Nat] /\ a.hlen \in [Hdr -> Nat]

VARIABLES
    trans, act,     \* per level: ps_trans_tbl and ps_act_tbl
    needed,         \* needed_parser_level
    if_work,
    pc, req, lev,   \* the handler that is running
    sent,           \* history, per level: the entries sent since it was cleared
    pp, pkt, lvl, idx,              \* the parse that is running
    cur_state, key, offset, miss,   \* ... what the PHV says of it
    hoff, hlen, valid,              \* ... the headers of the PHV
    got,            \* history: the headers this parse has extracted
    quiet           \* history: no handler met the running parse

tblVars == <<trans, act, sent>>
lvlVars == <<needed, if_work>>
rpcVars == <<pc, req, lev>>
phvVars == <<cur_state, key, offset, miss, hoff, hlen, valid, got>>
pktVars == <<pp, pkt, lvl, idx, phvVars>>
vars == <<tblVars, lvlVars, rpcVars, pktVars, quiet>>

-----------------------------------------------------------------------------
(* The slot of an entry.                                                   *)
Index(e) ==
    IF e.entry = 0 /\ e.mask = 0
    THEN NIdx - 1 - e.state
    ELSE (e.state + ByteSum[e.entry]) % NIdx

(* A slot or an entry stands for a state and a key.                        *)
Applies(e, s, k) == e.state = s /\ e.entry = And(k, e.mask)

(* The value of a field (get_field_int): the validity of its header, or    *)
(* the bits of the packet from its position on.                            *)
FieldValue(bits, fd, off, val) ==
    IF fd.valid THEN IF fd.hdr \in val THEN 1 ELSE 0
    ELSE bits[off[fd.hdr] + fd.off] % WordMod

(* The key of the next level: the fields one after the other, as the loop  *)
(* in parse() adds them up.                                                *)
TransKey(bits, fds, off, val) ==
    LET k[n \in 0 .. Len(fds)] ==
          IF n = 0 THEN 0
          ELSE (k[n - 1] + k[n - 1] * 2 ^ fds[n].len + FieldValue(bits, fds[n], off, val))
               % WordMod
    IN  k[Len(fds)]

-----------------------------------------------------------------------------
Init ==
    /\ trans = [l \in Level |-> [j \in Idx |-> Unset]]
    /\ act = [l \in Level |-> [j \in Idx |-> Garbage]]
    /\ sent = [l \in Level |-> {}]
    /\ needed = 0 /\ if_work = 0
    /\ pc = "idle" /\ req \in Request /\ lev = 0
    /\ pp = "idle" /\ pkt \in Arrival /\ lvl = 0 /\ idx = NoIdx
    /\ cur_state = pkt.state /\ key = pkt.key /\ offset = pkt.offset /\ miss = pkt.miss
    /\ hoff = pkt.hoff /\ hlen = pkt.hlen /\ valid = pkt.valid /\ got = {}
    /\ quiet = TRUE

(* The start of a handler, seen by the packet that is in the parser.       *)
Disturb == quiet' = (quiet /\ pp = "idle")

-----------------------------------------------------------------------------
(***************************************************************************)
(* The handlers.                                                           *)
(***************************************************************************)
(* Mutant: the last level counted in.                                      *)
InitParserLevelWide(n) ==
    /\ pc = "idle"
    /\ needed' = n + 1 /\ if_work' = 1
    /\ Disturb
    /\ UNCHANGED <<tblVars, rpcVars, pktVars>>

init_parser_level(n) ==
    /\ pc = "idle"
    /\ needed' = n /\ if_work' = 1
    /\ Disturb
    /\ UNCHANGED <<tblVars, rpcVars, pktVars>>

(* modify_trans_entry writes the slot of ps_trans_tbl first ...            *)
modify_trans_entry(r) ==
    /\ pc = "idle"
    /\ trans' = [trans EXCEPT ![r.level][Index(r)] = Trans(r)]
    /\ pc' = "act" /\ req' = r
    /\ Disturb
    /\ UNCHANGED <<act, sent, lvlVars, lev, pktVars>>

(* Mutant: the slot of ps_act_tbl is not written.                          *)
ModifyActNot ==
    /\ pc = "act"
    /\ sent' = [sent EXCEPT ![req.level] =
                  {e \in sent[req.level] : Trans(e) # Trans(req)} \cup {req}]
    /\ pc' = "idle"
    /\ UNCHANGED <<trans, act, lvlVars, req, lev, pktVars, quiet>>

(* ... and then that of ps_act_tbl.  An entry replaces one with its key.   *)
ModifyAct ==
    /\ pc = "act"
    /\ act' = [act EXCEPT ![req.level][Index(req)] = ActionOf(req)]
    /\ sent' = [sent EXCEPT ![req.level] =
                  {e \in sent[req.level] : Trans(e) # Trans(req)} \cup {req}]
    /\ pc' = "idle"
    /\ UNCHANGED <<trans, lvlVars, req, lev, pktVars, quiet>>

(* clear(): the levels in use, one after the other, then the flag.  The    *)
(* memset of five bytes leaves the number of fields and the miss action.   *)
clear ==
    /\ pc = "idle"
    /\ pc' = "clear" /\ lev' = 0
    /\ Disturb
    /\ UNCHANGED <<tblVars, lvlVars, req, pktVars>>

ZeroField == [hdr |-> 0, off |-> 0, len |-> 0, valid |-> FALSE]

Cleared(a) ==
    IF a = Garbage THEN Garbage
    ELSE [hdr_id |-> 0, hdr_len |-> 0, next_state |-> 0,
          fds |-> [n \in DOMAIN a.fds |-> ZeroField], miss_act |-> a.miss_act]

(* Mutant: ps_trans_tbl keeps its entries.                                 *)
ClearLevelHalf ==
    /\ pc = "clear" /\ lev < needed
    /\ act' = [act EXCEPT ![lev] = [j \in Idx |-> Cleared(act[lev][j])]]
    /\ sent' = [sent EXCEPT ![lev] = {}]
    /\ lev' = lev + 1
    /\ UNCHANGED <<trans, lvlVars, pc, req, pktVars, quiet>>

ClearLevel ==
    /\ pc = "clear" /\ lev < needed
    /\ trans' = [trans EXCEPT ![lev] = [j \in Idx |-> Unset]]
    /\ act' = [act EXCEPT ![lev] = [j \in Idx |-> Cleared(act[lev][j])]]
    /\ sent' = [sent EXCEPT ![lev] = {}]
    /\ lev' = lev + 1
    /\ UNCHANGED <<lvlVars, pc, req, pktVars, quiet>>

ClearEnd ==
    /\ pc = "clear" /\ lev >= needed
    /\ needed' = 0 /\ if_work' = 0
    /\ pc' = "idle" /\ lev' = 0
    /\ UNCHANGED <<tblVars, req, pktVars, quiet>>

-----------------------------------------------------------------------------
(***************************************************************************)
(* Parser::parse and ParserStage::parse, by the packet thread.             *)
(***************************************************************************)
parse(a) ==
    /\ pp = "idle"
    /\ pkt' = a /\ lvl' = 0
    /\ cur_state' = a.state /\ key' = a.key /\ offset' = a.offset /\ miss' = a.miss
    /\ hoff' = a.hoff /\ hlen' = a.hlen /\ valid' = a.valid /\ got' = {}
    /\ pp' = IF if_work = 0 THEN "dropped" ELSE "level"
    /\ quiet' = (pc = "idle")
    /\ UNCHANGED <<tblVars, lvlVars, rpcVars, idx>>

Hit(j) == Applies(trans[lvl][j], cur_state, key)

(* The first slot that matches ...                                         *)
Match ==
    /\ pp = "level" /\ lvl < needed
    /\ \E j \in Idx :
          /\ Hit(j) /\ \A m \in 0 .. j - 1 : ~Hit(m)
          /\ idx' = j
    /\ pp' = "apply"
    /\ UNCHANGED <<tblVars, lvlVars, rpcVars, pkt, lvl, phvVars, quiet>>

(* ... or none: the miss action of the last entry, which drops the packet  *)
(* if it is 1.                                                             *)
Miss ==
    /\ pp = "level" /\ lvl < needed
    /\ \A j \in Idx : ~Hit(j)
    /\ IF miss = 1
       THEN pp' = "dropped" /\ UNCHANGED lvl
       ELSE pp' = "level" /\ lvl' = lvl + 1
    /\ UNCHANGED <<tblVars, lvlVars, rpcVars, pkt, idx, phvVars, quiet>>

(* Mutant: the offset does not move on.                                    *)
OffsetKept(off, len) == off

(* Where the next header starts; 16 bits are enough for all levels.        *)
NextOffset(off, len) == off + len

(* What the slot that matched says.                                        *)
Found == IF act[lvl][idx] = Garbage THEN Stray ELSE {act[lvl][idx]}

(* A slot that matches extracts its header.  A slot that was never written *)
(* matches the key of all ones in state 0; it is read as some action ...   *)
Apply(a) ==
    /\ pp = "apply"
    /\ hoff' = [hoff EXCEPT ![a.hdr_id] = offset]
    /\ hlen' = [hlen EXCEPT ![a.hdr_id] = a.hdr_len]
    /\ valid' = valid \cup {a.hdr_id}
    /\ got' = got \cup {a.hdr_id}
    /\ offset' = NextOffset(offset, a.hdr_len)
    /\ cur_state' = a.next_state
    /\ miss' = a.miss_act
    /\ key' = IF a.miss_act \in {0, 1} THEN key
              ELSE TransKey(pkt.bits, a.fds, hoff', valid')
    /\ IF a.miss_act = 1
       THEN pp' = "dropped" /\ UNCHANGED lvl
       ELSE pp' = "level" /\ lvl' = lvl + 1
    /\ idx' = NoIdx
    /\ UNCHANGED <<tblVars, lvlVars, rpcVars, pkt, quiet>>

(* ... or kills the process, if the header number in it lies outside of    *)
(* the PHV or the number of fields outside of their array.                 *)
ApplyGarbage ==
    /\ pp = "apply"
    /\ act[lvl][idx] = Garbage
    /\ pp' = "dead" /\ pc' = "dead"
    /\ UNCHANGED <<tblVars, lvlVars, req, lev, pkt, lvl, idx, phvVars, quiet>>

End ==
    /\ pp = "level" /\ lvl >= needed
    /\ pp' = "done"
    /\ UNCHANGED <<tblVars, lvlVars, rpcVars, pkt, lvl, idx, phvVars, quiet>>

(* The packet goes on to the gateway, or out.                              *)
Return ==
    /\ pp \in {"done", "dropped"}
    /\ pp' = "idle" /\ quiet' = TRUE
    /\ UNCHANGED <<tblVars, lvlVars, rpcVars, pkt, lvl, idx, phvVars>>

-----------------------------------------------------------------------------
Handler ==
    \/ \E n \in 0 .. NLevel : init_parser_level(n)
    \/ \E r \in Request : modify_trans_entry(r)
    \/ ModifyAct
    \/ clear
    \/ ClearLevel
    \/ ClearEnd

Parse ==
    \/ \E a \in Arrival : parse(a)
    \/ Match
    \/ Miss
    \/ pp = "apply" /\ \E a \in Found : Apply(a)
    \/ ApplyGarbage
    \/ End
    \/ Return

Next == Handler \/ Parse

Spec == Init /\ [][Next]_vars

-----------------------------------------------------------------------------
(***************************************************************************)
(* Properties.                                                             *)
(***************************************************************************)

(* The variables have the types of parser.h's and the PHV's members.       *)
TypeOK ==
    /\ trans \in [Level -> [Idx -> TransEntry]]
    /\ act \in [Level -> [Idx -> ActEntry \cup {Garbage}]]
    /\ sent \in [Level -> SUBSET Request]
    /\ needed \in 0 .. NLevel /\ if_work \in {0, 1}
    /\ pc \in {"idle", "act", "clear", "dead"}
    /\ req \in Request /\ lev \in 0 .. NLevel
    /\ pp \in {"idle", "level", "apply", "done", "dropped", "dead"}
    /\ lvl \in 0 .. NLevel /\ idx \in Idx \cup {NoIdx}
    /\ valid \subseteq Hdr /\ got \subseteq Hdr
    /\ offset \in Nat /\ hoff \in [Hdr -> Nat] /\ hlen \in [Hdr -> Nat]
    /\ quiet \in BOOLEAN

(* The entries of a level have slots of their own.                         *)
Placed(l) == \A e, f \in sent[l] : Trans(e) # Trans(f) => Index(e) # Index(f)

(* A level that a parse, which no handler met, works on finds an entry     *)
(* that was sent to it and applies to the packet, with that entry's        *)
(* action, and misses only if no such entry was sent: no entry of an       *)
(* earlier configuration is left, none is lost, none is half written       *)
(* (ParserStage::parse, modify_trans_entry, clear).  It is so for a level  *)
(* whose entries do not share slots, and for all keys but the one an empty *)
(* slot stands for.                                                        *)
SearchExact ==
    /\ pp \in {"apply", "level"} /\ quiet /\ lvl < needed
    /\ Placed(lvl)
    /\ ~Applies(Unset, cur_state, key)
    =>
    IF pp = "apply"
    THEN \E e \in sent[lvl] : Applies(e, cur_state, key) /\ act[lvl][idx] = ActionOf(e)
    ELSE (\E e \in sent[lvl] : Applies(e, cur_state, key)) <=> (\E j \in Idx : Hit(j))

(* The headers that a parse, which no handler met, extracts are marked     *)
(* valid and lie one behind the other in the packet, whatever entries the  *)
(* levels hold (ParserStage::parse).                                       *)
HeadersDisjoint ==
    quiet =>
        /\ got \subseteq valid
        /\ \A h, g \in got :
              h # g => hoff[h] + hlen[h] <= hoff[g] \/ hoff[g] + hlen[g] <= hoff[h]

(* The process dies only when a parse meets the key of all ones in state 0 *)
(* or when a handler fills a slot under it (the order of the two tables in *)
(* modify_trans_entry).                                                    *)
QuietNoCrash == pp = "dead" /\ quiet => Applies(Unset, cur_state, key)
=============================================================================
