-------------------------------- MODULE Tcam --------------------------------
(***************************************************************************)
(* Ternary and LPM tables (the TCAM branches of sw-src/dataplane/          *)
(* matcher_c.h) and the exact tables they share a cluster's SRAM with.     *)
(*                                                                         *)
(* A ternary table keeps keys and masks in TCAM blocks and values in SRAM  *)
(* blocks.  The byte sum of a key picks the slice; the slot is tcam_idx,   *)
(* one counter for all slices.  A word is a set of bits, so & is \cap.     *)
(*                                                                         *)
(* A block may be in use by several tables: the controller configures      *)
(* thread by thread, so a new table may get blocks another one still has.  *)
(*                                                                         *)
(* The races of a lookup with a reconfiguration, step by step, are those   *)
(* of module Matcher; here a handler that configures is one step, and the  *)
(* steps of an insertion and of a lookup's scan of the slots interleave.   *)
(***************************************************************************)
EXTENDS Integers, FiniteSets

CONSTANTS
    Thread,         \* the matcher threads of the cluster's processors
    NSram, NTcam,   \* SRAM_NUM_PER_CLUSTER, TCAM_NUM_PER_CLUSTER
    NSlot,          \* 1 << TCAM_DEPTH = 1 << SRAM_DEPTH
    KW,             \* blocks side by side for a key; a value takes one
    Bit,            \* the bits of a word
    KeyPart,        \* the bits of each word of a key within key_byte_len
    KeySum(_),      \* the byte sum of a key
    Request,        \* the configurations the controller sends
    TableEntry,     \* the entries it inserts
    PacketKey,      \* the keys of packets
    NoConf, NoEntry, NoThread

Slot == 0 .. NSlot - 1
Sram == 0 .. NSram - 1
Tcam == 0 .. NTcam - 1
Word == SUBSET Bit
Zero == {}
Chunk == 0 .. KW - 1
KeyWord == [Chunk -> Word]
Key == {k \in KeyWord : \A j \in Chunk : k[j] \subseteq KeyPart[j]}
ZeroKey == [j \in Chunk |-> Zero]

(* A value is sent with its length: part, the bits memcpy reaches.         *)
Entry == {e \in [key : Key, mask : Key, value : Word, part : Word] : e.value \subseteq e.part}
NullEntry == [key |-> ZeroKey, mask |-> ZeroKey, value |-> Zero, part |-> Bit]

Elements(config) == {config[j] : j \in DOMAIN config}
SramBlocks(c) ==
    IF c = NoConf THEN {}
    ELSE Elements(c.value) \cup (IF c.type = "EXACT" THEN Elements(c.key) ELSE {})
TcamBlocks(c) == IF c = NoConf \/ c.type = "EXACT" THEN {} ELSE Elements(c.key)

(* As the compiler lays a table out: no block is used twice.               *)
Injective(config) == \A j, l \in DOMAIN config : config[j] = config[l] => j = l

WellFormed(r) ==
    /\ r.type \in {"EXACT", "TERNARY"}
    /\ r.depth \in 1 .. NSram
    /\ DOMAIN r.key = 0 .. KW * r.depth - 1 /\ DOMAIN r.value = 0 .. r.depth - 1
    /\ SramBlocks(r) \subseteq Sram /\ TcamBlocks(r) \subseteq Tcam
    /\ Injective(r.key) /\ Injective(r.value)
    /\ r.type = "EXACT" => Elements(r.key) \cap Elements(r.value) = {}

ASSUME SizeAssumption ==
    /\ NSram \in Nat \ {0} /\ NTcam \in Nat \ {0}
    /\ NSlot \in Nat \ {0} /\ KW \in Nat \ {0}
    /\ KeyPart \in [Chunk -> Word]

ASSUME EntryAssumption ==
    /\ TableEntry \subseteq Entry /\ NoEntry \notin TableEntry
    /\ PacketKey \subseteq Key
    /\ \A k \in Key : KeySum(k) \in Nat

ASSUME RequestAssumption ==
    /\ \A r \in Request : r # NoConf /\ WellFormed(r)
    /\ NoThread \notin Thread

VARIABLES
    tbl, mask,      \* the TCAM blocks: tbl[b][x] and mask[b][x] are words
    sram,           \* the SRAM blocks
    conf,           \* per thread: match_type, depth and config arrays
    fdInfos,        \* per thread: the match fields have been set
    tcam_idx,       \* per thread: the slot of the next entry
    pc, th, ent,    \* the insertion that is running
    pp, pt, pk, pf, \* the lookup that is running: key
    pkb, pvb,       \* ... tcam_key_seq, sram_value_seq
    pm, pi,         \* ... match_key & tmp_mask, the loop variable over the slots
    out,            \* ... out_key and out_value
    put,            \* history: what was inserted into each cell of a table
    mixed,          \* history: tables that do not have their blocks to themselves
    quiet           \* history: no handler met the lookup's slice

memVars == <<tbl, mask, sram>>
cfgVars == <<conf, fdInfos, tcam_idx>>
rpcVars == <<pc, th, ent>>
pktVars == <<pp, pt, pk, pf, pkb, pvb, pm, pi, out>>
vars == <<memVars, cfgVars, rpcVars, pktVars, put, mixed, quiet>>

NoPut == [s \in 0 .. NSram - 1 |-> [x \in Slot |-> NoEntry]]

Init ==
    /\ tbl = [b \in Tcam |-> [x \in Slot |-> Zero]]
    /\ mask = [b \in Tcam |-> [x \in Slot |-> Zero]]
    /\ sram = [b \in Sram |-> [x \in Slot |-> Zero]]
    /\ conf = [t \in Thread |-> NoConf]
    /\ fdInfos = [t \in Thread |-> FALSE]
    /\ tcam_idx = [t \in Thread |-> 0]
    /\ pc = "idle" /\ th = NoThread /\ ent = NullEntry
    /\ pp = "idle" /\ pt = NoThread /\ pk = ZeroKey /\ pf = FALSE
    /\ pkb = [j \in Chunk |-> 0] /\ pvb = 0 /\ pm = ZeroKey /\ pi = 0
    /\ out = [key |-> ZeroKey, value |-> Zero]
    /\ put = [t \in Thread |-> NoPut]
    /\ mixed = {}
    /\ quiet = TRUE

-----------------------------------------------------------------------------
(***************************************************************************)
(* setMemConfig (clear_old_config, init_match_type, set_mem_config), and   *)
(* clearOldConfig, which stops after the first.                            *)
(***************************************************************************)

(* Mutant: the masks of the old table stay.                                *)
ClearedMaskNot(c, b) == FALSE

ClearedMask(c, b) == b \in TcamBlocks(c)

(* clear_old_config clears the value blocks of a ternary table by the      *)
(* capacity of a TCAM block, which is half of theirs.                      *)
ClearedSram(c, b, x) ==
    /\ b \in SramBlocks(c)
    /\ c.type = "TERNARY" => x < NSlot \div 2

(* Mutant: tcam_idx is not reset.                                          *)
ResetIdxNot(t) == tcam_idx

ResetIdx(t) == [tcam_idx EXCEPT ![t] = 0]

(* The other threads that have a block of r, which the controller may hand *)
(* over while they do.                                                     *)
Sharing(r, t) ==
    {u \in Thread \ {t} : \/ SramBlocks(r) \cap SramBlocks(conf[u]) # {}
                          \/ TcamBlocks(r) \cap TcamBlocks(conf[u]) # {}}

SetMemConfig(t, r) ==
    /\ pc = "idle"
    /\ LET old == conf[t] IN
       /\ tbl' = [b \in Tcam |-> [x \in Slot |->
                    IF b \in TcamBlocks(old) THEN Zero ELSE tbl[b][x]]]
       /\ mask' = [b \in Tcam |-> [x \in Slot |->
                    IF ClearedMask(old, b) THEN Zero ELSE mask[b][x]]]
       /\ sram' = [b \in Sram |-> [x \in Slot |->
                    IF ClearedSram(old, b, x) THEN Zero ELSE sram[b][x]]]
       /\ tcam_idx' = IF old # NoConf /\ old.type = "TERNARY" THEN ResetIdx(t) ELSE tcam_idx
    /\ conf' = [conf EXCEPT ![t] = r]
    /\ fdInfos' = [fdInfos EXCEPT ![t] = FALSE]
    /\ put' = [put EXCEPT ![t] = NoPut]
    /\ mixed' = (mixed \ {t}) \cup Sharing(r, t) \cup {u \in {t} : Sharing(r, t) # {}}
    /\ quiet' = (quiet /\ pt # t)
    /\ UNCHANGED <<rpcVars, pktVars>>

SetFieldInfo(t) ==
    /\ pc = "idle" /\ conf[t] # NoConf
    /\ fdInfos' = [fdInfos EXCEPT ![t] = TRUE]
    /\ UNCHANGED <<memVars, conf, tcam_idx, rpcVars, pktVars, put, mixed, quiet>>

-----------------------------------------------------------------------------
SliceOf(t, k) == KeySum(k) % conf[t].depth

(* Block j of slice s.                                                     *)
KeyBlock(t, s, j) == conf[t].key[s + conf[t].depth * j]
ValueBlock(t, s) == conf[t].value[s]

(* A word after memcpy: what the copy does not reach stays.                *)
Splice(old, new, part) == (old \ part) \cup new

(* Word j of the key is copied into the j-th key block of slice s, slot x. *)
Write(mem, t, s, x, key) ==
    [b \in DOMAIN mem |-> [mem[b] EXCEPT ![x] =
        IF \E j \in Chunk : KeyBlock(t, s, j) = b
        THEN LET j == CHOOSE j \in Chunk : KeyBlock(t, s, j) = b
             IN  Splice(@, key[j], KeyPart[j])
        ELSE @]]

(* insert_sram_entry, here in one step.                                    *)
InsertSram(t, e) ==
    /\ pc = "idle" /\ conf[t] # NoConf /\ conf[t].type = "EXACT"
    /\ LET s == SliceOf(t, e.key)
           x == KeySum(e.key) % NSlot
       IN  /\ sram' = [Write(sram, t, s, x, e.key) EXCEPT
                         ![ValueBlock(t, s)][x] = Splice(@, e.value, e.part)]
           /\ put' = [put EXCEPT ![t][s][x] = e]
    /\ UNCHANGED <<tbl, mask, cfgVars, rpcVars, pktVars, mixed, quiet>>

StartInsert(t, e) ==
    /\ pc = "idle" /\ conf[t] # NoConf /\ conf[t].type = "TERNARY"
    /\ pc' = "put_key" /\ th' = t /\ ent' = e
    /\ quiet' = (quiet /\ pt # t)
    /\ UNCHANGED <<memVars, cfgVars, pktVars, put, mixed>>

(* insert_tcam_entry never compares tcam_idx with the number of slots.     *)
(* What lies behind the blocks is then written over, and nothing is known  *)
(* of the process any more.                                                *)
PutLost ==
    /\ pc = "put_key" /\ tcam_idx[th] >= NSlot
    /\ pc' = "lost" /\ pp' = "lost"
    /\ UNCHANGED <<memVars, cfgVars, th, ent, pt, pk, pf, pkb, pvb, pm, pi, out,
                   put, mixed, quiet>>

PutKey ==
    /\ pc = "put_key" /\ tcam_idx[th] < NSlot
    /\ tbl' = Write(tbl, th, SliceOf(th, ent.key), tcam_idx[th], ent.key)
    /\ mask' = Write(mask, th, SliceOf(th, ent.key), tcam_idx[th], ent.mask)
    /\ pc' = "put_val"
    /\ UNCHANGED <<sram, cfgVars, th, ent, pktVars, put, mixed, quiet>>

(* Mutant: the counter is advanced in the loops over the blocks.           *)
NextIdxPerBlock(x) == x + KW + 1

NextIdx(x) == x + 1

PutValue ==
    /\ pc = "put_val"
    /\ LET s == SliceOf(th, ent.key)
           x == tcam_idx[th]
       IN  /\ sram' = [sram EXCEPT ![ValueBlock(th, s)][x] = Splice(@, ent.value, ent.part)]
           /\ put' = [put EXCEPT ![th][s][x] = ent]
    /\ tcam_idx' = [tcam_idx EXCEPT ![th] = NextIdx(@)]
    /\ pc' = "idle" /\ th' = NoThread /\ ent' = NullEntry
    /\ UNCHANGED <<tbl, mask, conf, fdInfos, pktVars, mixed, quiet>>

-----------------------------------------------------------------------------
(***************************************************************************)
(* get_match_res, the branch of ternary and LPM tables.                    *)
(***************************************************************************)
SearchSlice(t, k, f) == IF f THEN SliceOf(t, k) ELSE 0

(* tmp_mask is allocated and never written: m is whatever it holds.        *)
Execute(t, k, m) ==
    /\ pp = "idle"
    /\ conf[t] # NoConf /\ conf[t].type = "TERNARY"
    /\ pp' = "scan" /\ pt' = t /\ pk' = k /\ pm' = [j \in Chunk |-> k[j] \cap m[j]] /\ pi' = 0 /\ pf' = fdInfos[t]
    /\ pkb' = [j \in Chunk |-> KeyBlock(t, SearchSlice(t, k, fdInfos[t]), j)]
    /\ pvb' = ValueBlock(t, SearchSlice(t, k, fdInfos[t]))
    /\ quiet' = (th # t)
    /\ UNCHANGED <<memVars, cfgVars, rpcVars, out, put, mixed>>

(* Mutant: a slot that has not been reached is tested.                     *)
FoundAhead(m) == pf => \A j \in Chunk : pm[j] = m[j][(pi + 1) % NSlot] \cap KeyPart[j]

(* Both copies go to tmp_key: the mask is there when it is compared, over  *)
(* the bytes of the key.  Without fields no byte is.                       *)
Found(m) == pf => \A j \in Chunk : pm[j] = m[j][pi] \cap KeyPart[j]

Scan ==
    /\ pp = "scan" /\ pi < NSlot
    /\ IF Found([j \in Chunk |-> mask[pkb[j]]])
       THEN pp' = "copy" /\ UNCHANGED pi
       ELSE pi' = pi + 1 /\ UNCHANGED pp
    /\ UNCHANGED <<memVars, cfgVars, rpcVars, pt, pk, pf, pkb, pvb, pm, out, put, mixed, quiet>>

Copy ==
    /\ pp = "copy"
    /\ out' = [key |-> [j \in Chunk |-> tbl[pkb[j]][pi]], value |-> sram[pvb][pi]]
    /\ pp' = "hit"
    /\ UNCHANGED <<memVars, cfgVars, rpcVars, pt, pk, pf, pkb, pvb, pm, pi, put, mixed, quiet>>

(* The packet moves on; what the next lookup does not read is forgotten.   *)
Return ==
    /\ pp = "hit" \/ (pp = "scan" /\ pi = NSlot)
    /\ pp' = "idle" /\ pt' = NoThread /\ pk' = ZeroKey /\ pf' = FALSE /\ pm' = ZeroKey /\ pi' = 0
    /\ pkb' = [j \in Chunk |-> 0] /\ pvb' = 0 /\ out' = [key |-> ZeroKey, value |-> Zero]
    /\ quiet' = TRUE
    /\ UNCHANGED <<memVars, cfgVars, rpcVars, put, mixed>>

-----------------------------------------------------------------------------
Next ==
    \/ \E t \in Thread, r \in Request \cup {NoConf} : SetMemConfig(t, r)
    \/ \E t \in Thread : SetFieldInfo(t)
    \/ \E t \in Thread, e \in TableEntry : InsertSram(t, e)
    \/ \E t \in Thread, e \in TableEntry : StartInsert(t, e)
    \/ PutLost
    \/ PutKey
    \/ PutValue
    \/ \E t \in Thread, k \in PacketKey, m \in Key : Execute(t, k, m)
    \/ Scan
    \/ Copy
    \/ Return

Spec == Init /\ [][Next]_vars
-----------------------------------------------------------------------------
(* The variables have the types of matcher_c.h's members and locals.       *)
TypeOK ==
    /\ tbl \in [Tcam -> [Slot -> Word]] /\ mask \in [Tcam -> [Slot -> Word]]
    /\ sram \in [Sram -> [Slot -> Word]]
    /\ conf \in [Thread -> Request \cup {NoConf}]
    /\ fdInfos \in [Thread -> BOOLEAN]
    /\ tcam_idx \in [Thread -> 0 .. NSlot]
    /\ pc \in {"idle", "put_key", "put_val", "lost"} /\ th \in Thread \cup {NoThread}
    /\ ent \in Entry
    /\ pp \in {"idle", "scan", "copy", "hit", "lost"} /\ pt \in Thread \cup {NoThread}
    /\ pk \in Key /\ pf \in BOOLEAN
    /\ pkb \in [Chunk -> Tcam] /\ pvb \in Sram
    /\ pm \in Key /\ pi \in 0 .. NSlot
    /\ out \in [key : KeyWord, value : Word]
    /\ put \in [Thread -> [0 .. NSram - 1 -> [Slot -> TableEntry \cup {NoEntry}]]]
    /\ mixed \subseteq Thread
    /\ quiet \in BOOLEAN

(* What should be at slot x of slice s.                                    *)
At(t, s, x) == IF put[t][s][x] = NoEntry THEN NullEntry ELSE put[t][s][x]

(* The cell does hold it, as far as the key and the value go.  A cell      *)
(* without an entry in the upper slots of an SRAM block may hold anything: *)
(* clear_old_config does not clear them for a ternary table.               *)
CellHolds(t, s, x) ==
    LET is == At(t, s, x)
        sure == put[t][s][x] # NoEntry \/ x < NSlot \div 2
        keyMem == IF conf[t].type = "EXACT" THEN sram ELSE tbl
    IN  /\ sure \/ conf[t].type = "TERNARY" =>
              \A j \in Chunk : keyMem[KeyBlock(t, s, j)][x] \cap KeyPart[j] = is.key[j]
        /\ conf[t].type = "TERNARY" =>
              \A j \in Chunk : mask[KeyBlock(t, s, j)][x] \cap KeyPart[j] = is.mask[j]
        /\ sure => sram[ValueBlock(t, s)][x] \cap is.part = is.value

(* A table that has its blocks to itself and that no handler is changing   *)
(* holds the entries inserted into it since it was configured, each with   *)
(* its own mask and value in one slot.  Its other slots are clear of the   *)
(* tables that had the blocks before: in the TCAM blocks all of them, so   *)
(* that no old mask answers; in the SRAM blocks only the lower half, for   *)
(* clear_old_config leaves the values of a ternary table in the upper one. *)
(* A table loses its blocks' exclusive use the moment another one is       *)
(* configured over any of them (mixed).                                    *)
TableHolds ==
    \A t \in Thread \ mixed :
        conf[t] # NoConf /\ th # t =>
            \A s \in 0 .. conf[t].depth - 1, x \in Slot : CellHolds(t, s, x)

(* A lookup that no handler met on its table, which has its blocks to      *)
(* itself, stops at the first slot of its slice, in the order of           *)
(* insertion, whose mask is the one it compares with, and returns the key  *)
(* and the value of that slot's entry and of no other, although other      *)
(* tables come and go while it scans (get_match_res).  A slot no entry of  *)
(* the slice has taken answers with a key of zeros, in the lower half of   *)
(* the slots with a value of zeros, and above with whatever an earlier     *)
(* table left there.                                                       *)
QuietLookup ==
    pp = "hit" /\ quiet /\ pt \notin mixed =>
        LET s == SearchSlice(pt, pk, pf)
            fits(x) == pf => \A j \in Chunk : At(pt, s, x).mask[j] = pm[j]
        IN  /\ fits(pi) /\ \A x \in 0 .. pi - 1 : ~fits(x)
            /\ \A j \in Chunk : out.key[j] \cap KeyPart[j] = At(pt, s, pi).key[j]
            /\ put[pt][s][pi] # NoEntry \/ pi < NSlot \div 2
                  => out.value \cap At(pt, s, pi).part = At(pt, s, pi).value

(* An entry is written behind the blocks only when every slot has been     *)
(* used since the table was configured, however often and in whichever way *)
(* threads were reconfigured before (tcam_idx).                            *)
LostOnlyFull ==
    pc = "lost" =>
        \A x \in Slot : \E s \in 0 .. conf[th].depth - 1 : put[th][s][x] # NoEntry
=============================================================================
