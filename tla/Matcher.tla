------------------------------ MODULE Matcher ------------------------------
(***************************************************************************)
(* The exact-match tables of one cluster (sw-src/dataplane/matcher_c.h).   *)
(*                                                                         *)
(* A matcher thread is one logical table of one processor.  The threads    *)
(* of the processors of a cluster share the cluster's SRAM blocks: each    *)
(* thread holds two arrays of block numbers, key_config and                *)
(* sram_value_config, and a depth, the number of slices the table is cut   *)
(* into.  The byte sum of a key picks the slice and the slot; an entry     *)
(* inserted into an occupied slot replaces the one that was there.         *)
(*                                                                         *)
(* Nothing in the code keeps two threads off one block: the controller     *)
(* configures thread by thread, so a new table may get blocks another      *)
(* thread still has, and ternary tables (module Tcam) keep their values    *)
(* in the same blocks.                                                     *)
(*                                                                         *)
(* Two actors work on this state and no lock is taken: the thread of the   *)
(* gRPC server, which runs one configuration handler at a time because a   *)
(* controller waits for the answer to each of its calls, and the packet    *)
(* thread of main(), which looks keys up.  The handlers and the lookup     *)
(* are cut into steps where the other actor can see the difference.        *)
(***************************************************************************)
EXTENDS Integers

CONSTANTS
    Thread,     \* the matcher threads of the cluster's processors
    NB,         \* SRAM_NUM_PER_CLUSTER, also the size of the config arrays
    NSlot,      \* 1 << SRAM_DEPTH, the slots of a block
    KW,         \* sram_slice_key_width: blocks side by side for a key
    VW,         \* sram_slice_value_width: blocks side by side for a value
    WordBits,   \* SRAM_WIDTH, the bits of a slot of a block
    KeyBits,    \* the bits of a key, 8 * key_byte_len
    KeySum,     \* the byte sum of a key, a uint16_t
    Request,    \* the memory configurations the controller sends, and to whom
    TableKey,   \* the keys the controller inserts
    PacketKey,  \* the keys the packets carry
    TableValue, \* the values (action id and parameters) it inserts
    Paused,     \* the threads that setNoTable is called for
    TernaryBlock, \* the blocks that ternary tables of the cluster get
    TernaryWord,  \* what ternary tables write into them
    Action,     \* action ids, for the miss action
    NoEntry,    \* history value of a cell nothing was put into
    NoRequest   \* clearOldConfig: clear and configure nothing

Block == 0 .. NB - 1
Slot == 0 .. NSlot - 1
Bit == 0 .. WordBits - 1
Word == SUBSET Bit      \* the bits that are 1
Zero == {}
NoAction == -1

(* The bits of word j that memcpy reaches when len bits are copied from    *)
(* the first word on.                                                      *)
Copied(len, j) == {i \in Bit : WordBits * j + i < len}

KeyWord == [0 .. KW - 1 -> Word]
Key == {k \in KeyWord : \A j \in 0 .. KW - 1 : k[j] \subseteq Copied(KeyBits, j)}

(* A value is sent with its length; that of a table's entries varies with  *)
(* the parameters of their actions.                                        *)
ValueWord == [0 .. VW - 1 -> Word]
Value == {v \in [word : ValueWord, len : Nat] :
            \A j \in 0 .. VW - 1 : v.word[j] \subseteq Copied(v.len, j)}

(* The words read from a cell, as far as the key or the value goes.        *)
CutKey(words) == [j \in 0 .. KW - 1 |-> words[j] \cap Copied(KeyBits, j)]
CutValue(words, len) ==
    [word |-> [j \in 0 .. VW - 1 |-> words[j] \cap Copied(len, j)], len |-> len]

(* The depths for which the config arrays are long enough.                 *)
Depth == {d \in 0 .. NB : KW * d <= NB /\ VW * d <= NB}

Entry == [key : Key, value : Value]

ZeroBlock == [x \in Slot |-> Zero]
ZeroKey == [j \in 0 .. KW - 1 |-> Zero]
ZeroValueWord == [j \in 0 .. VW - 1 |-> Zero]
ZeroValue == [word |-> ZeroValueWord, len |-> VW * WordBits]

NullEntry == [key |-> ZeroKey, value |-> ZeroValue]

(* The blocks a configuration of depth d with these arrays uses.           *)
Used(config, width, d) == {config[j] : j \in 0 .. width * d - 1}

(* A configuration as the compiler lays it out: no block is used twice.    *)
Injective(config, width, d) ==
    \A j, l \in 0 .. width * d - 1 : config[j] = config[l] => j = l

WellFormed(r) ==
    /\ r.thread \in Thread
    /\ r.depth \in Depth \ {0}
    /\ r.key_config \in [0 .. KW * r.depth - 1 -> Block]
    /\ r.value_config \in [0 .. VW * r.depth - 1 -> Block]
    /\ Injective(r.key_config, KW, r.depth)
    /\ Injective(r.value_config, VW, r.depth)
    /\ Used(r.key_config, KW, r.depth) \cap Used(r.value_config, VW, r.depth) = {}
    /\ r.miss_act_id \in Action

RequestBlocks(r) ==
    Used(r.key_config, KW, r.depth) \cup Used(r.value_config, VW, r.depth)

ASSUME SizeAssumption ==
    /\ NB \in Nat \ {0}
    /\ NSlot \in Nat \ {0}
    /\ KW \in Nat \ {0}
    /\ VW \in Nat \ {0}
    /\ WordBits \in Nat \ {0}

(* The compiler takes as many blocks as the key needs.                     *)
ASSUME KeyBitsAssumption ==
    KeyBits \in Nat /\ (KW - 1) * WordBits < KeyBits /\ KeyBits <= KW * WordBits

ASSUME WordAssumption ==
    /\ TableKey \subseteq Key
    /\ PacketKey \subseteq Key
    /\ TableValue \subseteq Value
    /\ Paused \subseteq Thread
    /\ TernaryBlock \subseteq Block
    /\ TernaryWord \subseteq Word
    /\ KeySum \in [Key -> Nat]
    /\ NoAction \notin Action

ASSUME RequestAssumption ==
    /\ \A r \in Request : WellFormed(r)
    /\ NoRequest \notin Request
    /\ NoEntry \notin Entry

VARIABLES
    sram,           \* the blocks of the cluster: sram[b][x] is a word
    no_table,       \* per thread: the thread has no table
    depth,          \* per thread: sram_slice_depth
    key_config,     \* per thread: the array of key blocks
    value_config,   \* per thread: the array of value blocks
    linked,         \* per thread: the pointers to the cluster's blocks are set
    miss_act_id,    \* per thread: the action of a miss
    fdInfos,        \* per thread: the match fields have been set
    pc, th, req, ent, chunk,    \* the handler that is running
    pp, pt, pk, pf,             \* the lookup that is running: key
    pkb, pvb,                   \* ... blocks located
    out_key, out_value,         \* ... words copied out
    hit, act,                   \* ... result
    last,           \* history: last entry put in each cell of each table
    stale,          \* history: blocks a ternary table wrote and no exact one cleared
    mixed,          \* history: tables that do not have their blocks to themselves
    quiet           \* history: no handler met the running lookup's cell

memVars == <<sram>>
cfgVars == <<no_table, depth, key_config, value_config, linked, miss_act_id, fdInfos>>
rpcVars == <<pc, th, req, ent, chunk>>
pktVars == <<pp, pt, pk, pf, pkb, pvb, out_key, out_value, hit, act>>
shareVars == <<stale, mixed>>
vars == <<memVars, cfgVars, rpcVars, pktVars, last, shareVars, quiet>>

-----------------------------------------------------------------------------
(***************************************************************************)
(* Where a key lives.                                                      *)
(***************************************************************************)
SliceOf(sum, d) == sum % d
SlotOf(sum) == sum % NSlot

(* The j-th block of slice s: the arrays hold the first blocks of all      *)
(* slices, then the second blocks, and so on.                              *)
KeyBlock(t, s, j) == key_config[t][s + depth[t] * j]
ValueBlock(t, s, j) == value_config[t][s + depth[t] * j]

KeySlice == SliceOf(KeySum[ent.key], depth[th])
KeySlot == SlotOf(KeySum[ent.key])

(* With no match field set the key is empty: its sum is 0 and no byte is   *)
(* compared.                                                               *)
SearchSum(k, f) == IF f THEN KeySum[k] ELSE 0

ConfigPc == {"zero_key", "zero_val", "zero_cfg", "set_table", "set_depth",
             "set_key", "set_val", "link", "set_miss"}
InsertPc == {"put_key", "put_val"}

(* A lookup of key k reads the cell that holds key i of thread t.          *)
SameCell(t, i, k) ==
    LET sum == SearchSum(k, fdInfos[t]) IN
    /\ SliceOf(KeySum[i], depth[t]) = SliceOf(sum, depth[t])
    /\ SlotOf(KeySum[i]) = SlotOf(sum)

(* The handler in progress works on the cell that a lookup of key k in     *)
(* thread t reads, or on the configuration of t.                           *)
Touches(t, k) ==
    /\ th = t
    /\ \/ pc \in ConfigPc
       \/ pc \in InsertPc /\ SameCell(t, ent.key, k)

-----------------------------------------------------------------------------
Init ==
    /\ sram = [b \in Block |-> ZeroBlock]
    /\ no_table = [t \in Thread |-> TRUE]
    /\ depth = [t \in Thread |-> 0]
    /\ key_config = [t \in Thread |-> [j \in Block |-> 0]]
    /\ value_config = [t \in Thread |-> [j \in Block |-> 0]]
    /\ linked = [t \in Thread |-> FALSE]
    /\ miss_act_id = [t \in Thread |-> NoAction]
    /\ fdInfos = [t \in Thread |-> FALSE]
    /\ pc = "idle" /\ th \in Thread /\ req = NoRequest /\ chunk = 0
    /\ ent = NullEntry
    /\ pp = "idle" /\ pt = th /\ pk = ZeroKey /\ pf = FALSE
    /\ pkb = [j \in 0 .. KW - 1 |-> 0] /\ pvb = [j \in 0 .. VW - 1 |-> 0]
    /\ out_key = ZeroKey /\ out_value = ZeroValueWord
    /\ hit = FALSE /\ act = NoAction
    /\ last = [t \in Thread |-> [s \in Block |-> [x \in Slot |-> NoEntry]]]
    /\ stale = {} /\ mixed = {}
    /\ quiet = TRUE

-----------------------------------------------------------------------------
(***************************************************************************)
(* The handlers setMemConfig and clearOldConfig.  Both run                 *)
(* clear_old_config first; setMemConfig then runs init_match_type,         *)
(* set_mem_config and set_miss_act_id.                                     *)
(***************************************************************************)

(* The thread's configuration is in use: it is complete, and the handler   *)
(* in progress has not taken it down.                                      *)
Configured(t) ==
    /\ depth[t] # 0
    /\ ~(th = t /\ pc \in {"set_table", "set_depth", "set_key", "set_val"})

Owned(t) ==
    IF Configured(t)
    THEN Used(key_config[t], KW, depth[t]) \cup Used(value_config[t], VW, depth[t])
    ELSE {}

(* The other threads that have one of the blocks B, which the controller   *)
(* may hand over while they do.                                            *)
Sharing(t, B) == {u \in Thread \ {t} : B \cap Owned(u) # {}}

(* clear_old_config: no_table first, then the fields and the miss action.  *)
StartConfig(t, r) ==
    /\ pc = "idle"
    /\ r # NoRequest => r.thread = t
    /\ pc' = "zero_key" /\ th' = t /\ req' = r
    /\ no_table' = [no_table EXCEPT ![t] = TRUE]
    /\ fdInfos' = [fdInfos EXCEPT ![t] = FALSE]
    /\ miss_act_id' = [miss_act_id EXCEPT ![t] = NoAction]
    /\ quiet' = (quiet /\ (pp # "idle" => pt # t))
    /\ UNCHANGED <<memVars, depth, key_config, value_config, linked, ent, chunk,
                   pktVars, last, shareVars>>

(* Mutant: the loop of clear_old_config forgets the width of the table.    *)
ClearBlocksNarrow(config, width) ==
    /\ sram' = [b \in Block |-> IF b \in Used(config[th], 1, depth[th])
                                THEN ZeroBlock ELSE sram[b]]
    /\ stale' = stale \ Used(config[th], width, depth[th])

ClearBlocks(config, width) ==
    /\ sram' = [b \in Block |-> IF b \in Used(config[th], width, depth[th])
                                THEN ZeroBlock ELSE sram[b]]
    /\ stale' = stale \ Used(config[th], width, depth[th])

ZeroKeyBlocks ==
    /\ pc = "zero_key"
    /\ ClearBlocks(key_config, KW)
    /\ pc' = "zero_val"
    /\ UNCHANGED <<cfgVars, th, req, ent, chunk, pktVars, last, mixed, quiet>>

ZeroValueBlocks ==
    /\ pc = "zero_val"
    /\ ClearBlocks(value_config, VW)
    /\ pc' = "zero_cfg"
    /\ UNCHANGED <<cfgVars, th, req, ent, chunk, pktVars, last, mixed, quiet>>

ZeroConfig ==
    /\ pc = "zero_cfg"
    /\ key_config' = [key_config EXCEPT ![th] = [j \in Block |-> 0]]
    /\ value_config' = [value_config EXCEPT ![th] = [j \in Block |-> 0]]
    /\ depth' = [depth EXCEPT ![th] = 0]
    /\ pc' = IF req = NoRequest THEN "idle" ELSE "set_table"
    /\ last' = [last EXCEPT ![th] = [s \in Block |-> [x \in Slot |-> NoEntry]]]
    /\ mixed' = mixed \ {th}
    /\ UNCHANGED <<memVars, no_table, linked, miss_act_id, fdInfos, th, req, ent, chunk,
                   pktVars, stale, quiet>>

(* set_mem_config: no_table is reset before the depth and the arrays are   *)
(* there.                                                                  *)
SetTable ==
    /\ pc = "set_table"
    /\ no_table' = [no_table EXCEPT ![th] = FALSE]
    /\ pc' = "set_depth"
    /\ UNCHANGED <<memVars, depth, key_config, value_config, linked, miss_act_id,
                   fdInfos, th, req, ent, chunk, pktVars, last, shareVars, quiet>>

SetDepth ==
    /\ pc = "set_depth"
    /\ depth' = [depth EXCEPT ![th] = req.depth]
    /\ pc' = "set_key"
    /\ UNCHANGED <<memVars, no_table, key_config, value_config, linked, miss_act_id,
                   fdInfos, th, req, ent, chunk, pktVars, last, shareVars, quiet>>

(* Mutant: block numbers counted from 1.                                   *)
OverwriteFromOne(config, new, n) ==
    [j \in Block |-> IF j < n THEN new[j] + 1 ELSE config[j]]

Overwrite(config, new, n) == [j \in Block |-> IF j < n THEN new[j] ELSE config[j]]

SetKeyConfig ==
    /\ pc = "set_key"
    /\ key_config' = [key_config EXCEPT
                        ![th] = Overwrite(key_config[th], req.key_config, KW * depth[th])]
    /\ pc' = "set_val"
    /\ UNCHANGED <<memVars, no_table, depth, value_config, linked, miss_act_id,
                   fdInfos, th, req, ent, chunk, pktVars, last, shareVars, quiet>>

(* The table is in use from here on, with the blocks of the request,       *)
(* whoever has them or has left words in them.                             *)
SetValueConfig ==
    /\ pc = "set_val"
    /\ value_config' = [value_config EXCEPT
                        ![th] = Overwrite(value_config[th], req.value_config, VW * depth[th])]
    /\ pc' = "link"
    /\ LET with == Sharing(th, RequestBlocks(req))
           left == RequestBlocks(req) \cap stale
       IN  mixed' = mixed \cup with \cup {t \in {th} : with # {} \/ left # {}}
    /\ UNCHANGED <<memVars, no_table, depth, key_config, linked, miss_act_id,
                   fdInfos, th, req, ent, chunk, pktVars, last, stale, quiet>>

(* Mutant: the pointers to the blocks are those of the constructor.        *)
LinkBlocksNot ==
    /\ pc = "link"
    /\ pc' = "set_miss"
    /\ UNCHANGED <<memVars, cfgVars, th, req, ent, chunk, pktVars, last, shareVars, quiet>>

(* main() builds the pipeline before init_mem, so the pointers a thread    *)
(* has copied in its constructor are null until its first set_mem_config.  *)
LinkBlocks ==
    /\ pc = "link"
    /\ linked' = [linked EXCEPT ![th] = TRUE]
    /\ pc' = "set_miss"
    /\ UNCHANGED <<memVars, no_table, depth, key_config, value_config, miss_act_id,
                   fdInfos, th, req, ent, chunk, pktVars, last, shareVars, quiet>>

SetMissAction ==
    /\ pc = "set_miss"
    /\ miss_act_id' = [miss_act_id EXCEPT ![th] = req.miss_act_id]
    /\ pc' = "idle" /\ req' = NoRequest
    /\ UNCHANGED <<memVars, no_table, depth, key_config, value_config, linked,
                   fdInfos, th, ent, chunk, pktVars, last, shareVars, quiet>>

-----------------------------------------------------------------------------
(***************************************************************************)
(* The handlers setFieldInfo, setMissActId, setNoTable and                 *)
(* insertSramEntry.  Fields and entries are sent for a table that was      *)
(* configured (extract_matcher calls set_mem_config first, the README      *)
(* loads entries last): the modulo by the depth would otherwise kill the   *)
(* server.                                                                 *)
(***************************************************************************)
SetFieldInfo(t) ==
    /\ pc = "idle"
    /\ depth[t] # 0
    /\ fdInfos' = [fdInfos EXCEPT ![t] = TRUE]
    /\ quiet' = (quiet /\ (pp # "idle" => pt # t))
    /\ UNCHANGED <<memVars, no_table, depth, key_config, value_config, linked,
                   miss_act_id, rpcVars, pktVars, last, shareVars>>

SetMissActId(t, a) ==
    /\ pc = "idle"
    /\ miss_act_id' = [miss_act_id EXCEPT ![t] = a]
    /\ quiet' = (quiet /\ (pp # "idle" => pt # t))
    /\ UNCHANGED <<memVars, no_table, depth, key_config, value_config, linked,
                   fdInfos, rpcVars, pktVars, last, shareVars>>

(* The controller has the call and does not use it; a table that is not    *)
(* configured is not to be turned on.                                      *)
SetNoTable(t, b) ==
    /\ pc = "idle"
    /\ b \/ depth[t] # 0
    /\ no_table' = [no_table EXCEPT ![t] = b]
    /\ quiet' = (quiet /\ (pp # "idle" => pt # t))
    /\ UNCHANGED <<memVars, depth, key_config, value_config, linked, miss_act_id,
                   fdInfos, rpcVars, pktVars, last, shareVars>>

StartInsert(t, k, v) ==
    /\ pc = "idle"
    /\ depth[t] # 0
    /\ pc' = "put_key" /\ th' = t /\ chunk' = 0
    /\ ent' = [key |-> k, value |-> v]
    /\ quiet' = (quiet /\ ~(pp # "idle" /\ pt = t /\ SameCell(t, k, pk)))
    /\ UNCHANGED <<memVars, cfgVars, req, pktVars, last, shareVars>>

(* Word j of a cell after a memcpy of len bits: what the copy does not     *)
(* reach stays.                                                            *)
Splice(old, new, len, j) == (old \ Copied(len, j)) \cup new

PutKey ==
    /\ pc = "put_key"
    /\ sram' = [sram EXCEPT ![KeyBlock(th, KeySlice, chunk)][KeySlot] =
                   Splice(@, ent.key[chunk], KeyBits, chunk)]
    /\ IF chunk + 1 < KW
       THEN chunk' = chunk + 1 /\ pc' = pc
       ELSE chunk' = 0 /\ pc' = "put_val"
    /\ UNCHANGED <<cfgVars, th, req, ent, pktVars, last, shareVars, quiet>>

PutValue ==
    /\ pc = "put_val"
    /\ ent.value.len >= WordBits * chunk
    /\ sram' = [sram EXCEPT ![ValueBlock(th, KeySlice, chunk)][KeySlot] =
                   Splice(@, ent.value.word[chunk], ent.value.len, chunk)]
    /\ IF chunk + 1 < VW
       THEN chunk' = chunk + 1 /\ UNCHANGED <<pc, ent, last>>
       ELSE /\ chunk' = 0 /\ pc' = "idle" /\ ent' = NullEntry
            /\ last' = [last EXCEPT ![th][KeySlice][KeySlot] = ent]
    /\ UNCHANGED <<cfgVars, th, req, pktVars, shareVars, quiet>>

(* A value that ends before this word: the length of the copy is negative, *)
(* memcpy takes it for a huge one and the process dies.                    *)
PutShort ==
    /\ pc = "put_val"
    /\ ent.value.len < WordBits * chunk
    /\ pc' = "dead" /\ pp' = "killed"
    /\ UNCHANGED <<memVars, cfgVars, th, req, ent, chunk, pt, pk, pf, pkb, pvb, out_key,
                   out_value, hit, act, last, shareVars, quiet>>

-----------------------------------------------------------------------------
(***************************************************************************)
(* What the handlers of ternary tables do to the SRAM blocks they have     *)
(* (insert_tcam_entry and the ternary branch of clear_old_config, which    *)
(* clears a block only by the capacity of a TCAM block, half of it).       *)
(***************************************************************************)
TernaryMeets(b) ==
    /\ stale' = stale \cup {b}
    /\ mixed' = mixed \cup {t \in Thread : b \in Owned(t)}

TernaryInsert(b, x, w) ==
    /\ pc = "idle"
    /\ sram' = [sram EXCEPT ![b][x] = w]
    /\ TernaryMeets(b)
    /\ UNCHANGED <<cfgVars, rpcVars, pktVars, last, quiet>>

TernaryClear(b) ==
    /\ pc = "idle"
    /\ sram' = [sram EXCEPT ![b] = [x \in Slot |-> IF x < NSlot \div 2 THEN Zero ELSE @[x]]]
    /\ TernaryMeets(b)
    /\ UNCHANGED <<cfgVars, rpcVars, pktVars, last, quiet>>

-----------------------------------------------------------------------------
(***************************************************************************)
(* A lookup by the packet thread: Matcher::execute,                        *)
(* generate_match_key_and_match and get_match_res.                         *)
(***************************************************************************)
Execute(t, k) ==
    /\ pp = "idle"
    /\ pt' = t /\ pk' = k
    /\ IF no_table[t]
       THEN pp' = "done" /\ hit' = FALSE /\ act' = miss_act_id[t]
       ELSE pp' = "key" /\ UNCHANGED <<hit, act>>
    /\ quiet' = ~Touches(t, k)
    /\ UNCHANGED <<memVars, cfgVars, rpcVars, pf, pkb, pvb, out_key, out_value,
                   last, shareVars>>

GenerateKey ==
    /\ pp = "key"
    /\ pf' = fdInfos[pt]
    /\ pp' = "locate"
    /\ UNCHANGED <<memVars, cfgVars, rpcVars, pt, pk, pkb, pvb, out_key,
                   out_value, hit, act, last, shareVars, quiet>>

(* A division by zero kills the process, the server's thread with it.      *)
Locate ==
    /\ pp = "locate"
    /\ IF depth[pt] = 0
       THEN pp' = "dead" /\ pc' = "dead" /\ UNCHANGED <<pkb, pvb>>
       ELSE /\ pkb' = [j \in 0 .. KW - 1 |->
                         KeyBlock(pt, SliceOf(SearchSum(pk, pf), depth[pt]), j)]
            /\ pvb' = [j \in 0 .. VW - 1 |->
                         ValueBlock(pt, SliceOf(SearchSum(pk, pf), depth[pt]), j)]
            /\ pp' = "read_key" /\ UNCHANGED pc
    /\ UNCHANGED <<memVars, cfgVars, th, req, ent, chunk, pt, pk, pf, out_key,
                   out_value, hit, act, last, shareVars, quiet>>

(* ... and so does a null pointer.                                         *)
ReadKey ==
    /\ pp = "read_key"
    /\ IF linked[pt]
       THEN /\ out_key' = [j \in 0 .. KW - 1 |-> sram[pkb[j]][SlotOf(SearchSum(pk, pf))]]
            /\ pp' = "read_val" /\ UNCHANGED pc
       ELSE pp' = "dead" /\ pc' = "dead" /\ UNCHANGED out_key
    /\ UNCHANGED <<memVars, cfgVars, th, req, ent, chunk, pt, pk, pf, pkb, pvb,
                   out_value, hit, act, last, shareVars, quiet>>

ReadValue ==
    /\ pp = "read_val"
    /\ out_value' = [j \in 0 .. VW - 1 |-> sram[pvb[j]][SlotOf(SearchSum(pk, pf))]]
    /\ pp' = "compare"
    /\ UNCHANGED <<memVars, cfgVars, rpcVars, pt, pk, pf, pkb, pvb, out_key,
                   hit, act, last, shareVars, quiet>>

(* Mutant: the comparison stops before the last bit of the key.            *)
MatchesShort(k, f, words) ==
    f => \A j \in 0 .. KW - 1 :
           words[j] \cap Copied(KeyBits - 1, j) = k[j] \cap Copied(KeyBits - 1, j)

(* memcmp over the bytes of the packet's key.                              *)
Matches(k, f, words) == f => CutKey(words) = k

Compare ==
    /\ pp = "compare"
    /\ hit' = Matches(pk, pf, out_key)
    /\ act' = IF hit' THEN act ELSE miss_act_id[pt]
    /\ pp' = "done"
    /\ UNCHANGED <<memVars, cfgVars, rpcVars, pt, pk, pf, pkb, pvb, out_key,
                   out_value, last, shareVars, quiet>>

(* The packet moves on; what the next lookup does not read is forgotten.   *)
Return ==
    /\ pp = "done"
    /\ pp' = "idle"
    /\ pk' = ZeroKey /\ pf' = FALSE /\ hit' = FALSE /\ act' = NoAction
    /\ pkb' = [j \in 0 .. KW - 1 |-> 0] /\ pvb' = [j \in 0 .. VW - 1 |-> 0]
    /\ out_key' = ZeroKey /\ out_value' = ZeroValueWord
    /\ quiet' = TRUE
    /\ UNCHANGED <<memVars, cfgVars, rpcVars, pt, last, shareVars>>

-----------------------------------------------------------------------------
Handler ==
    \/ \E t \in Thread, r \in Request \cup {NoRequest} : StartConfig(t, r)
    \/ ZeroKeyBlocks
    \/ ZeroValueBlocks
    \/ ZeroConfig
    \/ SetTable
    \/ SetDepth
    \/ SetKeyConfig
    \/ SetValueConfig
    \/ LinkBlocks
    \/ SetMissAction
    \/ \E t \in Thread : SetFieldInfo(t)
    \/ \E t \in Thread, a \in Action : SetMissActId(t, a)
    \/ \E t \in Paused, b \in BOOLEAN : SetNoTable(t, b)
    \/ \E t \in Thread, k \in TableKey, v \in TableValue : StartInsert(t, k, v)
    \/ PutKey
    \/ PutValue
    \/ PutShort
    \/ \E b \in TernaryBlock, x \in Slot, w \in TernaryWord : TernaryInsert(b, x, w)
    \/ \E b \in TernaryBlock : TernaryClear(b)

Packet ==
    \/ \E t \in Thread, k \in PacketKey : Execute(t, k)
    \/ GenerateKey
    \/ Locate
    \/ ReadKey
    \/ ReadValue
    \/ Compare
    \/ Return

Next == Handler \/ Packet

Spec == Init /\ [][Next]_vars

-----------------------------------------------------------------------------
(***************************************************************************)
(* Properties.                                                             *)
(***************************************************************************)

(* The variables have the types of matcher_c.h's members and locals.       *)
TypeOK ==
    /\ sram \in [Block -> [Slot -> Word]]
    /\ no_table \in [Thread -> BOOLEAN]
    /\ depth \in [Thread -> Depth]
    /\ key_config \in [Thread -> [Block -> Block]]
    /\ value_config \in [Thread -> [Block -> Block]]
    /\ linked \in [Thread -> BOOLEAN]
    /\ miss_act_id \in [Thread -> Action \cup {NoAction}]
    /\ fdInfos \in [Thread -> BOOLEAN]
    /\ pc \in {"idle", "dead"} \cup ConfigPc \cup InsertPc
    /\ th \in Thread
    /\ req \in Request \cup {NoRequest}
    /\ ent \in Entry
    /\ chunk \in Nat
    /\ pp \in {"idle", "key", "locate", "read_key", "read_val", "compare", "done", "dead", "killed"}
    /\ pt \in Thread
    /\ pk \in Key
    /\ pf \in BOOLEAN
    /\ pkb \in [0 .. KW - 1 -> Block]
    /\ pvb \in [0 .. VW - 1 -> Block]
    /\ out_key \in KeyWord
    /\ out_value \in ValueWord
    /\ hit \in BOOLEAN
    /\ act \in Action \cup {NoAction}
    /\ last \in [Thread -> [Block -> [Slot -> Entry \cup {NoEntry}]]]
    /\ stale \subseteq Block /\ mixed \subseteq Thread
    /\ quiet \in BOOLEAN

LastKey(t, s, x) == IF last[t][s][x] = NoEntry THEN ZeroKey ELSE last[t][s][x].key
LastValue(t, s, x) == IF last[t][s][x] = NoEntry THEN ZeroValue ELSE last[t][s][x].value

(* The words of a cell, as far as the entry in it goes, are those of e.    *)
HoldsKey(t, s, x, k) ==
    \A j \in 0 .. KW - 1 : sram[KeyBlock(t, s, j)][x] \cap Copied(KeyBits, j) = k[j]
HoldsValue(t, s, x, v) ==
    \A j \in 0 .. VW - 1 : sram[ValueBlock(t, s, j)][x] \cap Copied(v.len, j) = v.word[j]

(* While the process lives, a table that has its blocks to itself, whose   *)
(* configuration is complete and which no handler is changing, holds       *)
(* exactly the entry inserted last into each of its cells since it was     *)
(* configured, to the length it was sent with, and cleared words           *)
(* elsewhere: no entry of a table taken down before shows through, however *)
(* the blocks went from table to table, and no handler for another thread  *)
(* reaches in (insert_sram_entry, clear_old_config).  A table loses its    *)
(* blocks' exclusive use the moment another table is configured over one   *)
(* of them, or a ternary table writes one (mixed), and regains it only by  *)
(* being configured over blocks nobody has.                                *)
TableExact ==
    \A t \in Thread \ mixed :
        /\ pc # "dead"
        /\ depth[t] # 0
        /\ ~(th = t /\ pc # "idle")
        =>
        \A s \in 0 .. depth[t] - 1, x \in Slot :
            /\ HoldsKey(t, s, x, LastKey(t, s, x))
            /\ HoldsValue(t, s, x, LastValue(t, s, x))

(* Whatever tables had it, alone or together, a block that no table has    *)
(* any more is clear, unless a ternary table wrote it last: of the exact   *)
(* tables only those that still have a block can show through in a new     *)
(* one (clear_old_config clears key and value blocks over all slices and   *)
(* words before it forgets their numbers).                                 *)
FreeBlocksClear ==
    pc # "dead" =>
        \A b \in Block \ stale :
            (\A t \in Thread : b \notin Owned(t)) => sram[b] = ZeroBlock

(* A lookup that no handler met on its own cell, in a table that has its   *)
(* blocks to itself, returns what a dictionary would, although other cells *)
(* of the same table and other tables may be rewritten while it runs in    *)
(* several steps (get_match_res): it hits with the value inserted last     *)
(* into the cell if that was its key, and takes the miss action otherwise; *)
(* a cell nothing was put into answers as if the all-zero key had been     *)
(* inserted there with the all-zero value.                                 *)
QuietExact ==
    pp = "done" /\ quiet /\ pt \notin mixed =>
        IF no_table[pt] THEN ~hit /\ act = miss_act_id[pt]
        ELSE LET sum == SearchSum(pk, fdInfos[pt])
                 s == SliceOf(sum, depth[pt])
                 x == SlotOf(sum)
                 v == LastValue(pt, s, x)
             IN  /\ hit <=> (fdInfos[pt] => LastKey(pt, s, x) = pk)
                 /\ hit => CutValue(out_value, v.len) = v
                 /\ ~hit => act = miss_act_id[pt]

(* get_match_res divides by a depth of zero, or reads through a null       *)
(* pointer, only when a lookup overlaps a handler that reconfigures the    *)
(* table it looks in, with or without blocks of its own.                   *)
QuietNoCrash == pp = "dead" => ~quiet

(* README.md: the dataplane is updated while it runs, so a reconfiguration *)
(* must not kill the process.  It can: set_mem_config resets no_table      *)
(* before it sets the depth and the pointers to the blocks, and a lookup   *)
(* may have read no_table before clear_old_config sets it.                 *)
NoCrash == pp # "dead"
=============================================================================
