--------------------------- MODULE MatcherProofs ---------------------------
(***************************************************************************)
(* The inductive invariant of Matcher and the proofs of its properties.    *)
(***************************************************************************)
EXTENDS Matcher, SliceLemmas, TLAPS

SetupPc == {"set_table", "set_depth", "set_key", "set_val"}
WithRequestPc == SetupPc \cup {"link", "set_miss"}
ZeroPc == {"zero_key", "zero_val", "zero_cfg"}

(* What the handler in progress has reached.                               *)
HandlerInv ==
    /\ pc \in WithRequestPc => req \in Request
    /\ pc \in {"set_table", "set_depth"} => depth[th] = 0
    /\ pc \in {"set_key", "set_val", "link", "set_miss"} => depth[th] = req.depth
    /\ pc = "set_val" =>
         \A j \in 0 .. KW * depth[th] - 1 : key_config[th][j] = req.key_config[j]
    /\ pc = "put_key" => depth[th] # 0 /\ chunk \in 0 .. KW - 1
    /\ pc = "put_val" => depth[th] # 0 /\ chunk \in 0 .. VW - 1

(* Outside a reconfiguration a thread of depth 0 has no table.             *)
NoTableInv ==
    /\ \A t \in Thread : ~(th = t /\ pc \in ConfigPc) => (depth[t] = 0 => no_table[t])
    /\ pc \in ZeroPc => no_table[th]
    /\ pc \in {"set_depth", "set_key", "set_val", "link", "set_miss"} => ~no_table[th]

(* The blocks of a configured table are linked by the end of its handler.  *)
LinkInv ==
    \A t \in Thread : Configured(t) /\ ~(th = t /\ pc = "link") => linked[t]

(* A complete configuration uses each block once.                          *)
ConfigInv ==
    \A t \in Thread : Configured(t) =>
        /\ Injective(key_config[t], KW, depth[t])
        /\ Injective(value_config[t], VW, depth[t])
        /\ Used(key_config[t], KW, depth[t]) \cap Used(value_config[t], VW, depth[t]) = {}

(* A table that is not mixed shares no block with any other.               *)
DisjointInv ==
    \A t, u \in Thread : t # u /\ t \notin mixed => Owned(t) \cap Owned(u) = {}

(* A block of no table, exact or ternary, is clear, and so are the blocks  *)
(* the handler has cleared.                                                *)
ClearInv ==
    /\ \A b \in Block \ stale : (\A t \in Thread : b \notin Owned(t)) => sram[b] = ZeroBlock
    /\ pc \in {"zero_val", "zero_cfg"} =>
         \A b \in Used(key_config[th], KW, depth[th]) : sram[b] = ZeroBlock
    /\ pc = "zero_cfg" =>
         \A b \in Used(value_config[th], VW, depth[th]) : sram[b] = ZeroBlock
    /\ \A t \in Thread : ~Configured(t) =>
         last[t] = [s \in Block |-> [x \in Slot |-> NoEntry]]

(* The cell the insert in progress is writing.                             *)
Writing(t, s, x) == th = t /\ pc \in InsertPc /\ s = KeySlice /\ x = KeySlot

(* What memcpy has reached of word j of a cell.                            *)
KeyPart(t, s, x, j) == sram[KeyBlock(t, s, j)][x] \cap Copied(KeyBits, j)
ValuePart(t, s, x, j, len) == sram[ValueBlock(t, s, j)][x] \cap Copied(len, j)

(* The words of a cell: those of the last entry, or, in the cell being     *)
(* written, those of the new entry as far as the insert has come.          *)
KeyWords(t, s, x) ==
    \A j \in 0 .. KW - 1 :
        /\ ~Writing(t, s, x) => KeyPart(t, s, x, j) = LastKey(t, s, x)[j]
        /\ Writing(t, s, x) /\ (pc = "put_val" \/ j < chunk) =>
              KeyPart(t, s, x, j) = ent.key[j]
ValueWords(t, s, x) ==
    \A j \in 0 .. VW - 1 :
        /\ ~Writing(t, s, x) =>
              ValuePart(t, s, x, j, LastValue(t, s, x).len) = LastValue(t, s, x).word[j]
        /\ Writing(t, s, x) /\ pc = "put_val" /\ j < chunk =>
              ValuePart(t, s, x, j, ent.value.len) = ent.value.word[j]

TableWords(t) ==
    \A s \in 0 .. depth[t] - 1, x \in Slot : KeyWords(t, s, x) /\ ValueWords(t, s, x)

ContentInv ==
    \A t \in Thread \ mixed : Configured(t) /\ ~(th = t /\ pc \in ZeroPc) => TableWords(t)

(* What holds of the blocks and the tables while the process lives.        *)
MemInv ==
    /\ NoTableInv
    /\ ConfigInv
    /\ DisjointInv
    /\ ClearInv
    /\ ContentInv

(* A quiet lookup has seen the state of its table, step by step, and, if   *)
(* the table has its blocks to itself, that of its cell.                   *)
LookupSum == SearchSum(pk, fdInfos[pt])
LookupSlice == SliceOf(LookupSum, depth[pt])
LookupSlot == SlotOf(LookupSum)
LookupInv ==
    quiet /\ pp # "idle" =>
        /\ ~Touches(pt, pk)
        /\ pp \notin {"done"} => ~no_table[pt]
        /\ pp \in {"locate", "read_key", "read_val", "compare"} => pf = fdInfos[pt]
        /\ pp \in {"read_key", "read_val", "compare"} =>
             /\ \A j \in 0 .. KW - 1 : pkb[j] = KeyBlock(pt, LookupSlice, j)
             /\ \A j \in 0 .. VW - 1 : pvb[j] = ValueBlock(pt, LookupSlice, j)
        /\ pt \notin mixed /\ pp \in {"read_val", "compare"} =>
             CutKey(out_key) = LastKey(pt, LookupSlice, LookupSlot)
        /\ pt \notin mixed /\ pp = "compare" =>
             CutValue(out_value, LastValue(pt, LookupSlice, LookupSlot).len)
               = LastValue(pt, LookupSlice, LookupSlot)
        /\ QuietExact

(* The inductive invariant.                                                *)
IInv ==
    /\ TypeOK
    /\ HandlerInv
    /\ pc # "dead" => MemInv /\ LinkInv /\ LookupInv
    /\ pc = "dead" <=> pp \in {"dead", "killed"}
    /\ QuietNoCrash

-----------------------------------------------------------------------------
(***************************************************************************)
(* Lemmas about where a key lives.                                         *)
(***************************************************************************)

(* A sum picks a slice below the depth and a slot of the block.            *)
LEMMA CellInRange ==
    ASSUME NEW n \in Nat, NEW d \in Nat \ {0}
    PROVE  SliceOf(n, d) \in 0 .. d - 1 /\ SlotOf(n) \in Slot
  BY SizeAssumption, Z3 DEF SizeAssumption, SliceOf, SlotOf, Slot

(* The sum that picks the cell is a natural number.                        *)
LEMMA SumIsNat ==
    ASSUME NEW k \in Key, NEW f \in BOOLEAN
    PROVE  KeySum[k] \in Nat /\ SearchSum(k, f) \in Nat
  BY WordAssumption DEF WordAssumption, SearchSum

(* A search stays within a block.                                          *)
LEMMA SearchSlot ==
    ASSUME NEW k \in Key, NEW f \in BOOLEAN
    PROVE  SlotOf(SearchSum(k, f)) \in Slot
<1>1. SearchSum(k, f) \in Nat
  BY SumIsNat
<1>2. 1 \in Nat \ {0}
  OBVIOUS
<1> QED
  BY <1>1, <1>2, CellInRange

(* A configuration index of a slice of thread t is a block number, so the  *)
(* arrays are never read past their end.                                   *)
LEMMA IndexIsBlock ==
    ASSUME NEW w \in Nat \ {0}, NEW d \in Nat \ {0}, w * d <= NB,
           NEW s \in 0 .. d - 1, NEW j \in 0 .. w - 1
    PROVE  s + d * j \in Block
<1>1. s + d * j \in 0 .. w * d - 1
  BY IndexInRange
<1>2. w * d \in Nat
  BY Z3
<1> QED
  BY <1>1, <1>2, SizeAssumption DEF SizeAssumption, Block

(* A depth is a natural number, and the arrays are long enough for it.     *)
LEMMA DepthIsNat ==
    ASSUME NEW d \in Depth
    PROVE  d \in Nat /\ KW * d <= NB /\ VW * d <= NB /\ KW * d \in Nat /\ VW * d \in Nat
<1>1. d \in Nat /\ KW * d <= NB /\ VW * d <= NB
  BY SizeAssumption DEF SizeAssumption, Depth
<1> QED
  BY <1>1, SizeAssumption, Z3 DEF SizeAssumption

(* What memcpy writes is there afterwards, and the word is still a word.   *)
LEMMA SpliceCut ==
    ASSUME NEW old \in Word, NEW len, NEW j, NEW new \in SUBSET Copied(len, j)
    PROVE  /\ Splice(old, new, len, j) \in Word
           /\ Splice(old, new, len, j) \cap Copied(len, j) = new
<1>1. Copied(len, j) \subseteq Bit
  BY DEF Copied
<1> QED
  BY <1>1 DEF Splice, Word

(* The words of an all-zero key or entry have their types.                 *)
LEMMA NullTypes ==
    /\ ZeroKey \in Key
    /\ ZeroKey \in KeyWord
    /\ ZeroValue \in Value
    /\ ZeroValueWord \in ValueWord
    /\ NullEntry \in Entry
    /\ ZeroBlock \in [Slot -> Word]
    /\ 0 \in Block
    /\ 0 \in Depth
<1>1. KW * 0 = 0 /\ VW * 0 = 0 /\ VW * WordBits \in Nat
  BY SizeAssumption, Z3 DEF SizeAssumption
<1>2. Zero \in Word /\ \A S : Zero \subseteq S
  BY DEF Zero, Word
<1>3. ZeroKey \in KeyWord /\ ZeroKey \in Key
  BY <1>2 DEF ZeroKey, Key, KeyWord
<1>4. ZeroValueWord \in ValueWord /\ ZeroValue \in Value
  BY <1>1, <1>2 DEF ZeroValueWord, ZeroValue, Value, ValueWord
<1>5. ZeroBlock \in [Slot -> Word]
  BY <1>2 DEF ZeroBlock
<1>6. 0 \in Block /\ 0 \in Depth
  BY <1>1, SizeAssumption DEF SizeAssumption, Block, Depth
<1> QED
  BY <1>3, <1>4, <1>5, <1>6 DEF NullEntry, Entry

(* The words of a key and of a value, in what is copied of them.           *)
LEMMA EntryWords ==
    ASSUME NEW e \in Entry
    PROVE  /\ e.key \in Key /\ e.value \in Value
           /\ \A j \in 0 .. KW - 1 : e.key[j] \in SUBSET Copied(KeyBits, j)
           /\ \A j \in 0 .. VW - 1 : e.value.word[j] \in SUBSET Copied(e.value.len, j)
  BY DEF Entry, Key, Value

(* The blocks located for slice s are blocks of the cluster.               *)
LEMMA BlocksLocated ==
    ASSUME TypeOK, NEW t \in Thread, depth[t] # 0,
           NEW s \in 0 .. depth[t] - 1
    PROVE  /\ \A j \in 0 .. KW - 1 : KeyBlock(t, s, j) \in Block
           /\ \A j \in 0 .. VW - 1 : ValueBlock(t, s, j) \in Block
<1>1. depth[t] \in Depth /\ depth[t] \in Nat \ {0} /\ KW * depth[t] <= NB /\ VW * depth[t] <= NB
  BY DepthIsNat DEF TypeOK
<1>2. KW \in Nat \ {0} /\ VW \in Nat \ {0}
  BY SizeAssumption DEF SizeAssumption
<1>3. \A j \in 0 .. KW - 1 : s + depth[t] * j \in Block
  BY <1>1, <1>2, IndexIsBlock
<1>4. \A j \in 0 .. VW - 1 : s + depth[t] * j \in Block
  BY <1>1, <1>2, IndexIsBlock
<1>5. key_config[t] \in [Block -> Block] /\ value_config[t] \in [Block -> Block]
  BY DEF TypeOK
<1> QED
  BY <1>3, <1>4, <1>5 DEF KeyBlock, ValueBlock

(* The cell a key of the table lives in.                                   *)
LEMMA EntryCell ==
    ASSUME TypeOK, depth[th] # 0
    PROVE  KeySlice \in 0 .. depth[th] - 1 /\ KeySlot \in Slot
<1>1. ent.key \in Key
  BY DEF TypeOK, Entry
<1>2. KeySum[ent.key] \in Nat
  BY <1>1, SumIsNat
<1>3. depth[th] \in Nat \ {0}
  BY DepthIsNat DEF TypeOK
<1> QED
  BY <1>2, <1>3, CellInRange DEF KeySlice, KeySlot

(* The cell a lookup reads.                                                *)
LEMMA SearchCell ==
    ASSUME TypeOK, NEW t \in Thread, depth[t] # 0, NEW k \in Key, NEW f \in BOOLEAN
    PROVE  /\ SliceOf(SearchSum(k, f), depth[t]) \in 0 .. depth[t] - 1
           /\ SlotOf(SearchSum(k, f)) \in Slot
<1>1. SearchSum(k, f) \in Nat
  BY SumIsNat
<1>2. depth[t] \in Nat \ {0}
  BY DepthIsNat DEF TypeOK
<1> QED
  BY <1>1, <1>2, CellInRange

-----------------------------------------------------------------------------
(***************************************************************************)
(* Type correctness.  It needs HandlerInv: the arrays of a request fit     *)
(* because the depth has been set from the same request, and a write into  *)
(* the blocks stays inside because the depth is not 0 by then.             *)
(***************************************************************************)

(* The constructor's state has the types of the members.                   *)
LEMMA TypeInit == Init => TypeOK /\ HandlerInv
<1> SUFFICES ASSUME Init PROVE TypeOK /\ HandlerInv
  OBVIOUS
<1>1. TypeOK
  BY NullTypes, SizeAssumption DEF Init, TypeOK, Block, SizeAssumption
<1>2. HandlerInv
  BY DEF Init, HandlerInv, WithRequestPc, SetupPc
<1> QED
  BY <1>1, <1>2

(* A request's arrays and depth have the types the handler relies on.      *)
LEMMA RequestTypes ==
    ASSUME NEW r \in Request
    PROVE  /\ r.depth \in Depth \ {0}
           /\ r.key_config \in [0 .. KW * r.depth - 1 -> Block]
           /\ r.value_config \in [0 .. VW * r.depth - 1 -> Block]
           /\ r.miss_act_id \in Action
           /\ r # NoRequest
  BY RequestAssumption DEF RequestAssumption, WellFormed

(* Copying a request's array over the first cells keeps an array of blocks.*)
LEMMA OverwriteType ==
    ASSUME NEW config \in [Block -> Block], NEW n \in Nat,
           NEW new \in [0 .. n - 1 -> Block]
    PROVE  /\ Overwrite(config, new, n) \in [Block -> Block]
           /\ \A j \in 0 .. n - 1 : j \in Block => Overwrite(config, new, n)[j] = new[j]
  BY SizeAssumption DEF SizeAssumption, Overwrite, Block

(* Every step keeps the types, and the handler in progress knows what it   *)
(* has reached.                                                            *)
LEMMA TypeStep == TypeOK /\ HandlerInv /\ [Next]_vars => TypeOK' /\ HandlerInv'
<1> SUFFICES ASSUME TypeOK, HandlerInv, [Next]_vars
             PROVE  TypeOK' /\ HandlerInv'
  OBVIOUS
<1> USE DEF memVars, cfgVars, rpcVars, pktVars, shareVars
<1>1. CASE UNCHANGED vars
  BY <1>1 DEF vars, TypeOK, HandlerInv
<1>2. ASSUME NEW t \in Thread, NEW r \in Request \cup {NoRequest}, StartConfig(t, r)
      PROVE  TypeOK' /\ HandlerInv'
  BY <1>2 DEF StartConfig, TypeOK, HandlerInv, ConfigPc, WithRequestPc, SetupPc
<1>3. CASE ZeroKeyBlocks
  BY <1>3, NullTypes DEF ZeroKeyBlocks, ClearBlocks, TypeOK, HandlerInv, ConfigPc, WithRequestPc, SetupPc
<1>4. CASE ZeroValueBlocks
  BY <1>4, NullTypes DEF ZeroValueBlocks, ClearBlocks, TypeOK, HandlerInv, ConfigPc, WithRequestPc, SetupPc
<1>5. CASE ZeroConfig
  BY <1>5, NullTypes DEF ZeroConfig, TypeOK, HandlerInv, ConfigPc, WithRequestPc, SetupPc
<1>6. CASE SetTable
  BY <1>6 DEF SetTable, TypeOK, HandlerInv, ConfigPc, WithRequestPc, SetupPc
<1>7. CASE SetDepth
  BY <1>7, RequestTypes DEF SetDepth, TypeOK, HandlerInv, ConfigPc, WithRequestPc, SetupPc
<1>8. CASE SetKeyConfig
  <2>1. req \in Request /\ depth[th] = req.depth
    BY <1>8 DEF SetKeyConfig, HandlerInv, WithRequestPc, SetupPc
  <2>2. KW * depth[th] \in Nat /\ KW * depth[th] <= NB
    BY <2>1, RequestTypes, DepthIsNat
  <2>3. req.key_config \in [0 .. KW * depth[th] - 1 -> Block] /\ key_config[th] \in [Block -> Block]
    BY <2>1, RequestTypes DEF TypeOK
  <2>4. /\ Overwrite(key_config[th], req.key_config, KW * depth[th]) \in [Block -> Block]
        /\ \A j \in 0 .. KW * depth[th] - 1 : j \in Block =>
              Overwrite(key_config[th], req.key_config, KW * depth[th])[j] = req.key_config[j]
    BY <2>2, <2>3, OverwriteType
  <2>5. \A j \in 0 .. KW * depth[th] - 1 : j \in Block
    BY <2>2, SizeAssumption DEF SizeAssumption, Block
  <2>6. TypeOK'
    BY <1>8, <2>4 DEF SetKeyConfig, TypeOK, ConfigPc
  <2>7. HandlerInv'
    BY <1>8, <2>1, <2>4, <2>5 DEF SetKeyConfig, TypeOK, HandlerInv, WithRequestPc, SetupPc
  <2> QED
    BY <2>6, <2>7
<1>9. CASE SetValueConfig
  <2>1. req \in Request /\ depth[th] = req.depth
    BY <1>9 DEF SetValueConfig, HandlerInv, WithRequestPc, SetupPc
  <2>2. VW * depth[th] \in Nat
    BY <2>1, RequestTypes, DepthIsNat
  <2>3. req.value_config \in [0 .. VW * depth[th] - 1 -> Block] /\ value_config[th] \in [Block -> Block]
    BY <2>1, RequestTypes DEF TypeOK
  <2>4. Overwrite(value_config[th], req.value_config, VW * depth[th]) \in [Block -> Block]
    BY <2>2, <2>3, OverwriteType
  <2>5. TypeOK'
    BY <1>9, <2>4 DEF SetValueConfig, TypeOK, ConfigPc, Sharing
  <2>6. HandlerInv'
    BY <1>9, <2>1 DEF SetValueConfig, HandlerInv, WithRequestPc, SetupPc
  <2> QED
    BY <2>5, <2>6
<1>10. CASE SetMissAction
  <2>1. req.miss_act_id \in Action
    BY <1>10, RequestTypes DEF SetMissAction, HandlerInv, WithRequestPc
  <2> QED
    BY <1>10, <2>1 DEF SetMissAction, TypeOK, HandlerInv, WithRequestPc, SetupPc
<1>11. ASSUME NEW t \in Thread, SetFieldInfo(t)
       PROVE  TypeOK' /\ HandlerInv'
  BY <1>11 DEF SetFieldInfo, TypeOK, HandlerInv
<1>12. ASSUME NEW t \in Thread, NEW a \in Action, SetMissActId(t, a)
       PROVE  TypeOK' /\ HandlerInv'
  BY <1>12 DEF SetMissActId, TypeOK, HandlerInv
<1>12a. ASSUME NEW t \in Paused, NEW b \in BOOLEAN, SetNoTable(t, b)
        PROVE  TypeOK' /\ HandlerInv'
  BY <1>12a DEF SetNoTable, TypeOK, HandlerInv
<1>13. ASSUME NEW t \in Thread, NEW k \in TableKey, NEW v \in TableValue, StartInsert(t, k, v)
       PROVE  TypeOK' /\ HandlerInv'
  <2>1. [key |-> k, value |-> v] \in Entry
    BY WordAssumption DEF WordAssumption, Entry
  <2>2. TypeOK'
    BY <1>13, <2>1 DEF StartInsert, TypeOK, InsertPc
  <2>3. HandlerInv'
    BY <1>13, SizeAssumption DEF StartInsert, TypeOK, HandlerInv, WithRequestPc, SetupPc, SizeAssumption
  <2> QED
    BY <2>2, <2>3
<1>14. CASE PutKey
  <2>1. depth[th] # 0 /\ chunk \in 0 .. KW - 1
    BY <1>14 DEF PutKey, HandlerInv
  <2>2. KeyBlock(th, KeySlice, chunk) \in Block /\ KeySlot \in Slot
    BY <2>1, EntryCell, BlocksLocated DEF TypeOK
  <2>3. Splice(sram[KeyBlock(th, KeySlice, chunk)][KeySlot], ent.key[chunk], KeyBits, chunk) \in Word
    BY <2>1, <2>2, SpliceCut, EntryWords DEF TypeOK
  <2>4. sram' \in [Block -> [Slot -> Word]]
    BY <1>14, <2>2, <2>3 DEF PutKey, TypeOK
  <2>5. TypeOK'
    BY <1>14, <2>4 DEF PutKey, TypeOK, InsertPc
  <2>6. HandlerInv'
    BY <1>14, <2>1, SizeAssumption DEF PutKey, HandlerInv, WithRequestPc, SetupPc, SizeAssumption
  <2> QED
    BY <2>5, <2>6
<1>15. CASE PutValue
  <2>1. depth[th] # 0 /\ chunk \in 0 .. VW - 1
    BY <1>15 DEF PutValue, HandlerInv
  <2>2. ValueBlock(th, KeySlice, chunk) \in Block /\ KeySlot \in Slot /\ KeySlice \in 0 .. depth[th] - 1
    BY <2>1, EntryCell, BlocksLocated DEF TypeOK
  <2>3. Splice(sram[ValueBlock(th, KeySlice, chunk)][KeySlot], ent.value.word[chunk],
               ent.value.len, chunk) \in Word
    BY <2>1, <2>2, SpliceCut, EntryWords DEF TypeOK
  <2>4. sram' \in [Block -> [Slot -> Word]]
    BY <1>15, <2>2, <2>3 DEF PutValue, TypeOK
  <2>5. KeySlice \in Block
    <3>1. depth[th] \in 0 .. NB
      BY DEF TypeOK, Depth
    <3> QED
      BY <2>2, <3>1, SizeAssumption DEF Block, SizeAssumption
  <2>6. last' \in [Thread -> [Block -> [Slot -> Entry \cup {NoEntry}]]]
    <3>1. ent \in Entry \cup {NoEntry} /\ th \in Thread
      BY DEF TypeOK
    <3>2. last \in [Thread -> [Block -> [Slot -> Entry \cup {NoEntry}]]]
      BY DEF TypeOK
    <3>3. CASE chunk + 1 < VW
      BY <1>15, <3>2, <3>3 DEF PutValue
    <3>4. CASE ~(chunk + 1 < VW)
      <4>1. last' = [last EXCEPT ![th][KeySlice][KeySlot] = ent]
        BY <1>15, <3>4 DEF PutValue
      <4> QED
        BY <4>1, <2>2, <2>5, <3>1, <3>2
    <3> QED
      BY <3>3, <3>4
  <2>7. TypeOK'
    BY <1>15, <2>4, <2>6, NullTypes DEF PutValue, TypeOK, InsertPc
  <2>8. HandlerInv'
    BY <1>15, <2>1, SizeAssumption
       DEF PutValue, HandlerInv, WithRequestPc, SetupPc, SizeAssumption
  <2> QED
    BY <2>7, <2>8
<1>16. ASSUME NEW t \in Thread, NEW k \in PacketKey, Execute(t, k)
       PROVE  TypeOK' /\ HandlerInv'
  <2>1. k \in Key
    BY WordAssumption DEF WordAssumption
  <2>2. Touches(t, k) \in BOOLEAN
    BY DEF Touches
  <2> QED
    BY <1>16, <2>1, <2>2 DEF Execute, TypeOK, HandlerInv
<1>17. CASE GenerateKey
  BY <1>17 DEF GenerateKey, TypeOK, HandlerInv
<1>18. CASE Locate
  <2>1. CASE depth[pt] = 0
    BY <1>18, <2>1 DEF Locate, TypeOK, HandlerInv, WithRequestPc, SetupPc
  <2>2. CASE depth[pt] # 0
    <3>1. SliceOf(SearchSum(pk, pf), depth[pt]) \in 0 .. depth[pt] - 1
      BY <2>2, SearchCell DEF TypeOK
    <3>2. pkb' \in [0 .. KW - 1 -> Block] /\ pvb' \in [0 .. VW - 1 -> Block]
      BY <1>18, <2>2, <3>1, BlocksLocated DEF Locate, TypeOK
    <3>3. TypeOK'
      BY <1>18, <2>2, <3>2 DEF Locate, TypeOK
    <3>4. HandlerInv'
      BY <1>18, <2>2 DEF Locate, HandlerInv
    <3> QED
      BY <3>3, <3>4
  <2> QED
    BY <2>1, <2>2
<1>19. CASE ReadKey
  <2>1. SlotOf(SearchSum(pk, pf)) \in Slot
    BY SearchSlot DEF TypeOK
  <2>2. CASE linked[pt]
    <3>1. out_key' \in KeyWord
      BY <1>19, <2>1, <2>2 DEF ReadKey, TypeOK, KeyWord
    <3> QED
      BY <1>19, <2>2, <3>1 DEF ReadKey, TypeOK, HandlerInv
  <2>3. CASE ~linked[pt]
    BY <1>19, <2>3 DEF ReadKey, TypeOK, HandlerInv, WithRequestPc, SetupPc
  <2> QED
    BY <2>2, <2>3
<1>20. CASE ReadValue
  <2>1. SlotOf(SearchSum(pk, pf)) \in Slot
    BY SearchSlot DEF TypeOK
  <2>2. out_value' \in ValueWord
    BY <1>20, <2>1 DEF ReadValue, TypeOK, ValueWord
  <2> QED
    BY <1>20, <2>2 DEF ReadValue, TypeOK, HandlerInv
<1>21. CASE Compare
  <2>1. Matches(pk, pf, out_key) \in BOOLEAN
    BY DEF Matches
  <2> QED
    BY <1>21, <2>1 DEF Compare, TypeOK, HandlerInv
<1>22. CASE Return
  BY <1>22, NullTypes DEF Return, TypeOK, HandlerInv
<1>23. CASE LinkBlocks
  BY <1>23 DEF LinkBlocks, TypeOK, HandlerInv, ConfigPc, WithRequestPc, SetupPc
<1>24. CASE PutShort
  BY <1>24 DEF PutShort, TypeOK, HandlerInv, WithRequestPc, SetupPc
<1>25. ASSUME NEW b \in TernaryBlock, NEW x \in Slot, NEW w \in TernaryWord, TernaryInsert(b, x, w)
       PROVE  TypeOK' /\ HandlerInv'
  <2>1. b \in Block /\ w \in Word
    BY WordAssumption DEF WordAssumption
  <2>2. sram' \in [Block -> [Slot -> Word]]
    BY <1>25, <2>1 DEF TernaryInsert, TypeOK
  <2> QED
    BY <1>25, <2>1, <2>2 DEF TernaryInsert, TernaryMeets, TypeOK, HandlerInv
<1>26. ASSUME NEW b \in TernaryBlock, TernaryClear(b)
       PROVE  TypeOK' /\ HandlerInv'
  <2>1. b \in Block /\ Zero \in Word
    BY WordAssumption DEF WordAssumption, Zero, Word
  <2>2. sram' \in [Block -> [Slot -> Word]]
    BY <1>26, <2>1 DEF TernaryClear, TypeOK
  <2> QED
    BY <1>26, <2>1, <2>2 DEF TernaryClear, TernaryMeets, TypeOK, HandlerInv
<1> QED
  BY <1>1, <1>2, <1>3, <1>4, <1>5, <1>6, <1>7, <1>8, <1>9, <1>10, <1>11, <1>12, <1>12a,
     <1>13, <1>14, <1>15, <1>16, <1>17, <1>18, <1>19, <1>20, <1>21, <1>22, <1>23, <1>24,
     <1>25, <1>26
     DEF Next, Handler, Packet

(* Every variable always has its type: no index computed from a key sum    *)
(* leaves the configuration arrays, the blocks or the slots.               *)
THEOREM TypeCorrect == Spec => []TypeOK
<1>1. Init => TypeOK /\ HandlerInv
  BY TypeInit
<1>2. TypeOK /\ HandlerInv /\ [Next]_vars => TypeOK' /\ HandlerInv'
  BY TypeStep
<1> QED
  BY <1>1, <1>2, PTL DEF Spec

-----------------------------------------------------------------------------
(***************************************************************************)
(* The blocks of a table.                                                  *)
(***************************************************************************)

(* The blocks of a configured table's slices are its own, and two chunks   *)
(* of its slices never share one.                                          *)
LEMMA OwnBlocks ==
    ASSUME TypeOK, NEW t \in Thread, Configured(t), NEW s \in 0 .. depth[t] - 1
    PROVE  /\ \A j \in 0 .. KW - 1 :
                 /\ KeyBlock(t, s, j) \in Used(key_config[t], KW, depth[t])
                 /\ KeyBlock(t, s, j) \in Owned(t)
           /\ \A j \in 0 .. VW - 1 :
                 /\ ValueBlock(t, s, j) \in Used(value_config[t], VW, depth[t])
                 /\ ValueBlock(t, s, j) \in Owned(t)
<1>1. depth[t] \in Nat \ {0} /\ KW \in Nat \ {0} /\ VW \in Nat \ {0}
  BY DepthIsNat, SizeAssumption DEF TypeOK, Configured, SizeAssumption
<1>2. \A j \in 0 .. KW - 1 : s + depth[t] * j \in 0 .. KW * depth[t] - 1
  BY <1>1, IndexInRange
<1>3. \A j \in 0 .. VW - 1 : s + depth[t] * j \in 0 .. VW * depth[t] - 1
  BY <1>1, IndexInRange
<1>4. \A j \in 0 .. KW - 1 : KeyBlock(t, s, j) \in Used(key_config[t], KW, depth[t])
  BY <1>2 DEF KeyBlock, Used
<1>5. \A j \in 0 .. VW - 1 : ValueBlock(t, s, j) \in Used(value_config[t], VW, depth[t])
  BY <1>3 DEF ValueBlock, Used
<1> QED
  BY <1>4, <1>5 DEF Owned

(* In a complete configuration different slices and chunks lie in          *)
(* different blocks, and no block holds keys and values.                   *)
LEMMA DistinctBlocks ==
    ASSUME TypeOK, ConfigInv, NEW t \in Thread, Configured(t),
           NEW s \in 0 .. depth[t] - 1, NEW r \in 0 .. depth[t] - 1
    PROVE  /\ \A j, l \in 0 .. KW - 1 : KeyBlock(t, s, j) = KeyBlock(t, r, l) => s = r /\ j = l
           /\ \A j, l \in 0 .. VW - 1 : ValueBlock(t, s, j) = ValueBlock(t, r, l) => s = r /\ j = l
           /\ \A j \in 0 .. KW - 1, l \in 0 .. VW - 1 : KeyBlock(t, s, j) # ValueBlock(t, r, l)
<1>1. depth[t] \in Nat \ {0} /\ KW \in Nat \ {0} /\ VW \in Nat \ {0}
  BY DepthIsNat, SizeAssumption DEF TypeOK, Configured, SizeAssumption
<1>2. \A j \in 0 .. KW - 1 : /\ s + depth[t] * j \in 0 .. KW * depth[t] - 1
                            /\ r + depth[t] * j \in 0 .. KW * depth[t] - 1
  BY <1>1, IndexInRange
<1>3. \A j \in 0 .. VW - 1 : /\ s + depth[t] * j \in 0 .. VW * depth[t] - 1
                            /\ r + depth[t] * j \in 0 .. VW * depth[t] - 1
  BY <1>1, IndexInRange
<1>4. \A j, l \in Nat : s + depth[t] * j = r + depth[t] * l => s = r /\ j = l
  BY <1>1, IndexInjective
<1>5. ASSUME NEW j \in 0 .. KW - 1, NEW l \in 0 .. KW - 1, KeyBlock(t, s, j) = KeyBlock(t, r, l)
      PROVE  s = r /\ j = l
  <2>1. s + depth[t] * j = r + depth[t] * l
    BY <1>2, <1>5 DEF ConfigInv, Injective, KeyBlock
  <2>2. j \in Nat /\ l \in Nat
    BY <1>1
  <2> QED
    BY <1>4, <2>1, <2>2
<1>6. ASSUME NEW j \in 0 .. VW - 1, NEW l \in 0 .. VW - 1, ValueBlock(t, s, j) = ValueBlock(t, r, l)
      PROVE  s = r /\ j = l
  <2>1. s + depth[t] * j = r + depth[t] * l
    BY <1>3, <1>6 DEF ConfigInv, Injective, ValueBlock
  <2>2. j \in Nat /\ l \in Nat
    BY <1>1
  <2> QED
    BY <1>4, <2>1, <2>2
<1>7. ASSUME NEW j \in 0 .. KW - 1, NEW l \in 0 .. VW - 1
      PROVE  KeyBlock(t, s, j) # ValueBlock(t, r, l)
  BY OwnBlocks DEF ConfigInv
<1> QED
  BY <1>5, <1>6, <1>7

(* A table whose configuration, blocks and history a step leaves alone,    *)
(* and into which nothing is being inserted, keeps its words.              *)
LEMMA TableFrame ==
    ASSUME TypeOK, NEW t \in Thread, Configured(t), TableWords(t),
           depth'[t] = depth[t], key_config'[t] = key_config[t],
           value_config'[t] = value_config[t], last'[t] = last[t],
           \A b \in Owned(t) : sram'[b] = sram[b],
           ~(th = t /\ pc \in InsertPc), ~(th' = t /\ pc' \in InsertPc)
    PROVE  TableWords(t)'
<1> SUFFICES ASSUME NEW s \in 0 .. depth[t] - 1, NEW x \in Slot
             PROVE  KeyWords(t, s, x)' /\ ValueWords(t, s, x)'
  BY DEF TableWords
<1>1. KeyWords(t, s, x) /\ ValueWords(t, s, x)
  BY DEF TableWords
<1>2. ~Writing(t, s, x) /\ ~Writing(t, s, x)'
  BY DEF Writing
<1>3. ASSUME NEW j \in 0 .. KW - 1
      PROVE  (KeyPart(t, s, x, j) = LastKey(t, s, x)[j])'
  <2>1. KeyPart(t, s, x, j) = LastKey(t, s, x)[j]
    BY <1>1, <1>2 DEF KeyWords
  <2>2. KeyBlock(t, s, j)' = KeyBlock(t, s, j) /\ LastKey(t, s, x)' = LastKey(t, s, x)
    BY DEF KeyBlock, LastKey
  <2> QED
    BY <2>1, <2>2, OwnBlocks DEF KeyPart
<1>4. ASSUME NEW j \in 0 .. VW - 1
      PROVE  (ValuePart(t, s, x, j, LastValue(t, s, x).len) = LastValue(t, s, x).word[j])'
  <2>1. ValuePart(t, s, x, j, LastValue(t, s, x).len) = LastValue(t, s, x).word[j]
    BY <1>1, <1>2 DEF ValueWords
  <2>2. ValueBlock(t, s, j)' = ValueBlock(t, s, j) /\ LastValue(t, s, x)' = LastValue(t, s, x)
    BY DEF ValueBlock, LastValue
  <2> QED
    BY <2>1, <2>2, OwnBlocks DEF ValuePart
<1> QED
  BY <1>2, <1>3, <1>4 DEF KeyWords, ValueWords

-----------------------------------------------------------------------------
(***************************************************************************)
(* The steps of the handlers keep MemInv.                                  *)
(***************************************************************************)

(* Initially there are no tables and all blocks are clear.                 *)
LEMMA MemInit == Init => MemInv
<1> SUFFICES ASSUME Init PROVE MemInv
  OBVIOUS
<1>1. \A t \in Thread : ~Configured(t) /\ Owned(t) = {}
  BY DEF Init, Configured, Owned
<1>2. NoTableInv
  BY DEF Init, NoTableInv
<1>3. ConfigInv /\ DisjointInv
  BY <1>1, RequestAssumption
     DEF Init, ConfigInv, DisjointInv, ZeroPc, SetupPc, RequestAssumption
<1>4. ClearInv
  BY <1>1 DEF Init, ClearInv
<1>5. ContentInv
  BY <1>1 DEF ContentInv
<1> QED
  BY <1>2, <1>3, <1>4, <1>5 DEF MemInv

(* Without a change of the depths and the arrays, outside the part of      *)
(* set_mem_config that installs them, the same tables own the same blocks. *)
LEMMA OwnedFrame ==
    ASSUME UNCHANGED <<depth, key_config, value_config>>,
           pc \notin SetupPc, pc' \notin SetupPc
    PROVE  /\ \A t \in Thread : Configured(t)' = Configured(t) /\ Owned(t)' = Owned(t)
           /\ ConfigInv => ConfigInv'
<1>1. \A t \in Thread : Configured(t)' = Configured(t)
  BY DEF Configured, SetupPc
<1>2. \A t \in Thread : /\ Used(key_config[t], KW, depth[t])' = Used(key_config[t], KW, depth[t])
                       /\ Used(value_config[t], VW, depth[t])' = Used(value_config[t], VW, depth[t])
  BY DEF Used
<1>3. \A t \in Thread : Owned(t)' = Owned(t)
  BY <1>1, <1>2 DEF Owned
<1>4. ConfigInv => ConfigInv'
  BY <1>1, <1>2 DEF ConfigInv, Injective
<1> QED
  BY <1>1, <1>3, <1>4

(* A step that leaves the memory, the configuration, the handler and the   *)
(* history alone, as those of a lookup do.                                 *)
LEMMA MemFrame ==
    ASSUME MemInv, UNCHANGED <<memVars, no_table, depth, key_config, value_config, rpcVars, last,
                               shareVars>>
    PROVE  MemInv'
<1> USE DEF memVars, rpcVars, shareVars
<1>1. \A t \in Thread : Configured(t)' = Configured(t)
  BY DEF Configured
<1>2. \A t \in Thread : /\ Used(key_config[t], KW, depth[t])' = Used(key_config[t], KW, depth[t])
                       /\ Used(value_config[t], VW, depth[t])' = Used(value_config[t], VW, depth[t])
  BY DEF Used
<1>3. \A t \in Thread : Owned(t)' = Owned(t)
  BY <1>1, <1>2 DEF Owned
<1>4. NoTableInv' /\ ConfigInv'
  BY <1>1, <1>2 DEF MemInv, NoTableInv, ConfigInv, Injective
<1>5. DisjointInv'
  BY <1>3 DEF MemInv, DisjointInv
<1>6. ClearInv'
  <2>1. /\ Used(key_config[th], KW, depth[th])' = Used(key_config[th], KW, depth[th])
        /\ Used(value_config[th], VW, depth[th])' = Used(value_config[th], VW, depth[th])
    BY DEF Used
  <2> QED
    BY <1>1, <1>3, <2>1 DEF MemInv, ClearInv
<1>7. ContentInv'
  <2>1. \A t, s, x : /\ Writing(t, s, x)' = Writing(t, s, x)
                     /\ LastKey(t, s, x)' = LastKey(t, s, x)
                     /\ LastValue(t, s, x)' = LastValue(t, s, x)
    BY DEF Writing, KeySlice, KeySlot, LastKey, LastValue
  <2>2. \A t, s, j : /\ KeyBlock(t, s, j)' = KeyBlock(t, s, j)
                     /\ ValueBlock(t, s, j)' = ValueBlock(t, s, j)
    BY DEF KeyBlock, ValueBlock
  <2>3. \A t, s, x : /\ KeyWords(t, s, x)' = KeyWords(t, s, x)
                     /\ ValueWords(t, s, x)' = ValueWords(t, s, x)
    BY <2>1, <2>2 DEF KeyWords, ValueWords, KeyPart, ValuePart
  <2>4. \A t \in Thread : TableWords(t)' = TableWords(t)
    BY <2>3 DEF TableWords
  <2> QED
    BY <1>1, <2>4 DEF MemInv, ContentInv
<1> QED
  BY <1>4, <1>5, <1>6, <1>7 DEF MemInv

(* The first step of clear_old_config leaves the blocks alone.             *)
LEMMA StartConfigMem ==
    ASSUME TypeOK, MemInv, NEW t \in Thread, NEW r \in Request \cup {NoRequest},
           StartConfig(t, r)
    PROVE  MemInv'
<1> USE DEF memVars, shareVars
<1>1. /\ \A u \in Thread : Configured(u)' = Configured(u) /\ Owned(u)' = Owned(u)
      /\ ConfigInv'
  BY OwnedFrame DEF StartConfig, SetupPc, MemInv
<1>2. NoTableInv'
  BY DEF StartConfig, MemInv, NoTableInv, ConfigPc, ZeroPc, TypeOK
<1>3. DisjointInv'
  BY <1>1 DEF StartConfig, MemInv, DisjointInv
<1>4. ClearInv'
  BY <1>1 DEF StartConfig, MemInv, ClearInv
<1>5. ContentInv'
  <2> SUFFICES ASSUME NEW u \in Thread \ mixed, Configured(u)', ~(th = u /\ pc \in ZeroPc)'
               PROVE  TableWords(u)'
    BY DEF ContentInv, StartConfig
  <2>1. Configured(u) /\ pc = "idle" /\ pc' = "zero_key"
    BY <1>1 DEF StartConfig
  <2>2. TableWords(u)
    BY <2>1 DEF MemInv, ContentInv, ZeroPc
  <2> QED
    BY <2>1, <2>2, TableFrame DEF StartConfig, InsertPc
<1> QED
  BY <1>1, <1>2, <1>3, <1>4, <1>5 DEF MemInv

(* The blocks a thread's arrays name are blocks of the cluster.            *)
LEMMA UsedAreBlocks ==
    ASSUME TypeOK, NEW t \in Thread
    PROVE  /\ Used(key_config[t], KW, depth[t]) \subseteq Block
           /\ Used(value_config[t], VW, depth[t]) \subseteq Block
           /\ Owned(t) \subseteq Block
<1>1. /\ KW * depth[t] \in Nat /\ KW * depth[t] <= NB
      /\ VW * depth[t] \in Nat /\ VW * depth[t] <= NB
  BY DepthIsNat DEF TypeOK
<1>2. /\ \A j \in 0 .. KW * depth[t] - 1 : j \in Block
      /\ \A j \in 0 .. VW * depth[t] - 1 : j \in Block
  BY <1>1, SizeAssumption DEF SizeAssumption, Block
<1>3. key_config[t] \in [Block -> Block] /\ value_config[t] \in [Block -> Block]
  BY DEF TypeOK
<1>4. /\ Used(key_config[t], KW, depth[t]) \subseteq Block
      /\ Used(value_config[t], VW, depth[t]) \subseteq Block
  BY <1>2, <1>3 DEF Used
<1> QED
  BY <1>4 DEF Owned

(* A thread of depth 0 uses no block.                                      *)
LEMMA UsedOfNone ==
    ASSUME NEW config
    PROVE  Used(config, KW, 0) = {} /\ Used(config, VW, 0) = {}
<1>1. KW * 0 = 0 /\ VW * 0 = 0
  BY SizeAssumption, Z3 DEF SizeAssumption
<1>2. 0 .. KW * 0 - 1 = {} /\ 0 .. VW * 0 - 1 = {}
  BY <1>1
<1> QED
  BY <1>2 DEF Used

(* What clear_old_config writes: no block of a table that has its blocks   *)
(* to itself, but for its own.                                             *)
LEMMA ZeroMem ==
    ASSUME TypeOK, MemInv, pc \in ZeroPc, pc' \in ZeroPc, NEW B, B \subseteq Block,
           \A u \in Thread \ {th} : u \notin mixed => B \cap Owned(u) = {},
           sram' = [b \in Block |-> IF b \in B THEN ZeroBlock ELSE sram[b]],
           stale' = stale \ B,
           UNCHANGED <<cfgVars, th, req, ent, chunk, last, mixed>>,
           pc' \in {"zero_val", "zero_cfg"} =>
             \A b \in Used(key_config[th], KW, depth[th]) : sram'[b] = ZeroBlock,
           pc' = "zero_cfg" =>
             \A b \in Used(value_config[th], VW, depth[th]) : sram'[b] = ZeroBlock
    PROVE  MemInv'
<1> USE DEF cfgVars
<1>1. /\ \A u \in Thread : Configured(u)' = Configured(u) /\ Owned(u)' = Owned(u)
      /\ ConfigInv'
  BY OwnedFrame DEF ZeroPc, SetupPc, MemInv
<1>2. NoTableInv'
  BY DEF MemInv, NoTableInv, ZeroPc, ConfigPc
<1>3. DisjointInv'
  BY <1>1 DEF MemInv, DisjointInv
<1>4. ClearInv'
  <2>1. /\ Used(key_config[th], KW, depth[th])' = Used(key_config[th], KW, depth[th])
        /\ Used(value_config[th], VW, depth[th])' = Used(value_config[th], VW, depth[th])
    BY DEF Used
  <2>2. \A b \in Block : sram[b] = ZeroBlock \/ b \in B => sram'[b] = ZeroBlock
    OBVIOUS
  <2>3. ASSUME NEW b \in Block \ stale', \A t \in Thread : b \notin Owned(t)'
        PROVE  sram'[b] = ZeroBlock
    BY <1>1, <2>2, <2>3 DEF MemInv, ClearInv
  <2>4. \A t \in Thread : ~Configured(t)' => last'[t] = [s \in Block |-> [x \in Slot |-> NoEntry]]
    BY <1>1 DEF MemInv, ClearInv
  <2> QED
    BY <2>1, <2>3, <2>4 DEF ClearInv
<1>5. ContentInv'
  <2> SUFFICES ASSUME NEW u \in Thread \ mixed, Configured(u)', ~(th = u /\ pc \in ZeroPc)'
               PROVE  TableWords(u)'
    BY DEF ContentInv
  <2>1. Configured(u) /\ u # th
    BY <1>1
  <2>2. TableWords(u)
    BY <2>1 DEF MemInv, ContentInv
  <2>3. \A b \in Owned(u) : sram'[b] = sram[b]
    BY <2>1, UsedAreBlocks
  <2> QED
    BY <2>1, <2>2, <2>3, TableFrame DEF InsertPc, ZeroPc
<1> QED
  BY <1>1, <1>2, <1>3, <1>4, <1>5 DEF MemInv

(* The blocks clear_old_config is about to write belong to no other table  *)
(* that has its blocks to itself.                                          *)
LEMMA ZeroOwn ==
    ASSUME TypeOK, MemInv, pc \in ZeroPc
    PROVE  \A u \in Thread \ {th} : u \notin mixed =>
             /\ Used(key_config[th], KW, depth[th]) \cap Owned(u) = {}
             /\ Used(value_config[th], VW, depth[th]) \cap Owned(u) = {}
<1>1. CASE depth[th] = 0
  BY <1>1, UsedOfNone
<1>2. CASE depth[th] # 0
  <2>1. Owned(th) = Used(key_config[th], KW, depth[th]) \cup Used(value_config[th], VW, depth[th])
    BY <1>2 DEF Owned, Configured, ZeroPc
  <2> QED
    BY <2>1 DEF MemInv, DisjointInv, TypeOK
<1> QED
  BY <1>1, <1>2

(* Clearing the key blocks reaches no block of another table.              *)
LEMMA ZeroKeyBlocksMem ==
    ASSUME TypeOK, MemInv, ZeroKeyBlocks
    PROVE  MemInv'
<1> DEFINE B == Used(key_config[th], KW, depth[th])
<1>1. B \subseteq Block /\ \A u \in Thread \ {th} : u \notin mixed => B \cap Owned(u) = {}
  BY UsedAreBlocks, ZeroOwn DEF ZeroKeyBlocks, ZeroPc, TypeOK
<1>2. sram' = [b \in Block |-> IF b \in B THEN ZeroBlock ELSE sram[b]] /\ stale' = stale \ B
  BY DEF ZeroKeyBlocks, ClearBlocks
<1>3. \A b \in B : sram'[b] = ZeroBlock
  BY <1>1, <1>2
<1> QED
  BY <1>1, <1>2, <1>3, ZeroMem DEF ZeroKeyBlocks, ZeroPc

(* Clearing the value blocks reaches no block of another table.            *)
LEMMA ZeroValueBlocksMem ==
    ASSUME TypeOK, MemInv, ZeroValueBlocks
    PROVE  MemInv'
<1> DEFINE B == Used(value_config[th], VW, depth[th])
<1>1. B \subseteq Block /\ \A u \in Thread \ {th} : u \notin mixed => B \cap Owned(u) = {}
  BY UsedAreBlocks, ZeroOwn DEF ZeroValueBlocks, ZeroPc, TypeOK
<1>2. sram' = [b \in Block |-> IF b \in B THEN ZeroBlock ELSE sram[b]] /\ stale' = stale \ B
  BY DEF ZeroValueBlocks, ClearBlocks
<1>3. \A b \in B : sram'[b] = ZeroBlock
  BY <1>1, <1>2
<1>4. \A b \in Used(key_config[th], KW, depth[th]) : sram'[b] = ZeroBlock
  <2>1. \A b \in Used(key_config[th], KW, depth[th]) : b \in Block /\ sram[b] = ZeroBlock
    BY UsedAreBlocks DEF MemInv, ClearInv, ZeroValueBlocks, TypeOK
  <2> QED
    BY <1>2, <2>1
<1> QED
  BY <1>1, <1>2, <1>3, <1>4, ZeroMem DEF ZeroValueBlocks, ZeroPc

(* A table gives up its blocks after they have been cleared.               *)
LEMMA ZeroConfigMem ==
    ASSUME TypeOK, MemInv, ZeroConfig
    PROVE  MemInv'
<1> USE DEF memVars
<1>1. \A u \in Thread \ {th} : /\ depth'[u] = depth[u] /\ key_config'[u] = key_config[u]
                               /\ value_config'[u] = value_config[u] /\ last'[u] = last[u]
  BY DEF ZeroConfig, TypeOK
<1>2. depth'[th] = 0 /\ last'[th] = [s \in Block |-> [x \in Slot |-> NoEntry]]
  BY DEF ZeroConfig, TypeOK
<1>3. \A u \in Thread \ {th} :
        /\ Configured(u)' = Configured(u)
        /\ Used(key_config[u], KW, depth[u])' = Used(key_config[u], KW, depth[u])
        /\ Used(value_config[u], VW, depth[u])' = Used(value_config[u], VW, depth[u])
  BY <1>1 DEF ZeroConfig, Configured, Used
<1>4. \A u \in Thread \ {th} : Owned(u)' = Owned(u)
  BY <1>3 DEF Owned
<1>5. th \in Thread /\ th' = th /\ ~Configured(th)' /\ Owned(th)' = {}
  BY <1>2 DEF ZeroConfig, Configured, Owned, TypeOK
<1>6. NoTableInv'
  <2>1. no_table[th] /\ no_table' = no_table
    BY DEF ZeroConfig, MemInv, NoTableInv, ZeroPc
  <2> QED
    BY <1>1, <1>2, <2>1 DEF ZeroConfig, MemInv, NoTableInv, ConfigPc, ZeroPc
<1>7. ConfigInv'
  BY <1>1, <1>3, <1>5 DEF MemInv, ConfigInv, Injective
<1>8. DisjointInv'
  <2>1. mixed' = mixed \ {th}
    BY DEF ZeroConfig
  <2> QED
    BY <1>4, <1>5, <2>1 DEF MemInv, DisjointInv
<1>9. ClearInv'
  <2>1. ASSUME NEW b \in Block \ stale', \A t \in Thread : b \notin Owned(t)'
        PROVE  sram'[b] = ZeroBlock
    <3>1. CASE b \in Owned(th)
      BY <3>1 DEF ZeroConfig, MemInv, ClearInv, Owned
    <3>2. CASE b \notin Owned(th)
      BY <1>4, <2>1, <3>2 DEF ZeroConfig, MemInv, ClearInv
    <3> QED
      BY <3>1, <3>2
  <2>2. \A t \in Thread : ~Configured(t)' => last'[t] = [s \in Block |-> [x \in Slot |-> NoEntry]]
    BY <1>1, <1>2, <1>3 DEF MemInv, ClearInv
  <2>3. pc' \notin {"zero_val", "zero_cfg"}
    BY DEF ZeroConfig
  <2> QED
    BY <2>1, <2>2, <2>3 DEF ClearInv
<1>10. ContentInv'
  <2> SUFFICES ASSUME NEW u \in Thread \ mixed', Configured(u)'
               PROVE  TableWords(u)'
    BY DEF ContentInv
  <2>1. u # th /\ Configured(u) /\ u \notin mixed
    BY <1>3, <1>5 DEF ZeroConfig
  <2>2. TableWords(u)
    BY <2>1 DEF MemInv, ContentInv
  <2> QED
    BY <1>1, <1>5, <2>1, <2>2, TableFrame DEF ZeroConfig
<1> QED
  BY <1>6, <1>7, <1>8, <1>9, <1>10 DEF MemInv

(* The steps of set_mem_config that install a configuration not yet in use.*)
LEMMA SetupMem ==
    ASSUME TypeOK, MemInv, pc \in SetupPc, pc' \in SetupPc \ {"set_table"},
           UNCHANGED <<memVars, th, req, last, shareVars>>, ~no_table'[th],
           \A u \in Thread \ {th} :
              /\ depth'[u] = depth[u] /\ key_config'[u] = key_config[u]
              /\ value_config'[u] = value_config[u] /\ no_table'[u] = no_table[u]
    PROVE  MemInv'
<1> USE DEF memVars, shareVars
<1>1. \A u \in Thread \ {th} :
        /\ Configured(u)' = Configured(u)
        /\ Used(key_config[u], KW, depth[u])' = Used(key_config[u], KW, depth[u])
        /\ Used(value_config[u], VW, depth[u])' = Used(value_config[u], VW, depth[u])
  BY DEF Configured, Used
<1>2. \A u \in Thread \ {th} : Owned(u)' = Owned(u)
  BY <1>1 DEF Owned
<1>3. ~Configured(th) /\ ~Configured(th)' /\ Owned(th) = {} /\ Owned(th)' = {} /\ th \in Thread
  BY DEF Configured, Owned, SetupPc, TypeOK
<1>4. NoTableInv'
  BY DEF MemInv, NoTableInv, ConfigPc, SetupPc, ZeroPc
<1>5. ConfigInv'
  BY <1>1, <1>3 DEF MemInv, ConfigInv, Injective
<1>6. DisjointInv'
  BY <1>2, <1>3 DEF MemInv, DisjointInv
<1>7. ClearInv'
  <2>1. ASSUME NEW b \in Block \ stale', \A t \in Thread : b \notin Owned(t)'
        PROVE  sram'[b] = ZeroBlock
    BY <1>2, <1>3, <2>1 DEF MemInv, ClearInv
  <2>2. \A t \in Thread : ~Configured(t)' => last'[t] = [s \in Block |-> [x \in Slot |-> NoEntry]]
    BY <1>1, <1>3 DEF MemInv, ClearInv
  <2> QED
    BY <2>1, <2>2 DEF ClearInv, SetupPc
<1>8. ContentInv'
  <2> SUFFICES ASSUME NEW u \in Thread \ mixed, Configured(u)'
               PROVE  TableWords(u)'
    BY DEF ContentInv
  <2>1. u # th /\ Configured(u)
    BY <1>1, <1>3
  <2>2. TableWords(u)
    BY <2>1 DEF MemInv, ContentInv
  <2> QED
    BY <2>1, <2>2, TableFrame DEF SetupPc, InsertPc
<1> QED
  BY <1>4, <1>5, <1>6, <1>7, <1>8 DEF MemInv

(* The steps of set_mem_config before the value blocks are known take no   *)
(* block into use.                                                         *)
LEMMA SetTableMem ==
    ASSUME TypeOK, HandlerInv, MemInv, SetTable \/ SetDepth \/ SetKeyConfig
    PROVE  MemInv'
<1>1. CASE SetTable
  BY <1>1, SetupMem DEF SetTable, SetupPc, TypeOK
<1>2. CASE SetDepth
  BY <1>2, SetupMem DEF SetDepth, SetupPc, TypeOK, MemInv, NoTableInv
<1>3. CASE SetKeyConfig
  BY <1>3, SetupMem DEF SetKeyConfig, SetupPc, TypeOK, MemInv, NoTableInv
<1> QED
  BY <1>1, <1>2, <1>3

(* With its last array set_mem_config brings the table into use.  Either   *)
(* its blocks are nobody's, hence clear, or the tables that have them are  *)
(* mixed from now on.                                                      *)
LEMMA SetValueConfigMem ==
    ASSUME TypeOK, HandlerInv, MemInv, SetValueConfig
    PROVE  MemInv'
<1> USE DEF memVars
<1>0. PICK q \in Thread : q = th
  BY DEF TypeOK
<1>1. /\ th = q /\ th' = q /\ pc = "set_val" /\ pc' = "link"
      /\ req \in Request /\ depth[th] = req.depth
      /\ UNCHANGED <<sram, no_table, depth, key_config, last, req, stale>>
  BY <1>0 DEF SetValueConfig, HandlerInv, WithRequestPc, SetupPc, TypeOK
<1>1a. /\ mixed \subseteq mixed'
       /\ \A u \in Thread \ {q} : RequestBlocks(req) \cap Owned(u) # {} =>
             u \in mixed' /\ q \in mixed'
       /\ RequestBlocks(req) \cap stale # {} => q \in mixed'
  BY <1>0 DEF SetValueConfig, Sharing
<1>2. \A u \in Thread \ {q} : value_config'[u] = value_config[u]
  BY <1>1 DEF SetValueConfig, TypeOK
<1>3. \A u \in Thread \ {q} :
        /\ Configured(u)' = Configured(u)
        /\ Used(key_config[u], KW, depth[u])' = Used(key_config[u], KW, depth[u])
        /\ Used(value_config[u], VW, depth[u])' = Used(value_config[u], VW, depth[u])
  BY <1>1, <1>2 DEF Configured, Used
<1>4. \A u \in Thread \ {q} : Owned(u)' = Owned(u)
  BY <1>3 DEF Owned
<1>5. depth[q] \in Depth \ {0} /\ WellFormed(req)
  BY <1>1, RequestTypes, RequestAssumption DEF RequestAssumption
<1>6. \A j \in 0 .. KW * depth[q] - 1 : key_config'[q][j] = req.key_config[j]
  BY <1>1 DEF HandlerInv
<1>7. \A j \in 0 .. VW * depth[q] - 1 : value_config'[q][j] = req.value_config[j]
  <2>1. VW * depth[q] \in Nat /\ VW * depth[q] <= NB
    BY <1>5, DepthIsNat
  <2>2. req.value_config \in [0 .. VW * depth[q] - 1 -> Block] /\ value_config[q] \in [Block -> Block]
    BY <1>1, RequestTypes DEF TypeOK
  <2>3. \A j \in 0 .. VW * depth[q] - 1 : j \in Block
    BY <2>1, SizeAssumption DEF SizeAssumption, Block
  <2>4. value_config'[q] = Overwrite(value_config[q], req.value_config, VW * depth[q])
    BY <1>1 DEF SetValueConfig, TypeOK
  <2> QED
    <3>1. \A j \in 0 .. VW * depth[q] - 1 : j \in Block =>
            Overwrite(value_config[q], req.value_config, VW * depth[q])[j] = req.value_config[j]
      BY <2>1, <2>2, OverwriteType
    <3> QED
      BY <2>3, <2>4, <3>1
<1>8. /\ Used(key_config[q], KW, depth[q])' = Used(req.key_config, KW, req.depth)
      /\ Used(value_config[q], VW, depth[q])' = Used(req.value_config, VW, req.depth)
  BY <1>1, <1>6, <1>7 DEF Used
<1>9. Configured(q)' /\ ~Configured(q) /\ Owned(q) = {} /\ Owned(q)' = RequestBlocks(req)
  BY <1>1, <1>5, <1>8 DEF Configured, Owned, RequestBlocks
<1>10. NoTableInv'
  BY <1>1 DEF MemInv, NoTableInv, ConfigPc, ZeroPc
<1>11. ConfigInv'
  <2>1. /\ Injective(key_config[q], KW, depth[q])'
        /\ Injective(value_config[q], VW, depth[q])'
    BY <1>1, <1>5, <1>6, <1>7 DEF WellFormed, Injective
  <2>2. (Used(key_config[q], KW, depth[q]) \cap Used(value_config[q], VW, depth[q]) = {})'
    BY <1>5, <1>8 DEF WellFormed
  <2>3. ASSUME NEW u \in Thread \ {q}, Configured(u)'
        PROVE  /\ Injective(key_config[u], KW, depth[u])'
               /\ Injective(value_config[u], VW, depth[u])'
               /\ (Used(key_config[u], KW, depth[u]) \cap Used(value_config[u], VW, depth[u]) = {})'
    <3>1. /\ Configured(u) /\ depth'[u] = depth[u]
          /\ key_config'[u] = key_config[u] /\ value_config'[u] = value_config[u]
      BY <1>1, <1>2, <1>3, <2>3
    <3>2. /\ Injective(key_config[u], KW, depth[u])
          /\ Injective(value_config[u], VW, depth[u])
          /\ Used(key_config[u], KW, depth[u]) \cap Used(value_config[u], VW, depth[u]) = {}
      BY <3>1 DEF MemInv, ConfigInv
    <3> QED
      BY <1>3, <3>1, <3>2 DEF Injective
  <2> QED
    BY <2>1, <2>2, <2>3 DEF ConfigInv
<1>12. DisjointInv'
  <2> SUFFICES ASSUME NEW t \in Thread, NEW u \in Thread, t # u, t \notin mixed'
               PROVE  Owned(t)' \cap Owned(u)' = {}
    BY DEF DisjointInv
  <2>1. CASE t = q
    BY <1>1a, <1>4, <1>9, <2>1
  <2>2. CASE u = q
    BY <1>1a, <1>4, <1>9, <2>2
  <2>3. CASE t # q /\ u # q
    BY <1>1a, <1>4, <2>3 DEF MemInv, DisjointInv
  <2> QED
    BY <2>1, <2>2, <2>3
<1>13. ClearInv'
  <2>1. ASSUME NEW b \in Block \ stale', \A t \in Thread : b \notin Owned(t)'
        PROVE  sram'[b] = ZeroBlock
    BY <1>1, <1>4, <1>9, <2>1 DEF MemInv, ClearInv
  <2>2. \A t \in Thread : ~Configured(t)' => last'[t] = [s \in Block |-> [x \in Slot |-> NoEntry]]
    BY <1>1, <1>3, <1>9 DEF MemInv, ClearInv
  <2> QED
    BY <1>1, <2>1, <2>2 DEF ClearInv
<1>14. ContentInv'
  <2>1. ASSUME NEW u \in Thread \ {q}, Configured(u)', u \notin mixed'
        PROVE  TableWords(u)'
    <3>1. Configured(u) /\ TableWords(u)
      BY <1>1, <1>1a, <1>3, <2>1 DEF MemInv, ContentInv
    <3> QED
      BY <1>1, <1>2, <3>1, TableFrame DEF InsertPc
  <2>2. ASSUME q \notin mixed'
        PROVE  TableWords(q)'
    <3>1. \A b \in Owned(q)' : sram'[b] = ZeroBlock
      <4>1. Owned(q)' \subseteq Block
        <5>1. /\ Used(req.key_config, KW, req.depth) \subseteq Block
              /\ Used(req.value_config, VW, req.depth) \subseteq Block
          <6>1. /\ req.key_config \in [0 .. KW * req.depth - 1 -> Block]
                /\ req.value_config \in [0 .. VW * req.depth - 1 -> Block]
            BY <1>1, RequestTypes
          <6> QED
            BY <6>1 DEF Used
        <5> QED
          BY <1>9, <5>1 DEF RequestBlocks
      <4>2. \A b \in Owned(q)' : b \notin stale /\ \A u \in Thread : b \notin Owned(u)
        BY <1>1a, <1>9, <2>2
      <4> QED
        BY <1>1, <4>1, <4>2 DEF MemInv, ClearInv
    <3>2. last'[q] = [s \in Block |-> [x \in Slot |-> NoEntry]]
      BY <1>1, <1>9 DEF MemInv, ClearInv
    <3> SUFFICES ASSUME NEW s \in 0 .. depth'[q] - 1, NEW x \in Slot
                 PROVE  KeyWords(q, s, x)' /\ ValueWords(q, s, x)'
      BY DEF TableWords
    <3>3. s \in Block /\ depth'[q] \in Nat
      <4>1. depth[q] \in 0 .. NB
        BY DEF TypeOK, Depth
      <4> QED
        BY <1>1, <4>1, SizeAssumption DEF Block, SizeAssumption
    <3>4. LastKey(q, s, x)' = ZeroKey /\ LastValue(q, s, x)' = ZeroValue
      BY <1>1, <3>2, <3>3 DEF LastKey, LastValue
    <3>5. /\ \A j \in 0 .. KW - 1 : KeyBlock(q, s, j)' \in Owned(q)'
          /\ \A j \in 0 .. VW - 1 : ValueBlock(q, s, j)' \in Owned(q)'
      <4>1. depth'[q] \in Nat \ {0} /\ KW \in Nat \ {0} /\ VW \in Nat \ {0}
        BY <1>1, <1>5, DepthIsNat, SizeAssumption DEF SizeAssumption
      <4>2. /\ \A j \in 0 .. KW - 1 : s + depth'[q] * j \in 0 .. KW * depth'[q] - 1
            /\ \A j \in 0 .. VW - 1 : s + depth'[q] * j \in 0 .. VW * depth'[q] - 1
        BY <1>1, <4>1, IndexInRange
      <4>3. Owned(q)' = Used(key_config[q], KW, depth[q])' \cup Used(value_config[q], VW, depth[q])'
        BY <1>9 DEF Owned
      <4> QED
        BY <1>1, <4>2, <4>3 DEF KeyBlock, ValueBlock, Used
    <3>6. ~Writing(q, s, x)'
      BY <1>1 DEF Writing, InsertPc
    <3>7. /\ \A j \in 0 .. KW - 1 : sram'[KeyBlock(q, s, j)'][x] = Zero
          /\ \A j \in 0 .. VW - 1 : sram'[ValueBlock(q, s, j)'][x] = Zero
      BY <3>1, <3>5 DEF ZeroBlock
    <3>8. /\ \A j \in 0 .. KW - 1 : ZeroKey[j] = Zero
          /\ \A j \in 0 .. VW - 1 : ZeroValue.word[j] = Zero
      BY DEF ZeroKey, ZeroValue, ZeroValueWord
    <3> QED
      BY <3>4, <3>6, <3>7, <3>8 DEF KeyWords, ValueWords, KeyPart, ValuePart, Zero
  <2> QED
    BY <1>1, <2>1, <2>2 DEF ContentInv
<1> QED
  BY <1>10, <1>11, <1>12, <1>13, <1>14 DEF MemInv

(* The steps between two handlers' work on the memory.                     *)
LEMMA IdleMem ==
    ASSUME TypeOK, HandlerInv, MemInv,
           \/ LinkBlocks
           \/ SetMissAction
           \/ \E t \in Thread : SetFieldInfo(t)
           \/ \E t \in Thread, a \in Action : SetMissActId(t, a)
           \/ \E t \in Thread, b \in BOOLEAN : SetNoTable(t, b)
    PROVE  MemInv'
<1> USE DEF memVars, rpcVars, shareVars
<1>1. CASE LinkBlocks \/ SetMissAction
  <2>1. /\ \/ pc = "link" /\ pc' = "set_miss"
           \/ pc = "set_miss" /\ pc' = "idle"
        /\ th' = th
        /\ UNCHANGED <<sram, no_table, depth, key_config, value_config, last, stale, mixed>>
    BY <1>1 DEF LinkBlocks, SetMissAction
  <2>2. /\ \A u \in Thread : Configured(u)' = Configured(u) /\ Owned(u)' = Owned(u)
        /\ ConfigInv'
    BY <2>1, OwnedFrame DEF SetupPc, MemInv
  <2>3. NoTableInv'
    <3>1. depth[th] # 0
      BY <2>1, RequestTypes DEF HandlerInv, WithRequestPc
    <3> QED
      BY <2>1, <3>1 DEF MemInv, NoTableInv, ConfigPc, ZeroPc
  <2>4. DisjointInv'
    BY <2>1, <2>2 DEF MemInv, DisjointInv, ZeroPc, SetupPc
  <2>5. ClearInv'
    BY <2>1, <2>2 DEF MemInv, ClearInv
  <2>6. ContentInv'
    <3> SUFFICES ASSUME NEW u \in Thread \ mixed, Configured(u)'
                 PROVE  TableWords(u)'
      BY <2>1 DEF ContentInv
    <3>1. Configured(u) /\ TableWords(u)
      BY <2>1, <2>2 DEF MemInv, ContentInv, ZeroPc
    <3> QED
      BY <2>1, <3>1, TableFrame DEF InsertPc
  <2> QED
    BY <2>2, <2>3, <2>4, <2>5, <2>6 DEF MemInv
<1>2. CASE \E t \in Thread : SetFieldInfo(t)
  BY <1>2, MemFrame DEF SetFieldInfo
<1>3. CASE \E t \in Thread, a \in Action : SetMissActId(t, a)
  BY <1>3, MemFrame DEF SetMissActId
<1>4. CASE \E t \in Thread, b \in BOOLEAN : SetNoTable(t, b)
  <2>1. PICK t \in Thread, b \in BOOLEAN : SetNoTable(t, b)
    BY <1>4
  <2>2. /\ pc = "idle" /\ pc' = "idle" /\ th' = th
        /\ UNCHANGED <<sram, depth, key_config, value_config, last, req, ent, chunk, stale, mixed>>
    BY <2>1 DEF SetNoTable
  <2>3. NoTableInv'
    BY <2>1, <2>2 DEF SetNoTable, MemInv, NoTableInv, ConfigPc, ZeroPc, TypeOK
  <2>4. /\ \A u \in Thread : Configured(u)' = Configured(u) /\ Owned(u)' = Owned(u)
        /\ ConfigInv'
    BY <2>2, OwnedFrame DEF SetupPc, MemInv
  <2>5. DisjointInv'
    BY <2>2, <2>4 DEF MemInv, DisjointInv, ZeroPc, SetupPc
  <2>6. ClearInv'
    BY <2>2, <2>4 DEF MemInv, ClearInv
  <2>7. ContentInv'
    <3> SUFFICES ASSUME NEW u \in Thread \ mixed, Configured(u)'
                 PROVE  TableWords(u)'
      BY <2>2 DEF ContentInv
    <3>1. Configured(u) /\ TableWords(u)
      BY <2>2, <2>4 DEF MemInv, ContentInv, ZeroPc
    <3> QED
      BY <2>2, <3>1, TableFrame DEF InsertPc
  <2> QED
    BY <2>3, <2>4, <2>5, <2>6, <2>7 DEF MemInv
<1> QED
  BY <1>1, <1>2, <1>3, <1>4

(* The start of insert_sram_entry changes no block.                        *)
LEMMA StartInsertMem ==
    ASSUME TypeOK, MemInv, NEW t \in Thread, NEW k, NEW v, StartInsert(t, k, v)
    PROVE  MemInv'
<1> USE DEF memVars, cfgVars, shareVars
<1>1. /\ pc = "idle" /\ pc' = "put_key" /\ th' = t /\ chunk' = 0
      /\ UNCHANGED <<sram, no_table, depth, key_config, value_config, last, stale, mixed>>
  BY DEF StartInsert
<1>2. /\ \A u \in Thread : Configured(u)' = Configured(u) /\ Owned(u)' = Owned(u)
      /\ ConfigInv'
  BY <1>1, OwnedFrame DEF SetupPc, MemInv
<1>3. NoTableInv' /\ DisjointInv' /\ ClearInv'
  BY <1>1, <1>2 DEF MemInv, NoTableInv, DisjointInv, ClearInv, ConfigPc, ZeroPc, SetupPc
<1>4. ContentInv'
  <2> SUFFICES ASSUME NEW u \in Thread \ mixed, Configured(u)',
                      NEW s \in 0 .. depth[u] - 1, NEW x \in Slot
               PROVE  KeyWords(u, s, x)' /\ ValueWords(u, s, x)'
    BY <1>1 DEF ContentInv, TableWords
  <2>1. Configured(u) /\ TableWords(u)
    BY <1>1, <1>2 DEF MemInv, ContentInv, ZeroPc
  <2>2. KeyWords(u, s, x) /\ ValueWords(u, s, x) /\ ~Writing(u, s, x)
    BY <1>1, <2>1 DEF TableWords, Writing, InsertPc
  <2>3. /\ LastKey(u, s, x)' = LastKey(u, s, x)
        /\ LastValue(u, s, x)' = LastValue(u, s, x)
        /\ \A j : KeyBlock(u, s, j)' = KeyBlock(u, s, j) /\ ValueBlock(u, s, j)' = ValueBlock(u, s, j)
    BY <1>1 DEF LastKey, LastValue, KeyBlock, ValueBlock
  <2>4. \A j \in 0 .. KW - 1 : KeyPart(u, s, x, j)' = LastKey(u, s, x)'[j]
    BY <1>1, <2>2, <2>3 DEF KeyWords, KeyPart
  <2>5. \A j \in 0 .. VW - 1 :
          ValuePart(u, s, x, j, LastValue(u, s, x).len)' = LastValue(u, s, x)'.word[j]
    BY <1>1, <2>2, <2>3 DEF ValueWords, ValuePart
  <2>6. \A j \in 0 .. KW - 1 : ~(pc' = "put_val" \/ j < chunk')
    BY <1>1, SizeAssumption DEF SizeAssumption
  <2> QED
    BY <1>1, <2>4, <2>5, <2>6 DEF KeyWords, ValueWords
<1> QED
  BY <1>2, <1>3, <1>4 DEF MemInv

(* What an insert in progress leaves alone in the invariant: everything    *)
(* but the words of the tables.                                            *)
LEMMA PutFrame ==
    ASSUME TypeOK, HandlerInv, MemInv, pc \in InsertPc, pc' \in InsertPc \cup {"idle"},
           UNCHANGED <<no_table, depth, key_config, value_config, th, stale, mixed>>,
           NEW b \in Owned(th), NEW x \in Slot, NEW w,
           sram' = [sram EXCEPT ![b][x] = w],
           \A u \in Thread \ {th} : last'[u] = last[u]
    PROVE  /\ \A u \in Thread : Configured(u)' = Configured(u) /\ Owned(u)' = Owned(u)
           /\ Configured(th)
           /\ NoTableInv' /\ ConfigInv' /\ DisjointInv' /\ ClearInv'
           /\ \A u \in Thread \ {th} : Configured(u) /\ u \notin mixed => TableWords(u)'
<1>1. /\ \A u \in Thread : Configured(u)' = Configured(u) /\ Owned(u)' = Owned(u)
      /\ ConfigInv'
  BY OwnedFrame DEF SetupPc, InsertPc, MemInv
<1>2. Configured(th) /\ th \in Thread /\ Owned(th) \subseteq Block
  BY UsedAreBlocks DEF Configured, HandlerInv, InsertPc, TypeOK
<1>3. NoTableInv' /\ DisjointInv'
  BY <1>1 DEF MemInv, NoTableInv, DisjointInv, ConfigPc, ZeroPc, SetupPc, InsertPc
<1>4. \A c \in Block : c # b => sram'[c] = sram[c]
  BY DEF TypeOK
<1>5. ClearInv'
  <2>1. ASSUME NEW c \in Block \ stale', \A t \in Thread : c \notin Owned(t)'
        PROVE  sram'[c] = ZeroBlock
    <3>1. c # b /\ \A t \in Thread : c \notin Owned(t)
      BY <1>1, <1>2, <2>1
    <3> QED
      BY <1>4, <3>1 DEF MemInv, ClearInv
  <2>2. \A t \in Thread : ~Configured(t)' => last'[t] = [s \in Block |-> [y \in Slot |-> NoEntry]]
    BY <1>1, <1>2 DEF MemInv, ClearInv
  <2> QED
    BY <2>1, <2>2 DEF ClearInv, InsertPc
<1>6. ASSUME NEW u \in Thread \ {th}, Configured(u), u \notin mixed
      PROVE  TableWords(u)'
  <2>1. TableWords(u)
    BY <1>6 DEF MemInv, ContentInv
  <2>2. \A c \in Owned(u) : sram'[c] = sram[c]
    <3>1. Owned(u) \cap Owned(th) = {} /\ Owned(u) \subseteq Block
      BY <1>2, <1>6, UsedAreBlocks DEF MemInv, DisjointInv
    <3> QED
      BY <1>4, <3>1
  <2> QED
    BY <1>6, <2>1, <2>2, TableFrame
<1> QED
  BY <1>1, <1>2, <1>3, <1>5, <1>6

(* Writing a word of a key changes the cell of the entry and nothing else. *)
LEMMA PutKeyMem ==
    ASSUME TypeOK, HandlerInv, MemInv, PutKey
    PROVE  MemInv'
<1> USE DEF memVars, cfgVars, shareVars
<1>1. PICK q \in Thread : q = th
  BY DEF TypeOK
<1>2. depth[q] # 0 /\ chunk \in 0 .. KW - 1 /\ pc = "put_key"
  BY <1>1 DEF PutKey, HandlerInv
<1>3. PICK c \in 0 .. KW - 1 : c = chunk
  BY <1>2
<1>4. PICK ks \in 0 .. depth[q] - 1, kx \in Slot : ks = KeySlice /\ kx = KeySlot
  BY <1>1, <1>2, EntryCell
<1>5. PICK b : b = KeyBlock(q, ks, c)
  OBVIOUS
<1>6. /\ UNCHANGED <<no_table, depth, key_config, value_config, th, ent, last, stale, mixed>>
      /\ sram' = [sram EXCEPT ![b][kx] = Splice(sram[b][kx], ent.key[c], KeyBits, c)]
      /\ \/ chunk' = c + 1 /\ pc' = "put_key"
         \/ c = KW - 1 /\ chunk' = 0 /\ pc' = "put_val"
  BY <1>1, <1>2, <1>3, <1>4, <1>5, SizeAssumption DEF PutKey, SizeAssumption
<1>7. Configured(q)
  BY <1>1, <1>2 DEF Configured
<1>8. b \in Owned(q) /\ b \in Block
  BY <1>4, <1>5, <1>7, OwnBlocks, UsedAreBlocks
<1>9. /\ \A u \in Thread : Configured(u)' = Configured(u) /\ Owned(u)' = Owned(u)
      /\ NoTableInv' /\ ConfigInv' /\ DisjointInv' /\ ClearInv'
      /\ \A u \in Thread \ {q} : Configured(u) /\ u \notin mixed => TableWords(u)'
  BY <1>1, <1>2, <1>6, <1>8, PutFrame DEF InsertPc
<1>10. ASSUME q \notin mixed, NEW s \in 0 .. depth[q] - 1, NEW x \in Slot
       PROVE  KeyWords(q, s, x)' /\ ValueWords(q, s, x)'
  <2>1. KeyWords(q, s, x) /\ ValueWords(q, s, x)
    BY <1>2, <1>7, <1>10 DEF MemInv, ContentInv, TableWords, ZeroPc
  <2>2. /\ Writing(q, s, x) <=> s = ks /\ x = kx
        /\ Writing(q, s, x)' <=> s = ks /\ x = kx
    BY <1>1, <1>2, <1>4, <1>6 DEF Writing, InsertPc, KeySlice, KeySlot
  <2>3. /\ LastKey(q, s, x)' = LastKey(q, s, x)
        /\ LastValue(q, s, x)' = LastValue(q, s, x)
        /\ \A j : KeyBlock(q, s, j)' = KeyBlock(q, s, j) /\ ValueBlock(q, s, j)' = ValueBlock(q, s, j)
    BY <1>6 DEF LastKey, LastValue, KeyBlock, ValueBlock
  <2>4. /\ \A j \in 0 .. KW - 1 : KeyBlock(q, s, j) = b => s = ks /\ j = c
        /\ \A j \in 0 .. VW - 1 : ValueBlock(q, s, j) # b
    BY <1>4, <1>5, <1>7, DistinctBlocks DEF MemInv
  <2>5. /\ \A j \in 0 .. KW - 1 : KeyBlock(q, s, j) \in Block
        /\ \A j \in 0 .. VW - 1 : ValueBlock(q, s, j) \in Block
    BY <1>2, BlocksLocated
  <2>6. /\ \A d \in Block : d # b => sram'[d] = sram[d]
        /\ x # kx => sram'[b][x] = sram[b][x]
        /\ sram'[b][kx] \cap Copied(KeyBits, c) = ent.key[c]
    <3>1. /\ \A d \in Block : d # b => sram'[d] = sram[d]
          /\ x # kx => sram'[b][x] = sram[b][x]
          /\ sram'[b][kx] = Splice(sram[b][kx], ent.key[c], KeyBits, c)
      BY <1>6, <1>8 DEF TypeOK
    <3>2. sram[b][kx] \in Word /\ ent.key[c] \in SUBSET Copied(KeyBits, c)
      BY <1>8, EntryWords DEF TypeOK
    <3> QED
      BY <3>1, <3>2, SpliceCut
  <2>7. ValueWords(q, s, x)'
    <3>1. \A j \in 0 .. VW - 1 : sram'[ValueBlock(q, s, j)'][x] = sram[ValueBlock(q, s, j)][x]
      BY <2>3, <2>4, <2>5, <2>6
    <3>2. \A j \in 0 .. VW - 1 : ~(pc' = "put_val" /\ j < chunk')
      BY <1>6, SizeAssumption DEF SizeAssumption
    <3> QED
      BY <2>1, <2>2, <2>3, <3>1, <3>2 DEF ValueWords, ValuePart
  <2>8. KeyWords(q, s, x)'
    <3> SUFFICES ASSUME NEW j \in 0 .. KW - 1
                 PROVE  /\ ~Writing(q, s, x)' => KeyPart(q, s, x, j)' = LastKey(q, s, x)'[j]
                        /\ Writing(q, s, x)' /\ (pc' = "put_val" \/ j < chunk') =>
                              KeyPart(q, s, x, j)' = ent'.key[j]
      BY DEF KeyWords
    <3>1. CASE ~Writing(q, s, x)'
      <4>1. sram'[KeyBlock(q, s, j)][x] = sram[KeyBlock(q, s, j)][x]
        BY <2>2, <2>4, <2>5, <2>6, <3>1
      <4> QED
        BY <2>1, <2>2, <2>3, <3>1, <4>1 DEF KeyWords, KeyPart
    <3>2. CASE Writing(q, s, x)' /\ (pc' = "put_val" \/ j < chunk')
      <4>1. CASE j = c
        BY <1>5, <1>6, <2>2, <2>3, <2>6, <3>2, <4>1 DEF KeyPart
      <4>2. CASE j # c
        <5>1. j < chunk
          BY <1>3, <1>6, <3>2, <4>2, SizeAssumption DEF SizeAssumption
        <5>2. KeyPart(q, s, x, j) = ent.key[j]
          BY <2>1, <2>2, <3>2, <5>1 DEF KeyWords
        <5>3. KeyBlock(q, s, j) \in Block /\ KeyBlock(q, s, j) # b
          BY <2>4, <2>5, <4>2
        <5>4. sram'[KeyBlock(q, s, j)] = sram[KeyBlock(q, s, j)]
          BY <2>6, <5>3
        <5> QED
          BY <1>6, <2>3, <3>2, <5>2, <5>4 DEF KeyPart
      <4> QED
        BY <4>1, <4>2
    <3> QED
      BY <3>1, <3>2
  <2> QED
    BY <2>7, <2>8
<1>11. ContentInv'
  BY <1>6, <1>9, <1>10 DEF ContentInv, TableWords
<1> QED
  BY <1>9, <1>11 DEF MemInv

(* Writing a word of a value changes the cell of the entry and nothing     *)
(* else; after the last one the cell holds the entry.                      *)
LEMMA PutValueMem ==
    ASSUME TypeOK, HandlerInv, MemInv, PutValue
    PROVE  MemInv'
<1> USE DEF memVars, cfgVars, shareVars
<1>1. PICK q \in Thread : q = th
  BY DEF TypeOK
<1>2. depth[q] # 0 /\ chunk \in 0 .. VW - 1 /\ pc = "put_val"
  BY <1>1 DEF PutValue, HandlerInv
<1>3. PICK c \in 0 .. VW - 1 : c = chunk
  BY <1>2
<1>4. PICK ks \in 0 .. depth[q] - 1, kx \in Slot : ks = KeySlice /\ kx = KeySlot
  BY <1>1, <1>2, EntryCell
<1>5. PICK b : b = ValueBlock(q, ks, c)
  OBVIOUS
<1>6. /\ UNCHANGED <<no_table, depth, key_config, value_config, th, stale, mixed>>
      /\ sram' = [sram EXCEPT ![b][kx] =
                    Splice(sram[b][kx], ent.value.word[c], ent.value.len, c)]
      /\ \/ chunk' = c + 1 /\ pc' = "put_val" /\ last' = last /\ ent' = ent
         \/ /\ c = VW - 1 /\ pc' = "idle"
            /\ last' = [last EXCEPT ![q][ks][kx] = ent]
  BY <1>1, <1>2, <1>3, <1>4, <1>5, SizeAssumption DEF PutValue, SizeAssumption
<1>7. Configured(q)
  BY <1>1, <1>2 DEF Configured
<1>8. b \in Owned(q) /\ b \in Block /\ ks \in Block
  <2>1. depth[q] \in 0 .. NB
    BY DEF TypeOK, Depth
  <2>2. ks \in Block
    BY <1>4, <2>1, SizeAssumption DEF Block, SizeAssumption
  <2> QED
    BY <1>4, <1>5, <1>7, <2>2, OwnBlocks, UsedAreBlocks
<1>9. /\ \A u \in Thread : Configured(u)' = Configured(u) /\ Owned(u)' = Owned(u)
      /\ NoTableInv' /\ ConfigInv' /\ DisjointInv' /\ ClearInv'
      /\ \A u \in Thread \ {q} : Configured(u) /\ u \notin mixed => TableWords(u)'
  <2>1. \A u \in Thread \ {th} : last'[u] = last[u]
    BY <1>1, <1>6 DEF TypeOK
  <2> QED
    BY <1>1, <1>2, <1>6, <1>8, <2>1, PutFrame DEF InsertPc
<1>10. ASSUME q \notin mixed, NEW s \in 0 .. depth[q] - 1, NEW x \in Slot
       PROVE  KeyWords(q, s, x)' /\ ValueWords(q, s, x)'
  <2>1. KeyWords(q, s, x) /\ ValueWords(q, s, x)
    BY <1>2, <1>7, <1>10 DEF MemInv, ContentInv, TableWords, ZeroPc
  <2>2. Writing(q, s, x) <=> s = ks /\ x = kx
    BY <1>1, <1>2, <1>4 DEF Writing, InsertPc
  <2>3. \A j : KeyBlock(q, s, j)' = KeyBlock(q, s, j) /\ ValueBlock(q, s, j)' = ValueBlock(q, s, j)
    BY <1>6 DEF KeyBlock, ValueBlock
  <2>4. /\ \A j \in 0 .. VW - 1 : ValueBlock(q, s, j) = b => s = ks /\ j = c
        /\ \A j \in 0 .. KW - 1 : KeyBlock(q, s, j) # b
    BY <1>4, <1>5, <1>7, DistinctBlocks DEF MemInv
  <2>5. /\ \A j \in 0 .. KW - 1 : KeyBlock(q, s, j) \in Block
        /\ \A j \in 0 .. VW - 1 : ValueBlock(q, s, j) \in Block
    BY <1>2, BlocksLocated
  <2>6. /\ \A d \in Block : d # b => sram'[d] = sram[d]
        /\ x # kx => sram'[b][x] = sram[b][x]
        /\ sram'[b][kx] \cap Copied(ent.value.len, c) = ent.value.word[c]
    <3>1. /\ \A d \in Block : d # b => sram'[d] = sram[d]
          /\ x # kx => sram'[b][x] = sram[b][x]
          /\ sram'[b][kx] = Splice(sram[b][kx], ent.value.word[c], ent.value.len, c)
      BY <1>6, <1>8 DEF TypeOK
    <3>2. sram[b][kx] \in Word /\ ent.value.word[c] \in SUBSET Copied(ent.value.len, c)
      BY <1>8, EntryWords DEF TypeOK
    <3> QED
      BY <3>1, <3>2, SpliceCut
  <2>7. \A j \in 0 .. KW - 1 : sram'[KeyBlock(q, s, j)'][x] = sram[KeyBlock(q, s, j)][x]
    BY <2>3, <2>4, <2>5, <2>6
  <2>8. ASSUME NEW j \in 0 .. VW - 1, j # c \/ ~Writing(q, s, x)
        PROVE  sram'[ValueBlock(q, s, j)'][x] = sram[ValueBlock(q, s, j)][x]
    BY <2>2, <2>3, <2>4, <2>5, <2>6, <2>8
  <2>9. CASE ~Writing(q, s, x)
    <3>1. ~Writing(q, s, x)'
      BY <1>1, <1>2, <1>4, <1>6, <2>2, <2>9 DEF Writing, InsertPc, KeySlice, KeySlot
    <3>2. last'[q][s][x] = last[q][s][x]
      <4>1. depth[q] \in 0 .. NB
        BY DEF TypeOK, Depth
      <4>2. s \in Block
        BY <4>1, SizeAssumption DEF Block, SizeAssumption
      <4> QED
        BY <1>6, <1>8, <2>2, <2>9, <4>2 DEF TypeOK
    <3>3. LastKey(q, s, x)' = LastKey(q, s, x) /\ LastValue(q, s, x)' = LastValue(q, s, x)
      BY <3>2 DEF LastKey, LastValue
    <3> QED
      BY <2>1, <2>7, <2>8, <2>9, <3>1, <3>3 DEF KeyWords, ValueWords, KeyPart, ValuePart
  <2>10. CASE Writing(q, s, x)
    <3>1. \A j \in 0 .. KW - 1 : KeyPart(q, s, x, j)' = ent.key[j]
      BY <1>2, <2>1, <2>7, <2>10 DEF KeyWords, KeyPart
    <3>2. \A j \in 0 .. VW - 1 : j <= c =>
             sram'[ValueBlock(q, s, j)'][x] \cap Copied(ent.value.len, j) = ent.value.word[j]
      <4> SUFFICES ASSUME NEW j \in 0 .. VW - 1, j <= c
                   PROVE  sram'[ValueBlock(q, s, j)'][x] \cap Copied(ent.value.len, j)
                            = ent.value.word[j]
        OBVIOUS
      <4>1. CASE j = c
        BY <1>5, <2>2, <2>3, <2>6, <2>10, <4>1
      <4>2. CASE j # c
        <5>1. j < chunk
          BY <1>3, <4>2, SizeAssumption DEF SizeAssumption
        <5>2. sram[ValueBlock(q, s, j)][x] \cap Copied(ent.value.len, j) = ent.value.word[j]
          BY <1>2, <2>1, <2>10, <5>1 DEF ValueWords, ValuePart
        <5> QED
          BY <2>8, <4>2, <5>2
      <4> QED
        BY <4>1, <4>2
    <3>3. CASE chunk' = c + 1 /\ pc' = "put_val" /\ last' = last /\ ent' = ent
      <4>1. Writing(q, s, x)'
        BY <1>1, <1>4, <1>6, <2>2, <2>10, <3>3 DEF Writing, InsertPc, KeySlice, KeySlot
      <4>2. \A j \in 0 .. VW - 1 : j < chunk' => j <= c
        BY <3>3, SizeAssumption DEF SizeAssumption
      <4> QED
        BY <3>1, <3>2, <3>3, <4>1, <4>2 DEF KeyWords, ValueWords, ValuePart
    <3>4. CASE c = VW - 1 /\ pc' = "idle" /\ last' = [last EXCEPT ![q][ks][kx] = ent]
      <4>1. ~Writing(q, s, x)'
        BY <3>4 DEF Writing, InsertPc
      <4>2. last'[q][s][x] = ent /\ ent # NoEntry
        BY <1>8, <2>2, <2>10, <3>4, RequestAssumption DEF TypeOK, RequestAssumption
      <4>3. LastKey(q, s, x)' = ent.key /\ LastValue(q, s, x)' = ent.value
        BY <4>2 DEF LastKey, LastValue
      <4>4. \A j \in 0 .. VW - 1 : j <= c
        BY <3>4, SizeAssumption DEF SizeAssumption
      <4> QED
        BY <3>1, <3>2, <4>1, <4>3, <4>4 DEF KeyWords, ValueWords, ValuePart
    <3> QED
      BY <1>6, <3>3, <3>4
  <2> QED
    BY <2>9, <2>10
<1>11. ContentInv'
  BY <1>6, <1>9, <1>10 DEF ContentInv, TableWords
<1> QED
  BY <1>9, <1>11 DEF MemInv

(* A ternary table that writes a block makes the block stale and its       *)
(* owners mixed.                                                           *)
LEMMA TernaryMem ==
    ASSUME TypeOK, MemInv, pc = "idle", NEW b \in Block, TernaryMeets(b),
           \A c \in Block \ {b} : sram'[c] = sram[c],
           UNCHANGED <<cfgVars, rpcVars, last>>
    PROVE  MemInv'
<1> USE DEF cfgVars, rpcVars
<1>1. /\ \A u \in Thread : Configured(u)' = Configured(u) /\ Owned(u)' = Owned(u)
      /\ ConfigInv'
  BY OwnedFrame DEF SetupPc, MemInv
<1>2. /\ stale' = stale \cup {b} /\ mixed \subseteq mixed'
      /\ \A u \in Thread \ mixed' : b \notin Owned(u)
  BY DEF TernaryMeets
<1>3. NoTableInv' /\ DisjointInv'
  BY <1>1, <1>2 DEF MemInv, NoTableInv, DisjointInv, ConfigPc, ZeroPc
<1>4. ClearInv'
  <2>1. ASSUME NEW c \in Block \ stale', \A t \in Thread : c \notin Owned(t)'
        PROVE  sram'[c] = ZeroBlock
    BY <1>1, <1>2, <2>1 DEF MemInv, ClearInv
  <2>2. \A t \in Thread : ~Configured(t)' => last'[t] = [s \in Block |-> [x \in Slot |-> NoEntry]]
    BY <1>1 DEF MemInv, ClearInv
  <2> QED
    BY <2>1, <2>2 DEF ClearInv
<1>5. ContentInv'
  <2> SUFFICES ASSUME NEW u \in Thread \ mixed', Configured(u)'
               PROVE  TableWords(u)'
    BY DEF ContentInv
  <2>1. Configured(u) /\ TableWords(u) /\ u \notin mixed
    BY <1>1, <1>2 DEF MemInv, ContentInv, ZeroPc
  <2>2. \A c \in Owned(u) : sram'[c] = sram[c]
    BY <1>2, UsedAreBlocks
  <2> QED
    BY <2>1, <2>2, TableFrame DEF InsertPc
<1> QED
  BY <1>1, <1>3, <1>4, <1>5 DEF MemInv

(* What the handlers of ternary tables do keeps MemInv.                    *)
LEMMA TernaryStepMem ==
    ASSUME TypeOK, MemInv, NEW b \in TernaryBlock,
           \/ \E x \in Slot, w \in TernaryWord : TernaryInsert(b, x, w)
           \/ TernaryClear(b)
    PROVE  MemInv'
<1>1. b \in Block
  BY WordAssumption DEF WordAssumption
<1>2. pc = "idle" /\ TernaryMeets(b) /\ UNCHANGED <<cfgVars, rpcVars, last>>
  BY DEF TernaryInsert, TernaryClear
<1>3. \A c \in Block \ {b} : sram'[c] = sram[c]
  BY DEF TernaryInsert, TernaryClear, TypeOK
<1> QED
  BY <1>1, <1>2, <1>3, TernaryMem

(* Every step that leaves the process alive keeps MemInv.                  *)
LEMMA MemStep ==
    ASSUME TypeOK, HandlerInv, pc # "dead" => MemInv, [Next]_vars, pc' # "dead"
    PROVE  pc # "dead" /\ MemInv'
<1> USE DEF memVars, cfgVars, rpcVars
<1>1. CASE UNCHANGED vars
  BY <1>1, MemFrame DEF vars
<1>2. CASE Handler
  <2>1. pc # "dead"
    BY <1>2 DEF Handler, StartConfig, ZeroKeyBlocks, ZeroValueBlocks, ZeroConfig, SetTable,
                SetDepth, SetKeyConfig, SetValueConfig, LinkBlocks, SetMissAction, SetFieldInfo,
                SetMissActId, SetNoTable, StartInsert, PutKey, PutValue, PutShort,
                TernaryInsert, TernaryClear
  <2>2. ~PutShort /\ Paused \subseteq Thread
    BY WordAssumption DEF PutShort, WordAssumption
  <2> QED
    BY <1>2, <2>1, <2>2, StartConfigMem, ZeroKeyBlocksMem, ZeroValueBlocksMem, ZeroConfigMem,
       SetTableMem, SetValueConfigMem, IdleMem, StartInsertMem, PutKeyMem, PutValueMem,
       TernaryStepMem
       DEF Handler
<1>3. CASE Packet
  <2>1. UNCHANGED <<memVars, cfgVars, th, req, ent, chunk, last, shareVars>> /\ pc' = pc
    BY <1>3 DEF Packet, Execute, GenerateKey, Locate, ReadKey, ReadValue, Compare, Return
  <2> QED
    BY <2>1, MemFrame
<1> QED
  BY <1>1, <1>2, <1>3 DEF Next

(* TableExact is what MemInv says of a table that no handler works on.     *)
LEMMA TableExactFromMem ==
    ASSUME TypeOK, pc # "dead" => MemInv
    PROVE  TableExact
<1> SUFFICES ASSUME NEW t \in Thread \ mixed, pc # "dead", depth[t] # 0, ~(th = t /\ pc # "idle"),
                    NEW s \in 0 .. depth[t] - 1, NEW x \in Slot
             PROVE  /\ HoldsKey(t, s, x, LastKey(t, s, x))
                    /\ HoldsValue(t, s, x, LastValue(t, s, x))
  BY DEF TableExact
<1>1. Configured(t) /\ ~(th = t /\ pc \in ZeroPc) /\ ~Writing(t, s, x)
  BY DEF Configured, ZeroPc, Writing, InsertPc
<1> QED
  BY <1>1 DEF MemInv, ContentInv, TableWords, KeyWords, ValueWords, KeyPart, ValuePart,
              HoldsKey, HoldsValue

(* Every table that has its blocks to itself holds exactly what was        *)
(* inserted into it, whatever tables its blocks served before, alone or    *)
(* together, and whatever the handlers do to the other tables of the       *)
(* cluster.                                                                *)
THEOREM TablesAreExact == Spec => []TableExact
<1> DEFINE I == TypeOK /\ HandlerInv /\ (pc # "dead" => MemInv)
<1>1. Init => I
  BY TypeInit, MemInit
<1>2. I /\ [Next]_vars => I'
  BY TypeStep, MemStep
<1>3. I => TableExact
  BY TableExactFromMem
<1> QED
  BY <1>1, <1>2, <1>3, PTL DEF Spec

(* A block that the last of its tables has given up is clear, whoever      *)
(* shared it and in whatever order they gave it up: all that can show      *)
(* through in a new table is a table that still has the block, or a        *)
(* ternary one.                                                            *)
THEOREM FreeBlocksAreClear == Spec => []FreeBlocksClear
<1> DEFINE I == TypeOK /\ HandlerInv /\ (pc # "dead" => MemInv)
<1>1. Init => I
  BY TypeInit, MemInit
<1>2. I /\ [Next]_vars => I'
  BY TypeStep, MemStep
<1>3. I => FreeBlocksClear
  BY DEF FreeBlocksClear, MemInv, ClearInv
<1> QED
  BY <1>1, <1>2, <1>3, PTL DEF Spec

-----------------------------------------------------------------------------
(***************************************************************************)
(* The lookup.  A lookup that is quiet has met no change of its cell, so   *)
(* what it read in earlier steps is still what the cell holds.             *)
(***************************************************************************)

(* A handler's step that leaves the configuration and the cell of the      *)
(* running lookup alone.                                                   *)
LEMMA LookupFrame ==
    ASSUME LookupInv, quiet' => quiet, UNCHANGED pktVars,
           quiet' /\ pp # "idle" =>
             /\ ~Touches(pt, pk)'
             /\ pt \in mixed => pt \in mixed'
             /\ no_table'[pt] = no_table[pt] /\ depth'[pt] = depth[pt]
             /\ key_config'[pt] = key_config[pt] /\ value_config'[pt] = value_config[pt]
             /\ fdInfos'[pt] = fdInfos[pt] /\ miss_act_id'[pt] = miss_act_id[pt]
             /\ ~no_table[pt] =>
                  last'[pt][LookupSlice][LookupSlot] = last[pt][LookupSlice][LookupSlot]
    PROVE  LookupInv'
<1> SUFFICES ASSUME quiet', pp # "idle"
             PROVE  LookupInv'
  BY DEF LookupInv, pktVars
<1> USE DEF pktVars
<1>1. quiet /\ LookupSum' = LookupSum /\ LookupSlice' = LookupSlice /\ LookupSlot' = LookupSlot
  BY DEF LookupSum, LookupSlice, LookupSlot, SearchSum, SliceOf, SlotOf
<1>2. /\ \A j : KeyBlock(pt, LookupSlice, j)' = KeyBlock(pt, LookupSlice, j)
      /\ \A j : ValueBlock(pt, LookupSlice, j)' = ValueBlock(pt, LookupSlice, j)
  BY <1>1 DEF KeyBlock, ValueBlock
<1>3. ~no_table[pt] => /\ LastKey(pt, LookupSlice, LookupSlot)' = LastKey(pt, LookupSlice, LookupSlot)
                       /\ LastValue(pt, LookupSlice, LookupSlot)' = LastValue(pt, LookupSlice, LookupSlot)
  BY <1>1 DEF LastKey, LastValue
<1>4. QuietExact'
  BY <1>1, <1>3 DEF LookupInv, QuietExact, LookupSum, LookupSlice, LookupSlot
<1> QED
  BY <1>1, <1>2, <1>3, <1>4 DEF LookupInv

(* The insert in progress writes another cell than a quiet lookup reads.   *)
LEMMA OtherCell ==
    ASSUME ~Touches(pt, pk), pc \in InsertPc, th = pt
    PROVE  ~(KeySlice = LookupSlice /\ KeySlot = LookupSlot)
  BY DEF Touches, SameCell, KeySlice, KeySlot, LookupSum, LookupSlice, LookupSlot

(* Recording an entry in one cell keeps the history of the others.         *)
LEMMA OtherCellKept ==
    ASSUME NEW V, NEW f \in [Thread -> [Block -> [Slot -> V]]], NEW e,
           NEW t \in Thread, NEW s \in Block, NEW x \in Slot,
           NEW r \in Block, NEW y \in Slot, ~(s = r /\ x = y)
    PROVE  [f EXCEPT ![t][s][x] = e][t][r][y] = f[t][r][y]
<1>1. CASE s # r
  BY <1>1
<1>2. CASE s = r /\ x # y
  BY <1>2
<1> QED
  BY <1>1, <1>2

(* The steps of the handlers keep what a quiet lookup has read up to date, *)
(* or end its being quiet.                                                 *)
LEMMA HandlerLookup ==
    ASSUME TypeOK, HandlerInv, LookupInv, Handler, pc' # "dead"
    PROVE  LookupInv'
<1> USE DEF memVars, cfgVars, rpcVars, shareVars
<1>1. ASSUME NEW t \in Thread, NEW r \in Request \cup {NoRequest}, StartConfig(t, r)
      PROVE  LookupInv'
  BY <1>1, LookupFrame DEF StartConfig, TypeOK, Touches, pktVars
<1>2. ASSUME pc \in ConfigPc, th' = th, quiet' = quiet, UNCHANGED pktVars,
             pc' \in ConfigPc \cup {"idle"},
             \A u \in Thread \ {th} :
                /\ no_table'[u] = no_table[u] /\ depth'[u] = depth[u]
                /\ key_config'[u] = key_config[u] /\ value_config'[u] = value_config[u]
                /\ fdInfos'[u] = fdInfos[u] /\ miss_act_id'[u] = miss_act_id[u]
                /\ last'[u] = last[u] /\ (u \in mixed => u \in mixed')
      PROVE  LookupInv'
  <2>1. quiet' /\ pp # "idle" => pt \in Thread \ {th}
    BY <1>2 DEF LookupInv, Touches, TypeOK
  <2>2. quiet' /\ pp # "idle" => ~Touches(pt, pk)'
    BY <1>2, <2>1 DEF Touches, pktVars
  <2> QED
    BY <1>2, <2>1, <2>2, LookupFrame
<1>3. CASE ZeroKeyBlocks \/ ZeroValueBlocks
  BY <1>2, <1>3 DEF ZeroKeyBlocks, ZeroValueBlocks, ConfigPc
<1>4. CASE ZeroConfig
  BY <1>2, <1>4 DEF ZeroConfig, ConfigPc, TypeOK
<1>5. CASE SetTable \/ SetDepth
  BY <1>2, <1>5 DEF SetTable, SetDepth, ConfigPc, TypeOK
<1>6. CASE SetKeyConfig \/ SetValueConfig
  BY <1>2, <1>6 DEF SetKeyConfig, SetValueConfig, ConfigPc, TypeOK
<1>7. CASE LinkBlocks \/ SetMissAction
  BY <1>2, <1>7 DEF LinkBlocks, SetMissAction, ConfigPc, TypeOK
<1>8. ASSUME NEW t \in Thread, SetFieldInfo(t)
      PROVE  LookupInv'
  BY <1>8, LookupFrame DEF SetFieldInfo, TypeOK, Touches, pktVars, ConfigPc, InsertPc
<1>9. ASSUME NEW t \in Thread, NEW a \in Action, SetMissActId(t, a)
      PROVE  LookupInv'
  BY <1>9, LookupFrame DEF SetMissActId, TypeOK, Touches, pktVars, ConfigPc, InsertPc
<1>9a. ASSUME NEW t \in Paused, NEW b \in BOOLEAN, SetNoTable(t, b)
       PROVE  LookupInv'
  BY <1>9a, LookupFrame DEF SetNoTable, TypeOK, Touches, pktVars, ConfigPc, InsertPc
<1>10. ASSUME NEW t \in Thread, NEW k \in TableKey, NEW v \in TableValue, StartInsert(t, k, v)
       PROVE  LookupInv'
  <2>1. quiet' /\ pp # "idle" => ~Touches(pt, pk)'
    <3>1. pc' = "put_key" /\ th' = t /\ ent'.key = k /\ UNCHANGED <<depth, fdInfos, pt, pk>>
      BY <1>10 DEF StartInsert, pktVars
    <3>2. quiet' /\ pp # "idle" => ~(pt = t /\ SameCell(t, k, pk))
      BY <1>10 DEF StartInsert
    <3> QED
      BY <3>1, <3>2 DEF Touches, SameCell, ConfigPc, InsertPc
  <2> QED
    BY <1>10, <2>1, LookupFrame DEF StartInsert
<1>11. CASE PutKey
  <2>1. Touches(pt, pk)' = Touches(pt, pk)
    BY <1>11 DEF PutKey, Touches, SameCell, pktVars, ConfigPc, InsertPc
  <2>2. UNCHANGED <<cfgVars, pktVars, last, quiet, shareVars>>
    BY <1>11 DEF PutKey
  <2> QED
    BY <2>1, <2>2, LookupFrame DEF LookupInv
<1>12. CASE PutValue
  <2>1. Touches(pt, pk)' => Touches(pt, pk)
    BY <1>12 DEF PutValue, Touches, SameCell, pktVars, ConfigPc, InsertPc
  <2>2. UNCHANGED <<cfgVars, pktVars, quiet, shareVars>> /\ pc \in InsertPc
    BY <1>12 DEF PutValue, InsertPc
  <2>3. quiet' /\ pp # "idle" =>
          last'[pt][LookupSlice][LookupSlot] = last[pt][LookupSlice][LookupSlot]
    <3> SUFFICES ASSUME quiet, pp # "idle"
                 PROVE  last'[pt][LookupSlice][LookupSlot] = last[pt][LookupSlice][LookupSlot]
      BY <2>2
    <3>1. th = pt => ~(KeySlice = LookupSlice /\ KeySlot = LookupSlot)
      BY <2>2, OtherCell DEF LookupInv
    <3>2. pt \in Thread /\ th \in Thread /\ KeySlice \in Block /\ KeySlot \in Slot
      <4>1. KeySlice \in 0 .. depth[th] - 1 /\ KeySlot \in Slot
        BY <2>2, EntryCell DEF HandlerInv, InsertPc
      <4>2. depth[th] \in 0 .. NB
        BY DEF TypeOK, Depth
      <4> QED
        BY <4>1, <4>2, SizeAssumption DEF TypeOK, Block, SizeAssumption
    <3>3. last' = last \/ last' = [last EXCEPT ![th][KeySlice][KeySlot] = ent]
      BY <1>12 DEF PutValue
    <3>4. CASE th # pt
      <4>1. last'[pt] = last[pt]
        BY <3>2, <3>3, <3>4 DEF TypeOK
      <4> QED
        BY <4>1
    <3>5. CASE th = pt
      <4>1. depth[pt] # 0
        BY <2>2, <3>5 DEF HandlerInv, InsertPc
      <4>2. LookupSlice \in 0 .. depth[pt] - 1 /\ LookupSlot \in Slot
        BY <4>1, SearchCell DEF TypeOK, LookupSum, LookupSlice, LookupSlot
      <4>3. depth[pt] \in 0 .. NB
        BY DEF TypeOK, Depth
      <4>4. LookupSlice \in Block
        BY <4>2, <4>3, SizeAssumption DEF Block, SizeAssumption
      <4>5. [last EXCEPT ![th][KeySlice][KeySlot] = ent][th][LookupSlice][LookupSlot]
              = last[th][LookupSlice][LookupSlot]
        <5>1. last \in [Thread -> [Block -> [Slot -> Entry \cup {NoEntry}]]]
          BY DEF TypeOK
        <5> QED
          BY <3>1, <3>2, <3>5, <4>2, <4>4, <5>1, OtherCellKept
      <4> QED
        BY <3>3, <3>5, <4>5
    <3> QED
      BY <3>4, <3>5
  <2> QED
    BY <2>1, <2>2, <2>3, LookupFrame DEF LookupInv
<1>13. ASSUME \/ \E b \in TernaryBlock, x \in Slot, w \in TernaryWord : TernaryInsert(b, x, w)
              \/ \E b \in TernaryBlock : TernaryClear(b)
       PROVE  LookupInv'
  <2>1. /\ UNCHANGED <<cfgVars, rpcVars, pktVars, last, quiet>>
        /\ mixed \subseteq mixed'
    BY <1>13 DEF TernaryInsert, TernaryClear, TernaryMeets
  <2>2. Touches(pt, pk)' = Touches(pt, pk)
    BY <2>1 DEF Touches, SameCell, pktVars
  <2> QED
    BY <2>1, <2>2, LookupFrame DEF LookupInv
<1>14. ~PutShort
  BY DEF PutShort
<1> QED
  BY <1>1, <1>3, <1>4, <1>5, <1>6, <1>7, <1>8, <1>9, <1>9a, <1>10, <1>11, <1>12, <1>13, <1>14
     DEF Handler

(* A quiet lookup finds a depth and pointers, and, in a table that has its *)
(* blocks to itself, the words of the last entry.                          *)
LEMMA QuietCell ==
    ASSUME TypeOK, MemInv, LinkInv, LookupInv, quiet, pp \notin {"idle", "done"}
    PROVE  /\ depth[pt] # 0 /\ linked[pt]
           /\ LookupSlice \in 0 .. depth[pt] - 1 /\ LookupSlot \in Slot
           /\ pt \notin mixed =>
                /\ \A j \in 0 .. KW - 1 :
                      KeyPart(pt, LookupSlice, LookupSlot, j)
                        = LastKey(pt, LookupSlice, LookupSlot)[j]
                /\ \A j \in 0 .. VW - 1 :
                      ValuePart(pt, LookupSlice, LookupSlot, j,
                                LastValue(pt, LookupSlice, LookupSlot).len)
                        = LastValue(pt, LookupSlice, LookupSlot).word[j]
           /\ LastKey(pt, LookupSlice, LookupSlot) \in Key
           /\ LastValue(pt, LookupSlice, LookupSlot) \in Value
<1>1. ~Touches(pt, pk) /\ ~no_table[pt] /\ pt \in Thread
  BY DEF LookupInv, TypeOK
<1>2. ~(th = pt /\ pc \in ConfigPc)
  BY <1>1 DEF Touches
<1>3. depth[pt] # 0
  BY <1>1, <1>2 DEF MemInv, NoTableInv
<1>4. LookupSlice \in 0 .. depth[pt] - 1 /\ LookupSlot \in Slot
  BY <1>3, SearchCell DEF TypeOK, LookupSum, LookupSlice, LookupSlot
<1>5. Configured(pt) /\ ~(th = pt /\ pc \in ZeroPc)
  BY <1>2, <1>3 DEF Configured, ConfigPc, ZeroPc
<1>6. ~Writing(pt, LookupSlice, LookupSlot)
  BY <1>1, OtherCell DEF Writing
<1>7. pt \notin mixed =>
        KeyWords(pt, LookupSlice, LookupSlot) /\ ValueWords(pt, LookupSlice, LookupSlot)
  BY <1>1, <1>4, <1>5 DEF MemInv, ContentInv, TableWords
<1>8. last[pt][LookupSlice][LookupSlot] \in Entry \cup {NoEntry}
  <2>1. depth[pt] \in 0 .. NB
    BY DEF TypeOK, Depth
  <2>2. LookupSlice \in Block
    BY <1>4, <2>1, SizeAssumption DEF Block, SizeAssumption
  <2> QED
    BY <1>1, <1>4, <2>2 DEF TypeOK
<1>9. /\ LastKey(pt, LookupSlice, LookupSlot) \in Key
      /\ LastValue(pt, LookupSlice, LookupSlot) \in Value
  BY <1>8, NullTypes DEF LastKey, LastValue, Entry
<1>10. linked[pt]
  BY <1>1, <1>2, <1>5 DEF LinkInv, ConfigPc
<1> QED
  BY <1>3, <1>4, <1>6, <1>7, <1>9, <1>10 DEF KeyWords, ValueWords

(* A step of a quiet lookup reads what the history says, and neither       *)
(* divides by zero nor follows a null pointer.                             *)
LEMMA PacketLookup ==
    ASSUME TypeOK, HandlerInv, MemInv, LinkInv, LookupInv, QuietNoCrash, pp # "dead", Packet
    PROVE  /\ pc' # "dead" => LookupInv'
           /\ QuietNoCrash'
<1> USE DEF memVars, cfgVars, rpcVars, shareVars
<1>1. ASSUME NEW t \in Thread, NEW k \in PacketKey, Execute(t, k)
      PROVE  LookupInv' /\ QuietNoCrash'
  <2>1. Touches(pt, pk)' <=> Touches(t, k)
    BY <1>1 DEF Execute, Touches, SameCell
  <2>2. QuietExact'
    BY <1>1 DEF Execute, QuietExact
  <2> QED
    BY <1>1, <2>1, <2>2 DEF Execute, LookupInv, QuietNoCrash
<1>2. ASSUME UNCHANGED <<memVars, cfgVars, rpcVars, pt, pk, last, shareVars, quiet>>
      PROVE  /\ Touches(pt, pk)' = Touches(pt, pk)
             /\ LookupSlice' = LookupSlice /\ LookupSlot' = LookupSlot
             /\ \A j : KeyBlock(pt, LookupSlice, j)' = KeyBlock(pt, LookupSlice, j)
             /\ \A j : ValueBlock(pt, LookupSlice, j)' = ValueBlock(pt, LookupSlice, j)
             /\ LastKey(pt, LookupSlice, LookupSlot)' = LastKey(pt, LookupSlice, LookupSlot)
             /\ LastValue(pt, LookupSlice, LookupSlot)' = LastValue(pt, LookupSlice, LookupSlot)
  <2>1. LookupSlice' = LookupSlice /\ LookupSlot' = LookupSlot
    BY <1>2 DEF LookupSum, LookupSlice, LookupSlot, SearchSum, SliceOf, SlotOf
  <2> QED
    BY <1>2, <2>1 DEF Touches, SameCell, KeyBlock, ValueBlock, LastKey, LastValue
<1>3. CASE GenerateKey
  BY <1>2, <1>3 DEF GenerateKey, LookupInv, QuietExact, QuietNoCrash
<1>4. CASE Locate
  <2>1. CASE depth[pt] = 0
    BY <1>4, <2>1, QuietCell DEF Locate, QuietNoCrash
  <2>2. CASE depth[pt] # 0
    <3>1. /\ UNCHANGED <<memVars, cfgVars, rpcVars, pt, pk, pf, last, shareVars, quiet>>
          /\ pp = "locate" /\ pp' = "read_key"
      BY <1>4, <2>2 DEF Locate
    <3>2. quiet => /\ \A j \in 0 .. KW - 1 : pkb'[j] = KeyBlock(pt, LookupSlice, j)
                   /\ \A j \in 0 .. VW - 1 : pvb'[j] = ValueBlock(pt, LookupSlice, j)
      BY <1>4, <2>2 DEF Locate, LookupInv, LookupSum, LookupSlice
    <3> QED
      BY <1>2, <3>1, <3>2 DEF LookupInv, QuietExact, QuietNoCrash
  <2> QED
    BY <2>1, <2>2
<1>5. CASE ReadKey
  <2>1. CASE ~linked[pt]
    BY <1>5, <2>1, QuietCell DEF ReadKey, QuietNoCrash
  <2>2. CASE linked[pt]
    <3>1. /\ UNCHANGED <<memVars, cfgVars, rpcVars, pt, pk, pf, pkb, pvb, last, shareVars, quiet>>
          /\ pp = "read_key" /\ pp' = "read_val"
      BY <1>5, <2>2 DEF ReadKey
    <3>2. quiet /\ pt \notin mixed => CutKey(out_key') = LastKey(pt, LookupSlice, LookupSlot)
      <4> SUFFICES ASSUME quiet, pt \notin mixed
                   PROVE  CutKey(out_key') = LastKey(pt, LookupSlice, LookupSlot)
        OBVIOUS
      <4>1. /\ \A j \in 0 .. KW - 1 : pkb[j] = KeyBlock(pt, LookupSlice, j)
            /\ SlotOf(SearchSum(pk, pf)) = LookupSlot
        BY <3>1 DEF LookupInv, LookupSum, LookupSlot
      <4>2. out_key' = [j \in 0 .. KW - 1 |-> sram[pkb[j]][LookupSlot]]
        BY <1>5, <2>2, <4>1 DEF ReadKey
      <4>3. \A j \in 0 .. KW - 1 : out_key'[j] \cap Copied(KeyBits, j)
                                     = LastKey(pt, LookupSlice, LookupSlot)[j]
        BY <3>1, <4>1, <4>2, QuietCell DEF KeyPart
      <4>4. LastKey(pt, LookupSlice, LookupSlot) \in KeyWord
        BY <3>1, QuietCell DEF Key
      <4> QED
        BY <4>3, <4>4 DEF CutKey, KeyWord
    <3> QED
      BY <1>2, <3>1, <3>2 DEF LookupInv, QuietExact, QuietNoCrash, CutKey
  <2> QED
    BY <2>1, <2>2
<1>6. CASE ReadValue
  <2>1. /\ UNCHANGED <<memVars, cfgVars, rpcVars, pt, pk, pf, pkb, pvb, out_key, last, shareVars, quiet>>
        /\ pp = "read_val" /\ pp' = "compare"
    BY <1>6 DEF ReadValue
  <2> DEFINE v == LastValue(pt, LookupSlice, LookupSlot)
  <2>2. quiet /\ pt \notin mixed => CutValue(out_value', v.len) = v
    <3> SUFFICES ASSUME quiet, pt \notin mixed PROVE CutValue(out_value', v.len) = v
      OBVIOUS
    <3>1. /\ \A j \in 0 .. VW - 1 : pvb[j] = ValueBlock(pt, LookupSlice, j)
          /\ SlotOf(SearchSum(pk, pf)) = LookupSlot
      BY <2>1 DEF LookupInv, LookupSum, LookupSlot
    <3>2. out_value' = [j \in 0 .. VW - 1 |-> sram[pvb[j]][LookupSlot]]
      BY <1>6, <3>1 DEF ReadValue
    <3>3. \A j \in 0 .. VW - 1 : out_value'[j] \cap Copied(v.len, j) = v.word[j]
      BY <2>1, <3>1, <3>2, QuietCell DEF ValuePart
    <3>4. v \in [word : ValueWord, len : Nat]
      BY <2>1, QuietCell DEF Value
    <3>5. [j \in 0 .. VW - 1 |-> out_value'[j] \cap Copied(v.len, j)] = v.word
      BY <3>3, <3>4 DEF ValueWord
    <3> QED
      BY <3>4, <3>5 DEF CutValue
  <2> QED
    BY <1>2, <2>1, <2>2 DEF LookupInv, QuietExact, QuietNoCrash, CutKey, CutValue
<1>7. CASE Compare
  <2>1. /\ UNCHANGED <<memVars, cfgVars, rpcVars, pt, pk, pf, pkb, pvb, out_key, out_value,
                       last, shareVars, quiet>>
        /\ pp = "compare" /\ pp' = "done"
        /\ hit' = (pf => CutKey(out_key) = pk) /\ (~hit' => act' = miss_act_id[pt])
    BY <1>7 DEF Compare, Matches
  <2> DEFINE v == LastValue(pt, LookupSlice, LookupSlot)
  <2>2. quiet /\ pt \notin mixed =>
                 /\ ~no_table[pt] /\ pf = fdInfos[pt]
                 /\ CutKey(out_key) = LastKey(pt, LookupSlice, LookupSlot)
                 /\ CutValue(out_value, v.len) = v
    BY <2>1 DEF LookupInv
  <2>3. quiet => QuietExact'
    BY <1>2, <2>1, <2>2 DEF QuietExact, LookupSum, LookupSlice, LookupSlot, CutValue
  <2> QED
    BY <1>2, <2>1, <2>3 DEF LookupInv, QuietNoCrash
<1>8. CASE Return
  BY <1>8 DEF Return, LookupInv, QuietNoCrash
<1> QED
  BY <1>1, <1>3, <1>4, <1>5, <1>6, <1>7, <1>8 DEF Packet

(* A table that set_mem_config has completed has its pointers, and keeps   *)
(* them.                                                                   *)
LEMMA LinkStep ==
    ASSUME TypeOK, LinkInv, [Next]_vars, pc' # "dead"
    PROVE  LinkInv'
<1> USE DEF memVars, cfgVars, rpcVars
<1> SUFFICES ASSUME NEW t \in Thread, Configured(t)', ~(th = t /\ pc = "link")'
             PROVE  linked'[t]
  BY DEF LinkInv
<1>1. CASE Handler /\ ~LinkBlocks
  <2>1. /\ linked' = linked
        /\ \/ UNCHANGED <<depth, pc, th>>
           \/ pc = "idle" /\ UNCHANGED depth
           \/ /\ th' = th
              /\ t # th => depth'[t] = depth[t]
              /\ \/ pc \in ZeroPc /\ depth' = depth
                 \/ depth'[th] = 0
                 \/ pc' \in SetupPc \cup {"link"}
                 \/ pc \in {"set_miss", "put_key", "put_val"} /\ depth' = depth
    BY <1>1 DEF Handler, StartConfig, ZeroKeyBlocks, ZeroValueBlocks, ZeroConfig, SetTable,
                SetDepth, SetKeyConfig, SetValueConfig, SetMissAction, SetFieldInfo,
                SetMissActId, SetNoTable, StartInsert, PutKey, PutValue, PutShort,
                TernaryInsert, TernaryClear, TypeOK, SetupPc, ZeroPc
  <2> QED
    BY <2>1 DEF LinkInv, Configured, SetupPc, ZeroPc
<1>2. CASE LinkBlocks
  BY <1>2 DEF LinkBlocks, LinkInv, Configured, TypeOK
<1>3. CASE Packet \/ UNCHANGED vars
  <2>1. UNCHANGED <<linked, depth, pc, th>>
    BY <1>3 DEF Packet, Execute, GenerateKey, Locate, ReadKey, ReadValue, Compare, Return, vars
  <2> QED
    BY <2>1 DEF LinkInv, Configured
<1> QED
  BY <1>1, <1>2, <1>3 DEF Next

(* The invariant holds in the initial states ...                           *)
LEMMA InvInit == Init => IInv
<1> SUFFICES ASSUME Init PROVE IInv
  OBVIOUS
<1>1. TypeOK /\ HandlerInv /\ MemInv
  BY TypeInit, MemInit
<1>2. LinkInv /\ LookupInv /\ QuietNoCrash /\ pc # "dead" /\ pp \notin {"dead", "killed"}
  BY DEF Init, LinkInv, Configured, LookupInv, QuietNoCrash
<1> QED
  BY <1>1, <1>2 DEF IInv

(* ... and every step keeps it.                                            *)
LEMMA InvStep == IInv /\ [Next]_vars => IInv'
<1> SUFFICES ASSUME IInv, [Next]_vars PROVE IInv'
  OBVIOUS
<1> USE DEF memVars, cfgVars, rpcVars
<1>1. TypeOK' /\ HandlerInv'
  BY TypeStep DEF IInv
<1>2. pc' # "dead" => MemInv' /\ LinkInv'
  BY MemStep, LinkStep DEF IInv
<1>3. CASE UNCHANGED vars
  <2>1. pc # "dead" => LookupInv'
    <3>1. Touches(pt, pk)' = Touches(pt, pk)
      BY <1>3 DEF vars, pktVars, Touches, SameCell
    <3> QED
      BY <1>3, <3>1, LookupFrame DEF IInv, LookupInv, vars, shareVars
  <2> QED
    BY <1>1, <1>2, <1>3, <2>1 DEF IInv, vars, pktVars, QuietNoCrash
<1>4. CASE Handler
  <2>1. CASE PutShort
    BY <1>1, <2>1 DEF PutShort, IInv, QuietNoCrash
  <2>2. CASE ~PutShort
    <3>1. pc # "dead" /\ pc' # "dead" /\ pp' = pp
      BY <1>4, <2>2 DEF Handler, StartConfig, ZeroKeyBlocks, ZeroValueBlocks, ZeroConfig,
                SetTable, SetDepth, SetKeyConfig, SetValueConfig, LinkBlocks, SetMissAction,
                SetFieldInfo, SetMissActId, SetNoTable, StartInsert, PutKey, PutValue,
                TernaryInsert, TernaryClear, pktVars
    <3>2. LookupInv'
      BY <1>4, <3>1, HandlerLookup DEF IInv
    <3> QED
      BY <1>1, <1>2, <3>1, <3>2 DEF IInv, QuietNoCrash
  <2> QED
    BY <2>1, <2>2
<1>5. CASE Packet
  <2>1. pp # "dead" /\ pc # "dead" /\ (pc' = "dead" <=> pp' \in {"dead", "killed"})
    BY <1>5 DEF Packet, Execute, GenerateKey, Locate, ReadKey, ReadValue, Compare, Return, IInv
  <2>2. (pc' # "dead" => LookupInv') /\ QuietNoCrash'
    BY <1>5, <2>1, PacketLookup DEF IInv
  <2> QED
    BY <1>1, <1>2, <2>1, <2>2 DEF IInv
<1> QED
  BY <1>3, <1>4, <1>5 DEF Next

(* A lookup that overlaps no change of its own cell or configuration, in a *)
(* table that has its blocks to itself, answers like a dictionary, in      *)
(* every interleaving with the handlers.                                   *)
THEOREM QuietLookupsAreExact == Spec => []QuietExact
<1>1. IInv => QuietExact
  BY DEF IInv, LookupInv, QuietExact
<1> QED
  BY <1>1, InvInit, InvStep, PTL DEF Spec

(* Only a lookup that overlaps a reconfiguration of its own table can      *)
(* divide by a depth of zero and kill the process.                         *)
THEOREM QuietLookupsDoNotCrash == Spec => []QuietNoCrash
<1>1. IInv => QuietNoCrash
  BY DEF IInv
<1> QED
  BY <1>1, InvInit, InvStep, PTL DEF Spec
=============================================================================
