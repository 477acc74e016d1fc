----------------------------- MODULE TcamProofs -----------------------------
(***************************************************************************)
(* The inductive invariant of Tcam and the proofs of its properties.       *)
(***************************************************************************)
EXTENDS Tcam, SliceLemmas, TLAPS

Ternary(t) == conf[t] # NoConf /\ conf[t].type = "TERNARY"
Slices(t) == 0 .. conf[t].depth - 1

(* The handler that inserts works on a ternary table and, once past the    *)
(* counter, within the blocks.                                             *)
HandlerInv ==
    /\ pc = "idle" <=> th = NoThread
    /\ pc # "idle" => Ternary(th) /\ ent \in TableEntry
    /\ pc = "put_val" => tcam_idx[th] < NSlot
    /\ pc = "lost" => tcam_idx[th] = NSlot
    /\ pc = "lost" <=> pp = "lost"

PacketInv ==
    /\ pp \in {"scan", "copy", "hit"} => pt \in Thread
    /\ pp \in {"copy", "hit"} => pi \in Slot

(* The counter is that of the table in place: it is back at 0 when a table *)
(* goes, and every slot below it has been given to an entry.               *)
IdxInv ==
    \A t \in Thread :
        /\ ~Ternary(t) => tcam_idx[t] = 0
        /\ Ternary(t) => \A x \in 0 .. tcam_idx[t] - 1 :
                            \E s \in Slices(t) : put[t][s][x] # NoEntry

(* No other table has a block of a table that is not mixed.                *)
DisjointInv ==
    \A t \in Thread \ mixed : \A u \in Thread : t # u =>
        /\ SramBlocks(conf[t]) \cap SramBlocks(conf[u]) = {}
        /\ TcamBlocks(conf[t]) \cap TcamBlocks(conf[u]) = {}

(* A block of no table is clear; an SRAM block, in its lower half.         *)
ClearInv ==
    /\ \A b \in Sram : (\A t \in Thread : b \notin SramBlocks(conf[t])) =>
          \A x \in Slot : x < NSlot \div 2 => sram[b][x] = Zero
    /\ \A b \in Tcam : (\A t \in Thread : b \notin TcamBlocks(conf[t])) =>
          \A x \in Slot : tbl[b][x] = Zero /\ mask[b][x] = Zero

(* The cell that has the key and the mask of the entry in hand and not yet *)
(* its value.                                                              *)
Pending(t, s, x) ==
    pc = "put_val" /\ th = t /\ s = SliceOf(t, ent.key) /\ x = tcam_idx[t]
KeyPut(t, s, x) ==
    \A j \in Chunk : /\ tbl[KeyBlock(t, s, j)][x] \cap KeyPart[j] = ent.key[j]
                     /\ mask[KeyBlock(t, s, j)][x] \cap KeyPart[j] = ent.mask[j]
ContentInv ==
    \A t \in Thread \ mixed : conf[t] # NoConf =>
        \A s \in Slices(t), x \in Slot :
            /\ Pending(t, s, x) => KeyPut(t, s, x)
            /\ ~Pending(t, s, x) => CellHolds(t, s, x)

MemInv == IdxInv /\ DisjointInv /\ ClearInv /\ ContentInv

(* What a quiet lookup has seen of its slice.                              *)
Fits(x) == pf => \A j \in Chunk : At(pt, SearchSlice(pt, pk, pf), x).mask[j] = pm[j]
LookupInv ==
    quiet /\ pp \in {"scan", "copy", "hit"} =>
        /\ th # pt /\ Ternary(pt)
        /\ \A j \in Chunk : pkb[j] = KeyBlock(pt, SearchSlice(pt, pk, pf), j)
        /\ pvb = ValueBlock(pt, SearchSlice(pt, pk, pf))
        /\ pt \notin mixed => /\ \A x \in 0 .. pi - 1 : ~Fits(x)
                              /\ pp \in {"copy", "hit"} => Fits(pi)
        /\ QuietLookup

(* The inductive invariant.                                                *)
IInv == TypeOK /\ HandlerInv /\ PacketInv /\ MemInv /\ LookupInv

-----------------------------------------------------------------------------
(***************************************************************************)
(* Lemmas about the blocks of a table.                                     *)
(***************************************************************************)

(* The indices insert_tcam_entry computes for slice s stay inside the      *)
(* configuration arrays.                                                   *)
LEMMA ConfigIndex ==
    ASSUME NEW c \in Request, NEW s \in 0 .. c.depth - 1
    PROVE  /\ c # NoConf /\ c.type \in {"EXACT", "TERNARY"}
           /\ c.depth \in Nat \ {0} /\ s \in 0 .. NSram - 1
           /\ s \in DOMAIN c.value
           /\ \A j \in Chunk : s + c.depth * j \in DOMAIN c.key
<1>1. WellFormed(c) /\ c # NoConf
  BY RequestAssumption DEF RequestAssumption
<1>2. c.depth \in Nat \ {0} /\ c.depth <= NSram
  BY <1>1, SizeAssumption DEF WellFormed, SizeAssumption
<1>3. ASSUME NEW j \in Chunk PROVE s + c.depth * j \in 0 .. KW * c.depth - 1
  BY <1>2, SizeAssumption, IndexInRange DEF Chunk, SizeAssumption
<1>4. s \in 0 .. NSram - 1
  BY <1>2, SizeAssumption DEF SizeAssumption
<1> QED
  BY <1>1, <1>2, <1>3, <1>4 DEF WellFormed

(* The blocks of a slice are blocks of the table.                          *)
LEMMA ConfigBlocks ==
    ASSUME NEW c \in Request, NEW s \in 0 .. c.depth - 1
    PROVE  /\ c.value[s] \in SramBlocks(c) /\ c.value[s] \in Sram
           /\ \A j \in Chunk :
                 /\ c.type = "EXACT" => /\ c.key[s + c.depth * j] \in SramBlocks(c)
                                        /\ c.key[s + c.depth * j] \in Sram
                                        /\ c.key[s + c.depth * j] # c.value[s]
                 /\ c.type = "TERNARY" => /\ c.key[s + c.depth * j] \in TcamBlocks(c)
                                          /\ c.key[s + c.depth * j] \in Tcam
<1>1. WellFormed(c) /\ c # NoConf
  BY RequestAssumption DEF RequestAssumption
<1>2. c.value[s] \in Elements(c.value)
  BY ConfigIndex DEF Elements
<1>3. \A j \in Chunk : c.key[s + c.depth * j] \in Elements(c.key)
  BY ConfigIndex DEF Elements
<1>4. Elements(c.value) \subseteq SramBlocks(c) /\ SramBlocks(c) \subseteq Sram
  BY <1>1 DEF SramBlocks, WellFormed
<1>5. c.type = "EXACT" => /\ Elements(c.key) \subseteq SramBlocks(c)
                          /\ Elements(c.key) \cap Elements(c.value) = {}
  BY <1>1 DEF SramBlocks, WellFormed
<1>6. c.type = "TERNARY" => Elements(c.key) \subseteq TcamBlocks(c) /\ TcamBlocks(c) \subseteq Tcam
  BY <1>1 DEF TcamBlocks, WellFormed
<1> QED
  BY <1>2, <1>3, <1>4, <1>5, <1>6

(* No block is used twice in a table.                                      *)
LEMMA ConfigInjective ==
    ASSUME NEW c \in Request, NEW s \in 0 .. c.depth - 1, NEW r \in 0 .. c.depth - 1
    PROVE  /\ c.value[s] = c.value[r] => s = r
           /\ \A j, l \in Chunk :
                 c.key[s + c.depth * j] = c.key[r + c.depth * l] => s = r /\ j = l
           /\ c.type = "EXACT" => \A j \in Chunk : c.key[s + c.depth * j] # c.value[r]
<1>1. WellFormed(c)
  BY RequestAssumption DEF RequestAssumption
<1>2. c.value[s] = c.value[r] => s = r
  BY <1>1, ConfigIndex DEF WellFormed, Injective
<1>3. ASSUME NEW j \in Chunk, NEW l \in Chunk,
             c.key[s + c.depth * j] = c.key[r + c.depth * l]
      PROVE  s = r /\ j = l
  <2>1. s + c.depth * j = r + c.depth * l
    BY <1>1, <1>3, ConfigIndex DEF WellFormed, Injective
  <2>2. c.depth \in Nat \ {0} /\ j \in Nat /\ l \in Nat
    BY ConfigIndex, SizeAssumption DEF Chunk, SizeAssumption
  <2>3. \A m, n \in Nat : s + c.depth * m = r + c.depth * n => s = r /\ m = n
    BY <2>2, IndexInjective
  <2> QED
    BY <2>1, <2>2, <2>3
<1>4. ASSUME c.type = "EXACT", NEW j \in Chunk PROVE c.key[s + c.depth * j] # c.value[r]
  <2>1. c.key[s + c.depth * j] \in Elements(c.key) /\ c.value[r] \in Elements(c.value)
    BY ConfigIndex DEF Elements
  <2> QED
    BY <1>1, <1>4, <2>1 DEF WellFormed
<1> QED
  BY <1>2, <1>3, <1>4

(* What memcpy reaches is what was copied.                                 *)
LEMMA SpliceFacts ==
    ASSUME NEW old \in Word, NEW new \in Word, NEW part \in Word, new \subseteq part
    PROVE  Splice(old, new, part) \in Word /\ Splice(old, new, part) \cap part = new
  BY DEF Splice, Word

(* Write changes the key blocks of its slice at its slot, and nothing else.*)
LEMMA WriteFacts ==
    ASSUME NEW D, NEW mem \in [D -> [Slot -> Word]], NEW t \in Thread, conf[t] \in Request,
           NEW s \in Slices(t), NEW x \in Slot, NEW key \in Key,
           \A j \in Chunk : KeyBlock(t, s, j) \in D
    PROVE  /\ Write(mem, t, s, x, key) \in [D -> [Slot -> Word]]
           /\ \A j \in Chunk :
                 Write(mem, t, s, x, key)[KeyBlock(t, s, j)][x] \cap KeyPart[j] = key[j]
           /\ \A b \in D, y \in Slot :
                 y # x \/ (\A j \in Chunk : KeyBlock(t, s, j) # b) =>
                     Write(mem, t, s, x, key)[b][y] = mem[b][y]
<1> DEFINE pick(b) == CHOOSE j \in Chunk : KeyBlock(t, s, j) = b
           own(b) == \E j \in Chunk : KeyBlock(t, s, j) = b
           new == Write(mem, t, s, x, key)
           spliced(b) == Splice(mem[b][x], key[pick(b)], KeyPart[pick(b)])
<1>1. new = [b \in D |-> [mem[b] EXCEPT ![x] = IF own(b) THEN spliced(b) ELSE mem[b][x]]]
  BY DEF Write
<1>2. \A b \in D : own(b) => pick(b) \in Chunk /\ KeyBlock(t, s, pick(b)) = b
  OBVIOUS
<1>3. \A j \in Chunk : pick(KeyBlock(t, s, j)) = j
  <2> TAKE j \in Chunk
  <2>1. own(KeyBlock(t, s, j))
    OBVIOUS
  <2>2. pick(KeyBlock(t, s, j)) \in Chunk
        /\ KeyBlock(t, s, pick(KeyBlock(t, s, j))) = KeyBlock(t, s, j)
    BY <1>2, <2>1
  <2> QED
    BY <2>2, ConfigInjective DEF KeyBlock, Slices
<1> HIDE DEF new, pick
<1>4. \A b \in D : own(b) =>
         spliced(b) \in Word /\ spliced(b) \cap KeyPart[pick(b)] = key[pick(b)]
  <2> SUFFICES ASSUME NEW b \in D, own(b)
               PROVE  spliced(b) \in Word /\ spliced(b) \cap KeyPart[pick(b)] = key[pick(b)]
    OBVIOUS
  <2>1. pick(b) \in Chunk
    BY <1>2
  <2>2. key[pick(b)] \in Word /\ key[pick(b)] \subseteq KeyPart[pick(b)]
    BY <2>1 DEF Key, KeyWord
  <2>3. KeyPart[pick(b)] \in Word /\ mem[b][x] \in Word
    BY <2>1, SizeAssumption DEF SizeAssumption
  <2> QED
    BY <2>2, <2>3, SpliceFacts
<1> HIDE DEF spliced
<1>5. new \in [D -> [Slot -> Word]]
  BY <1>1, <1>4
<1>6. \A j \in Chunk : new[KeyBlock(t, s, j)][x] \cap KeyPart[j] = key[j]
  <2> TAKE j \in Chunk
  <2>1. own(KeyBlock(t, s, j)) /\ KeyBlock(t, s, j) \in D
    OBVIOUS
  <2>2. new[KeyBlock(t, s, j)][x] = spliced(KeyBlock(t, s, j))
    BY <1>1, <2>1
  <2> QED
    BY <1>3, <1>4, <2>1, <2>2
<1>7. \A b \in D, y \in Slot : y # x \/ ~own(b) => new[b][y] = mem[b][y]
  BY <1>1
<1> QED
  BY <1>5, <1>6, <1>7 DEF new

(* The same for the TCAM blocks.                                           *)
LEMMA WriteTcam ==
    ASSUME NEW mem \in [Tcam -> [Slot -> Word]], NEW t \in Thread, conf[t] \in Request,
           NEW s \in Slices(t), NEW x \in Slot, NEW key \in Key,
           \A j \in Chunk : KeyBlock(t, s, j) \in Tcam
    PROVE  /\ \A j \in Chunk :
                 Write(mem, t, s, x, key)[KeyBlock(t, s, j)][x] \cap KeyPart[j] = key[j]
           /\ \A b \in Tcam, y \in Slot :
                 y # x \/ (\A j \in Chunk : KeyBlock(t, s, j) # b) =>
                     Write(mem, t, s, x, key)[b][y] = mem[b][y]
  BY WriteFacts

-----------------------------------------------------------------------------
(***************************************************************************)
(* Types.                                                                  *)
(***************************************************************************)
CodeInv == TypeOK /\ HandlerInv /\ PacketInv

(* Words, keys and entries of zeros are words, keys and entries.           *)
LEMMA ZeroTypes ==
    Zero \in Word /\ ZeroKey \in Key /\ NullEntry \in Entry /\ 0 \in Slot /\ 0 \in Sram /\ 0 \in Tcam
<1>1. Zero \in Word
  BY DEF Zero, Word
<1>2. ZeroKey \in Key
  BY <1>1 DEF ZeroKey, Key, KeyWord, Zero
<1>3. NullEntry \in Entry
  BY <1>1, <1>2 DEF NullEntry, Entry, Word, Zero
<1> QED
  BY <1>1, <1>2, <1>3, SizeAssumption DEF Slot, Sram, Tcam, SizeAssumption

(* The threads and blocks as the constructors leave them.                  *)
LEMMA CodeInit == Init => CodeInv
<1> SUFFICES ASSUME Init PROVE CodeInv
  OBVIOUS
<1> USE ZeroTypes, SizeAssumption DEF Init, SizeAssumption
<1>1. TypeOK
  <2>1. tbl \in [Tcam -> [Slot -> Word]] /\ mask \in [Tcam -> [Slot -> Word]]
        /\ sram \in [Sram -> [Slot -> Word]]
    OBVIOUS
  <2>2. put \in [Thread -> [0 .. NSram - 1 -> [Slot -> TableEntry \cup {NoEntry}]]]
    BY DEF NoPut
  <2>3. out \in [key : KeyWord, value : Word] /\ pkb \in [Chunk -> Tcam] /\ mixed \subseteq Thread
    BY DEF Key
  <2>4. fdInfos \in [Thread -> BOOLEAN] /\ pf \in BOOLEAN /\ quiet \in BOOLEAN
    OBVIOUS
  <2>5. /\ conf \in [Thread -> Request \cup {NoConf}] /\ tcam_idx \in [Thread -> 0 .. NSlot]
        /\ pi \in 0 .. NSlot /\ pvb \in Sram
    OBVIOUS
  <2>6. /\ pc = "idle" /\ th = NoThread /\ ent \in Entry
        /\ pp = "idle" /\ pt = NoThread /\ pk \in Key /\ pm \in Key
    OBVIOUS
  <2> QED
    BY <2>1, <2>2, <2>3, <2>4, <2>5, <2>6 DEF TypeOK
<1>2. HandlerInv /\ PacketInv
  BY DEF HandlerInv, PacketInv
<1> QED
  BY <1>1, <1>2 DEF CodeInv

(* An entry of thread t goes to a slice of its table.                      *)
LEMMA SliceInTable ==
    ASSUME TypeOK, NEW t \in Thread, conf[t] # NoConf, NEW k \in Key
    PROVE  /\ conf[t] \in Request /\ conf[t].depth \in Nat \ {0}
           /\ SliceOf(t, k) \in Slices(t) /\ 0 \in Slices(t)
           /\ \A f \in BOOLEAN : SearchSlice(t, k, f) \in Slices(t)
           /\ Slices(t) \subseteq 0 .. NSram - 1
<1>1. conf[t] \in Request
  BY DEF TypeOK
<1>2. conf[t].depth \in Nat \ {0} /\ conf[t].depth <= NSram
  BY <1>1, RequestAssumption, SizeAssumption DEF RequestAssumption, WellFormed, SizeAssumption
<1>3. KeySum(k) \in Nat
  BY EntryAssumption DEF EntryAssumption
<1>4. SliceOf(t, k) \in Slices(t)
  BY <1>2, <1>3, SliceInRange DEF SliceOf, Slices
<1>5. 0 \in Slices(t) /\ Slices(t) \subseteq 0 .. NSram - 1
  BY <1>2, SizeAssumption DEF Slices, SizeAssumption
<1> QED
  BY <1>1, <1>2, <1>4, <1>5 DEF SearchSlice

(* The blocks of a table of thread t, as the handlers name them.           *)
LEMMA TableBlocks ==
    ASSUME TypeOK, NEW t \in Thread, conf[t] # NoConf, NEW s \in Slices(t)
    PROVE  /\ ValueBlock(t, s) \in SramBlocks(conf[t]) /\ ValueBlock(t, s) \in Sram
           /\ \A j \in Chunk :
                /\ conf[t].type = "EXACT" => /\ KeyBlock(t, s, j) \in SramBlocks(conf[t])
                                             /\ KeyBlock(t, s, j) \in Sram
                                             /\ KeyBlock(t, s, j) # ValueBlock(t, s)
                /\ conf[t].type = "TERNARY" => /\ KeyBlock(t, s, j) \in TcamBlocks(conf[t])
                                               /\ KeyBlock(t, s, j) \in Tcam
  BY ConfigBlocks DEF TypeOK, Slices, KeyBlock, ValueBlock

(* Each step of a handler or a scan keeps indices and counters in range.   *)
LEMMA CodeStep == CodeInv /\ [Next]_vars => CodeInv'
<1> SUFFICES ASSUME CodeInv, [Next]_vars PROVE CodeInv'
  OBVIOUS
<1>0. TypeOK /\ HandlerInv /\ PacketInv
  BY DEF CodeInv
<1> USE SizeAssumption DEF SizeAssumption, CodeInv
<1>1. ASSUME NEW t \in Thread, NEW r \in Request \cup {NoConf}, SetMemConfig(t, r) PROVE CodeInv'
  <2>0. mixed' \subseteq Thread
    BY <1>0, <1>1 DEF TypeOK, SetMemConfig, Sharing
  <2>1. TypeOK'
    BY <1>0, <1>1, <2>0, ZeroTypes DEF TypeOK, SetMemConfig, ResetIdx, NoPut, rpcVars, pktVars
  <2>2. HandlerInv' /\ PacketInv'
    BY <1>0, <1>1 DEF HandlerInv, PacketInv, SetMemConfig, rpcVars, pktVars
  <2> QED
    BY <2>1, <2>2
<1>2. ASSUME NEW t \in Thread, SetFieldInfo(t) PROVE CodeInv'
  <2>1. TypeOK'
    BY <1>0, <1>2 DEF TypeOK, SetFieldInfo, memVars, rpcVars, pktVars
  <2>2. HandlerInv' /\ PacketInv'
    BY <1>0, <1>2 DEF HandlerInv, PacketInv, SetFieldInfo, memVars, rpcVars, pktVars, Ternary
  <2> QED
    BY <2>1, <2>2
<1>3. ASSUME NEW t \in Thread, NEW e \in TableEntry, InsertSram(t, e) PROVE CodeInv'
  <2> DEFINE s == SliceOf(t, e.key)
             x == KeySum(e.key) % NSlot
             mid == Write(sram, t, s, x, e.key)
  <2>1. e \in Entry /\ e.key \in Key /\ e.value \in Word /\ e.part \in Word /\ e.value \subseteq e.part
    BY EntryAssumption DEF EntryAssumption, Entry
  <2>2. conf[t] \in Request /\ s \in Slices(t) /\ s \in 0 .. NSram - 1
    BY <1>0, <1>3, <2>1, SliceInTable DEF InsertSram
  <2>3. x \in Slot
    BY <2>1, EntryAssumption, SliceInRange DEF EntryAssumption, Slot
  <2>4. ValueBlock(t, s) \in Sram /\ \A j \in Chunk : KeyBlock(t, s, j) \in Sram
    BY <1>0, <1>3, <2>2, TableBlocks DEF InsertSram
  <2>5. mid \in [Sram -> [Slot -> Word]]
    <3> HIDE DEF s, x
    <3>1. sram \in [Sram -> [Slot -> Word]]
      BY <1>0 DEF TypeOK
    <3> QED
      BY <2>1, <2>2, <2>3, <2>4, <3>1, WriteFacts
  <2>6. /\ sram' = [mid EXCEPT ![ValueBlock(t, s)][x] = Splice(@, e.value, e.part)]
        /\ put' = [put EXCEPT ![t][s][x] = e]
        /\ UNCHANGED <<tbl, mask, cfgVars, rpcVars, pktVars, mixed, quiet>>
    BY <1>3 DEF InsertSram
  <2> HIDE DEF s, x, mid
  <2>7. sram' \in [Sram -> [Slot -> Word]]
    <3>1. mid[ValueBlock(t, s)][x] \in Word
      BY <2>3, <2>4, <2>5
    <3>2. Splice(mid[ValueBlock(t, s)][x], e.value, e.part) \in Word
      BY <2>1, <3>1, SpliceFacts
    <3> QED
      BY <2>3, <2>4, <2>5, <2>6, <3>2
  <2>8. put' \in [Thread -> [0 .. NSram - 1 -> [Slot -> TableEntry \cup {NoEntry}]]]
    BY <1>0, <2>2, <2>3, <2>6 DEF TypeOK
  <2>9. TypeOK'
    BY <1>0, <2>6, <2>7, <2>8 DEF TypeOK, cfgVars, rpcVars, pktVars
  <2>10. HandlerInv' /\ PacketInv'
    BY <1>0, <2>6 DEF HandlerInv, PacketInv, cfgVars, rpcVars, pktVars, Ternary
  <2> QED
    BY <2>9, <2>10
<1>4. ASSUME NEW t \in Thread, NEW e \in TableEntry, StartInsert(t, e) PROVE CodeInv'
  <2>1. TypeOK'
    BY <1>0, <1>4, EntryAssumption DEF TypeOK, StartInsert, memVars, cfgVars, pktVars, EntryAssumption
  <2>2. HandlerInv' /\ PacketInv'
    BY <1>0, <1>4, RequestAssumption
    DEF HandlerInv, PacketInv, StartInsert, memVars, cfgVars, pktVars, Ternary, RequestAssumption
  <2> QED
    BY <2>1, <2>2
<1>5. ASSUME PutLost PROVE CodeInv'
  <2>1. TypeOK'
    BY <1>0, <1>5 DEF TypeOK, PutLost, memVars, cfgVars
  <2>2. th \in Thread /\ tcam_idx[th] = NSlot
    BY <1>0, <1>5 DEF TypeOK, PutLost, HandlerInv
  <2>3. HandlerInv' /\ PacketInv'
    BY <1>0, <1>5, <2>2 DEF HandlerInv, PacketInv, PutLost, memVars, cfgVars, Ternary
  <2> QED
    BY <2>1, <2>3
<1>6. ASSUME PutKey PROVE CodeInv'
  <2> DEFINE s == SliceOf(th, ent.key)
             x == tcam_idx[th]
  <2>1. th \in Thread /\ Ternary(th) /\ ent \in Entry /\ ent.key \in Key /\ ent.mask \in Key
    BY <1>0, <1>6 DEF TypeOK, HandlerInv, PutKey, Entry
  <2>2. conf[th] \in Request /\ s \in Slices(th)
    BY <1>0, <2>1, SliceInTable DEF Ternary
  <2>3. x \in Slot
    BY <1>0, <1>6, <2>1 DEF TypeOK, PutKey, Slot
  <2>4. \A j \in Chunk : KeyBlock(th, s, j) \in Tcam
    BY <1>0, <2>1, <2>2, TableBlocks DEF Ternary
  <2>5. /\ Write(tbl, th, s, x, ent.key) \in [Tcam -> [Slot -> Word]]
        /\ Write(mask, th, s, x, ent.mask) \in [Tcam -> [Slot -> Word]]
    BY <1>0, <2>1, <2>2, <2>3, <2>4, WriteFacts DEF TypeOK
  <2>6. TypeOK'
    BY <1>0, <1>6, <2>5 DEF TypeOK, PutKey, cfgVars, pktVars
  <2>7. HandlerInv' /\ PacketInv'
    BY <1>0, <1>6 DEF HandlerInv, PacketInv, PutKey, cfgVars, pktVars, Ternary
  <2> QED
    BY <2>6, <2>7
<1>7. ASSUME PutValue PROVE CodeInv'
  <2> DEFINE s == SliceOf(th, ent.key)
             x == tcam_idx[th]
  <2>1. /\ th \in Thread /\ Ternary(th) /\ ent \in TableEntry /\ ent.key \in Key
        /\ ent.value \in Word /\ ent.part \in Word /\ ent.value \subseteq ent.part
    BY <1>0, <1>7 DEF TypeOK, HandlerInv, PutValue, Entry
  <2>2. conf[th] \in Request /\ s \in Slices(th) /\ s \in 0 .. NSram - 1
    BY <1>0, <2>1, SliceInTable DEF Ternary
  <2>3. x \in Slot
    BY <1>0, <1>7, <2>1 DEF TypeOK, PutValue, Slot, HandlerInv
  <2>4. ValueBlock(th, s) \in Sram
    BY <1>0, <2>1, <2>2, TableBlocks DEF Ternary
  <2>5. /\ sram' = [sram EXCEPT ![ValueBlock(th, s)][x] = Splice(@, ent.value, ent.part)]
        /\ put' = [put EXCEPT ![th][s][x] = ent]
        /\ tcam_idx' = [tcam_idx EXCEPT ![th] = x + 1]
        /\ pc' = "idle" /\ th' = NoThread /\ ent' = NullEntry
        /\ UNCHANGED <<tbl, mask, conf, fdInfos, pktVars, mixed, quiet>>
    BY <1>7 DEF PutValue, NextIdx
  <2> HIDE DEF s, x
  <2>6. sram' \in [Sram -> [Slot -> Word]]
    <3>1. sram \in [Sram -> [Slot -> Word]]
      BY <1>0 DEF TypeOK
    <3>2. sram[ValueBlock(th, s)][x] \in Word
      BY <2>3, <2>4, <3>1
    <3>3. Splice(sram[ValueBlock(th, s)][x], ent.value, ent.part) \in Word
      BY <2>1, <3>2, SpliceFacts
    <3> QED
      BY <2>3, <2>4, <2>5, <3>1, <3>3
  <2>7. put' \in [Thread -> [0 .. NSram - 1 -> [Slot -> TableEntry \cup {NoEntry}]]]
    BY <1>0, <2>1, <2>2, <2>3, <2>5 DEF TypeOK
  <2>8. tcam_idx' \in [Thread -> 0 .. NSlot]
    <3>1. x + 1 \in 0 .. NSlot
      BY <2>3 DEF Slot
    <3>2. tcam_idx \in [Thread -> 0 .. NSlot]
      BY <1>0 DEF TypeOK
    <3> QED
      BY <2>5, <3>1, <3>2
  <2>9. TypeOK'
    BY <1>0, <2>5, <2>6, <2>7, <2>8, ZeroTypes DEF TypeOK, pktVars
  <2>10. HandlerInv' /\ PacketInv'
    BY <1>0, <1>7, <2>5 DEF HandlerInv, PacketInv, pktVars, PutValue
  <2> QED
    BY <2>9, <2>10
<1>8. ASSUME NEW t \in Thread, NEW k \in PacketKey, NEW m \in Key, Execute(t, k, m) PROVE CodeInv'
  <2> DEFINE s == SearchSlice(t, k, fdInfos[t])
  <2>1. k \in Key /\ fdInfos[t] \in BOOLEAN
    BY <1>0, EntryAssumption DEF EntryAssumption, TypeOK
  <2>2. s \in Slices(t)
    BY <1>0, <1>8, <2>1, SliceInTable DEF Execute
  <2>3. pkb' \in [Chunk -> Tcam] /\ pvb' \in Sram
    BY <1>0, <1>8, <2>2, TableBlocks DEF Execute
  <2>4. pm' \in Key
    BY <1>8, <2>1 DEF Execute, Key, KeyWord, Word
  <2>5. TypeOK'
    BY <1>0, <1>8, <2>1, <2>3, <2>4 DEF TypeOK, Execute, memVars, cfgVars, rpcVars
  <2>6. HandlerInv' /\ PacketInv'
    BY <1>0, <1>8 DEF HandlerInv, PacketInv, Execute, memVars, cfgVars, rpcVars, Ternary
  <2> QED
    BY <2>5, <2>6
<1>9. ASSUME Scan PROVE CodeInv'
  <2>1. TypeOK'
    BY <1>0, <1>9 DEF TypeOK, Scan, memVars, cfgVars, rpcVars
  <2>2. HandlerInv' /\ PacketInv'
    BY <1>0, <1>9 DEF TypeOK, HandlerInv, PacketInv, Scan, memVars, cfgVars, rpcVars, Ternary, Slot
  <2> QED
    BY <2>1, <2>2
<1>10. ASSUME Copy PROVE CodeInv'
  <2>1. pi \in Slot
    BY <1>0, <1>10 DEF PacketInv, Copy
  <2>2. out' \in [key : KeyWord, value : Word]
    BY <1>0, <1>10, <2>1 DEF TypeOK, Copy, KeyWord
  <2>3. TypeOK'
    BY <1>0, <1>10, <2>2 DEF TypeOK, Copy, memVars, cfgVars, rpcVars
  <2>4. HandlerInv' /\ PacketInv'
    BY <1>0, <1>10 DEF HandlerInv, PacketInv, Copy, memVars, cfgVars, rpcVars, Ternary
  <2> QED
    BY <2>3, <2>4
<1>11. ASSUME Return PROVE CodeInv'
  <2>1. /\ out' \in [key : KeyWord, value : Word] /\ pkb' \in [Chunk -> Tcam] /\ pvb' \in Sram
        /\ pk' \in Key /\ pm' \in Key /\ pi' \in 0 .. NSlot
    BY <1>11, ZeroTypes DEF Return, Key
  <2>3. TypeOK'
    BY <1>0, <1>11, <2>1 DEF TypeOK, Return, memVars, cfgVars, rpcVars
  <2>2. HandlerInv' /\ PacketInv'
    BY <1>0, <1>11 DEF HandlerInv, PacketInv, Return, memVars, cfgVars, rpcVars, Ternary
  <2> QED
    BY <2>2, <2>3
<1>12. ASSUME UNCHANGED vars PROVE CodeInv'
  <2>1. TypeOK'
    BY <1>0, <1>12 DEF TypeOK, vars, memVars, cfgVars, rpcVars, pktVars
  <2>2. HandlerInv' /\ PacketInv'
    BY <1>0, <1>12 DEF HandlerInv, PacketInv, vars, memVars, cfgVars, rpcVars, pktVars, Ternary
  <2> QED
    BY <2>1, <2>2
<1> QED
  BY <1>1, <1>2, <1>3, <1>4, <1>5, <1>6, <1>7, <1>8, <1>9, <1>10, <1>11, <1>12 DEF Next

(* The variables of the TCAM branches of matcher_c.h keep their types for  *)
(* tables, blocks, slots and entries of any number: no block index, slice  *)
(* or slot is out of range before an entry is lost.                        *)
THEOREM TypeCorrect == Spec => []TypeOK
<1>1. CodeInv => TypeOK
  BY DEF CodeInv
<1> QED
  BY <1>1, CodeInit, CodeStep, PTL DEF Spec

-----------------------------------------------------------------------------
(***************************************************************************)
(* What the blocks hold.                                                   *)
(***************************************************************************)

(* A cell whose words and history a step leaves alone still holds.         *)
LEMMA CellFrame ==
    ASSUME NEW t \in Thread, NEW s, NEW x, conf'[t] = conf[t],
           put'[t][s][x] = put[t][s][x],
           sram'[ValueBlock(t, s)][x] = sram[ValueBlock(t, s)][x],
           \A j \in Chunk : conf[t].type = "EXACT" =>
               sram'[KeyBlock(t, s, j)][x] = sram[KeyBlock(t, s, j)][x],
           \A j \in Chunk : conf[t].type # "EXACT" =>
               /\ tbl'[KeyBlock(t, s, j)][x] = tbl[KeyBlock(t, s, j)][x]
               /\ mask'[KeyBlock(t, s, j)][x] = mask[KeyBlock(t, s, j)][x],
           CellHolds(t, s, x)
    PROVE  CellHolds(t, s, x)'
<1>1. \A j : KeyBlock(t, s, j)' = KeyBlock(t, s, j)
  BY DEF KeyBlock
<1>2. ValueBlock(t, s)' = ValueBlock(t, s) /\ At(t, s, x)' = At(t, s, x)
  BY DEF ValueBlock, At
<1>3. CASE conf[t].type = "EXACT"
  BY <1>1, <1>2, <1>3 DEF CellHolds
<1>4. CASE conf[t].type # "EXACT"
  BY <1>1, <1>2, <1>4 DEF CellHolds
<1> QED
  BY <1>3, <1>4

(* Initially no thread has a table and all blocks are clear.               *)
LEMMA MemInit == Init => MemInv
<1> SUFFICES ASSUME Init PROVE MemInv
  OBVIOUS
<1>1. \A t \in Thread : conf[t] = NoConf /\ tcam_idx[t] = 0
  BY DEF Init
<1>2. IdxInv
  BY <1>1 DEF IdxInv, Ternary
<1>3. DisjointInv
  BY <1>1 DEF DisjointInv, SramBlocks, TcamBlocks
<1>4. ClearInv
  BY DEF Init, ClearInv
<1>5. ContentInv
  BY <1>1 DEF ContentInv
<1> QED
  BY <1>2, <1>3, <1>4, <1>5 DEF MemInv

(* A step that leaves the memory, the tables and the pending cell alone.   *)
LEMMA MemFrame ==
    ASSUME MemInv, UNCHANGED <<memVars, conf, tcam_idx, put, mixed>>,
           (pc' = "put_val") <=> (pc = "put_val"),
           pc = "put_val" => UNCHANGED <<th, ent>>
    PROVE  MemInv'
<1>1. \A t \in Thread : \A s, x : (Pending(t, s, x)' <=> Pending(t, s, x))
  BY DEF Pending, SliceOf
<1>2. ASSUME NEW t \in Thread, NEW s \in Slices(t), NEW x \in Slot, CellHolds(t, s, x)
      PROVE  CellHolds(t, s, x)'
  BY <1>2, CellFrame DEF memVars
<1>3. \A t \in Thread : \A s, x : Pending(t, s, x) /\ KeyPut(t, s, x) => KeyPut(t, s, x)'
  BY DEF Pending, KeyPut, KeyBlock, memVars
<1>4. ContentInv'
  BY <1>1, <1>2, <1>3 DEF MemInv, ContentInv, Slices
<1>5. IdxInv' /\ DisjointInv' /\ ClearInv'
  BY DEF MemInv, IdxInv, DisjointInv, ClearInv, memVars, Ternary, Slices
<1> QED
  BY <1>4, <1>5 DEF MemInv

(* insert_sram_entry fills its own cell and leaves every other one alone,  *)
(* in its own table and in the ternary tables that share the SRAM.         *)
LEMMA InsertSramMem ==
    ASSUME TypeOK, HandlerInv, MemInv, NEW t \in Thread, NEW e \in TableEntry, InsertSram(t, e)
    PROVE  MemInv'
<1> DEFINE s == SliceOf(t, e.key)
           x == KeySum(e.key) % NSlot
           mid == Write(sram, t, s, x, e.key)
<1>1. e \in Entry /\ e.key \in Key /\ e.value \in Word /\ e.part \in Word /\ e.value \subseteq e.part
  BY EntryAssumption DEF EntryAssumption, Entry
<1>2. conf[t] \in Request /\ s \in Slices(t) /\ s \in 0 .. NSram - 1
  BY <1>1, SliceInTable DEF InsertSram
<1>3. x \in Slot
  BY <1>1, EntryAssumption, SizeAssumption, SliceInRange DEF EntryAssumption, SizeAssumption, Slot
<1>4. /\ conf[t] # NoConf /\ conf[t].type = "EXACT" /\ pc = "idle" /\ pc' = "idle"
      /\ sram' = [mid EXCEPT ![ValueBlock(t, s)][x] = Splice(@, e.value, e.part)]
      /\ put' = [put EXCEPT ![t][s][x] = e]
      /\ UNCHANGED <<tbl, mask, conf, tcam_idx, mixed>>
  BY DEF InsertSram, cfgVars, rpcVars
<1>5. sram \in [Sram -> [Slot -> Word]]
  BY DEF TypeOK
<1> HIDE DEF s, x, mid
<1>6. /\ ValueBlock(t, s) \in Sram /\ ValueBlock(t, s) \in SramBlocks(conf[t])
      /\ \A j \in Chunk : /\ KeyBlock(t, s, j) \in Sram
                          /\ KeyBlock(t, s, j) \in SramBlocks(conf[t])
                          /\ KeyBlock(t, s, j) # ValueBlock(t, s)
  BY <1>2, <1>4, TableBlocks
<1>7. /\ mid \in [Sram -> [Slot -> Word]]
      /\ \A j \in Chunk : mid[KeyBlock(t, s, j)][x] \cap KeyPart[j] = e.key[j]
      /\ \A b \in Sram, y \in Slot :
           y # x \/ (\A j \in Chunk : KeyBlock(t, s, j) # b) => mid[b][y] = sram[b][y]
  <2>1. \A j \in Chunk : KeyBlock(t, s, j) \in Sram
    BY <1>6
  <2> QED
    BY <1>1, <1>2, <1>3, <1>5, <2>1, WriteFacts DEF mid
<1>8. /\ \A j \in Chunk : sram'[KeyBlock(t, s, j)][x] \cap KeyPart[j] = e.key[j]
      /\ sram'[ValueBlock(t, s)][x] \cap e.part = e.value
  <2>1. mid[ValueBlock(t, s)][x] \in Word
    BY <1>3, <1>6, <1>7
  <2>2. Splice(mid[ValueBlock(t, s)][x], e.value, e.part) \cap e.part = e.value
    BY <1>1, <2>1, SpliceFacts
  <2>3. sram'[ValueBlock(t, s)][x] = Splice(mid[ValueBlock(t, s)][x], e.value, e.part)
    BY <1>3, <1>4, <1>6, <1>7
  <2>4. \A j \in Chunk : sram'[KeyBlock(t, s, j)][x] = mid[KeyBlock(t, s, j)][x]
    BY <1>3, <1>4, <1>6, <1>7
  <2> QED
    BY <1>7, <2>2, <2>3, <2>4
<1>9. ASSUME NEW b \in Sram, NEW y \in Slot,
             y # x \/ (b # ValueBlock(t, s) /\ \A j \in Chunk : KeyBlock(t, s, j) # b)
      PROVE  sram'[b][y] = sram[b][y]
  BY <1>3, <1>4, <1>6, <1>7, <1>9
<1>10. \A b \in Sram, y \in Slot : b \notin SramBlocks(conf[t]) => sram'[b][y] = sram[b][y]
  BY <1>6, <1>9
<1>11. \A u \in Thread, r \in 0 .. NSram - 1, y \in Slot :
          put'[u][r][y] = IF u = t /\ r = s /\ y = x THEN e ELSE put[u][r][y]
  <2>1. put \in [Thread -> [0 .. NSram - 1 -> [Slot -> TableEntry \cup {NoEntry}]]]
    BY DEF TypeOK
  <2> QED
    BY <1>2, <1>3, <1>4, <2>1
<1>12. IdxInv'
  <2>1. ~Ternary(t)
    BY <1>4 DEF Ternary
  <2>2. \A u \in Thread : Ternary(u)' = Ternary(u) /\ Slices(u)' = Slices(u)
    BY <1>4 DEF Ternary, Slices
  <2>3. \A u \in Thread : u # t => put'[u] = put[u]
    BY <1>4 DEF TypeOK
  <2> QED
    BY <1>4, <2>1, <2>2, <2>3 DEF MemInv, IdxInv
<1>13. DisjointInv' /\ ClearInv'
  BY <1>4, <1>10 DEF MemInv, DisjointInv, ClearInv
<1>14. ASSUME NEW u \in Thread \ mixed, conf[u] # NoConf, NEW r \in Slices(u), NEW y \in Slot
       PROVE  CellHolds(u, r, y)'
  <2>1. CellHolds(u, r, y)
    BY <1>4, <1>14 DEF MemInv, ContentInv, Pending
  <2>2. r \in 0 .. NSram - 1 /\ conf[u] \in Request
    BY <1>1, <1>14, SliceInTable
  <2>3. CASE u = t /\ r = s /\ y = x
    <3>1. /\ put'[u][r][y] = e /\ e # NoEntry
          /\ conf'[u].type = "EXACT" /\ conf'[u].type # "TERNARY"
      BY <1>4, <1>11, <2>2, <2>3, EntryAssumption DEF EntryAssumption
    <3>2. At(u, r, y)' = e
      BY <3>1 DEF At
    <3>3. /\ ValueBlock(u, r)' = ValueBlock(t, s)
          /\ \A j \in Chunk : KeyBlock(u, r, j)' = KeyBlock(t, s, j)
      BY <1>4, <2>3 DEF ValueBlock, KeyBlock
    <3> QED
      BY <1>8, <2>3, <3>1, <3>2, <3>3 DEF CellHolds
  <2>4. CASE ~(u = t /\ r = s /\ y = x)
    <3>1. put'[u][r][y] = put[u][r][y]
      BY <1>11, <2>2, <2>4
    <3>2. /\ ValueBlock(u, r) \in Sram /\ ValueBlock(u, r) \in SramBlocks(conf[u])
          /\ \A j \in Chunk : conf[u].type = "EXACT" =>
               KeyBlock(u, r, j) \in Sram /\ KeyBlock(u, r, j) \in SramBlocks(conf[u])
      BY <1>14, TableBlocks
    <3>3. CASE u # t
      <4>1. SramBlocks(conf[u]) \cap SramBlocks(conf[t]) = {}
        BY <3>3 DEF MemInv, DisjointInv
      <4> QED
        BY <1>4, <1>10, <2>1, <3>1, <3>2, <4>1, CellFrame
    <3>4. CASE u = t /\ y # x
      BY <1>4, <1>9, <2>1, <3>1, <3>2, <3>4, CellFrame
    <3>5. CASE u = t /\ r # s
      <4>1. /\ ValueBlock(t, r) # ValueBlock(t, s)
            /\ \A j, l \in Chunk : KeyBlock(t, r, j) # KeyBlock(t, s, l)
            /\ \A j \in Chunk : /\ KeyBlock(t, r, j) # ValueBlock(t, s)
                                /\ KeyBlock(t, s, j) # ValueBlock(t, r)
        BY <1>2, <1>4, <1>14, <3>5, ConfigInjective DEF KeyBlock, ValueBlock, Slices
      <4> QED
        BY <1>4, <1>9, <2>1, <3>1, <3>2, <3>5, <4>1, CellFrame
    <3> QED
      BY <2>4, <3>3, <3>4, <3>5
  <2> QED
    BY <2>3, <2>4
<1>15. ContentInv'
  BY <1>4, <1>14 DEF ContentInv, Pending, Slices
<1> QED
  BY <1>12, <1>13, <1>15 DEF MemInv

(* The first half of insert_tcam_entry makes its cell the pending one and  *)
(* leaves the others alone.                                                *)
LEMMA PutKeyMem ==
    ASSUME TypeOK, HandlerInv, MemInv, PutKey
    PROVE  MemInv'
<1> DEFINE s == SliceOf(th, ent.key)
           x == tcam_idx[th]
<1>1. /\ th \in Thread /\ Ternary(th) /\ conf[th] # NoConf /\ conf[th].type = "TERNARY"
      /\ ent \in Entry /\ ent.key \in Key /\ ent.mask \in Key
  BY DEF TypeOK, HandlerInv, PutKey, Entry, Ternary
<1>2. conf[th] \in Request /\ s \in Slices(th)
  BY <1>1, SliceInTable
<1>3. x \in Slot
  BY <1>1, SizeAssumption DEF TypeOK, PutKey, Slot, SizeAssumption
<1>4. /\ pc = "put_key" /\ pc' = "put_val"
      /\ tbl' = Write(tbl, th, s, x, ent.key) /\ mask' = Write(mask, th, s, x, ent.mask)
      /\ UNCHANGED <<sram, conf, tcam_idx, th, ent, put, mixed>>
  BY DEF PutKey, cfgVars
<1>5. tbl \in [Tcam -> [Slot -> Word]] /\ mask \in [Tcam -> [Slot -> Word]]
  BY DEF TypeOK
<1>6. \A u \in Thread : \A r, y : Pending(u, r, y)' <=> u = th /\ r = s /\ y = x
  BY <1>4 DEF Pending, SliceOf
<1>7. \A u \in Thread : \A r, y : ~Pending(u, r, y)
  BY <1>4 DEF Pending
<1> HIDE DEF s, x
<1>8. \A j \in Chunk : KeyBlock(th, s, j) \in Tcam /\ KeyBlock(th, s, j) \in TcamBlocks(conf[th])
  BY <1>1, <1>2, TableBlocks
<1>9. \A j \in Chunk : KeyBlock(th, s, j) \in Tcam
  BY <1>8
<1>10. /\ \A j \in Chunk : tbl'[KeyBlock(th, s, j)][x] \cap KeyPart[j] = ent.key[j]
       /\ \A b \in Tcam, y \in Slot :
            y # x \/ (\A j \in Chunk : KeyBlock(th, s, j) # b) => tbl'[b][y] = tbl[b][y]
  <2>1. tbl \in [Tcam -> [Slot -> Word]] /\ ent.key \in Key
    BY <1>1, <1>5
  <2>2. /\ \A j \in Chunk :
             Write(tbl, th, s, x, ent.key)[KeyBlock(th, s, j)][x] \cap KeyPart[j] = ent.key[j]
        /\ \A b \in Tcam, y \in Slot :
             y # x \/ (\A j \in Chunk : KeyBlock(th, s, j) # b) =>
                 Write(tbl, th, s, x, ent.key)[b][y] = tbl[b][y]
    BY <1>1, <1>2, <1>3, <1>9, <2>1, WriteTcam
  <2> QED
    BY <1>4, <2>2
<1>11. /\ \A j \in Chunk : mask'[KeyBlock(th, s, j)][x] \cap KeyPart[j] = ent.mask[j]
       /\ \A b \in Tcam, y \in Slot :
            y # x \/ (\A j \in Chunk : KeyBlock(th, s, j) # b) => mask'[b][y] = mask[b][y]
  <2>1. mask \in [Tcam -> [Slot -> Word]] /\ ent.mask \in Key
    BY <1>1, <1>5
  <2>2. /\ \A j \in Chunk :
             Write(mask, th, s, x, ent.mask)[KeyBlock(th, s, j)][x] \cap KeyPart[j] = ent.mask[j]
        /\ \A b \in Tcam, y \in Slot :
             y # x \/ (\A j \in Chunk : KeyBlock(th, s, j) # b) =>
                 Write(mask, th, s, x, ent.mask)[b][y] = mask[b][y]
    BY <1>1, <1>2, <1>3, <1>9, <2>1, WriteTcam
  <2> QED
    BY <1>4, <2>2
<1>12. \A b \in Tcam, y \in Slot : b \notin TcamBlocks(conf[th]) =>
          tbl'[b][y] = tbl[b][y] /\ mask'[b][y] = mask[b][y]
  BY <1>8, <1>10, <1>11
<1>13. IdxInv' /\ DisjointInv'
  BY <1>4 DEF MemInv, IdxInv, DisjointInv, Ternary, Slices
<1>14. ClearInv'
  BY <1>1, <1>4, <1>12 DEF MemInv, ClearInv
<1>15. ASSUME NEW u \in Thread \ mixed, conf[u] # NoConf, NEW r \in Slices(u), NEW y \in Slot,
              ~(u = th /\ r = s /\ y = x)
       PROVE  CellHolds(u, r, y)'
  <2>1. CellHolds(u, r, y)
    BY <1>7, <1>15 DEF MemInv, ContentInv
  <2>2. conf[u] \in Request /\ conf[u].type \in {"EXACT", "TERNARY"}
    BY <1>1, <1>15, SliceInTable, ConfigIndex DEF Slices
  <2>3. \A j \in Chunk : conf[u].type # "EXACT" =>
           KeyBlock(u, r, j) \in Tcam /\ KeyBlock(u, r, j) \in TcamBlocks(conf[u])
    BY <1>15, <2>2, TableBlocks
  <2>4. CASE u # th
    <3>1. TcamBlocks(conf[u]) \cap TcamBlocks(conf[th]) = {}
      BY <1>1, <2>4 DEF MemInv, DisjointInv
    <3> QED
      BY <1>4, <1>12, <2>1, <2>3, <3>1, CellFrame
  <2>5. CASE u = th /\ y # x
    BY <1>4, <1>10, <1>11, <2>1, <2>3, <2>5, CellFrame
  <2>6. CASE u = th /\ r # s
    <3>1. \A j, l \in Chunk : KeyBlock(th, r, j) # KeyBlock(th, s, l)
      BY <1>2, <1>15, <2>6, ConfigInjective DEF KeyBlock, Slices
    <3> QED
      BY <1>4, <1>10, <1>11, <2>1, <2>3, <2>6, <3>1, CellFrame
  <2> QED
    BY <1>15, <2>4, <2>5, <2>6
<1>16. ASSUME NEW u \in Thread, NEW r \in Slices(u), NEW y \in Slot, u = th, r = s, y = x
       PROVE  KeyPut(u, r, y)'
  <2>1. \A j \in Chunk : KeyBlock(u, r, j)' = KeyBlock(th, s, j)
    BY <1>4, <1>16 DEF KeyBlock
  <2> QED
    BY <1>4, <1>10, <1>11, <1>16, <2>1 DEF KeyPut
<1>17. ContentInv'
  BY <1>4, <1>6, <1>15, <1>16 DEF ContentInv, Slices
<1> QED
  BY <1>13, <1>14, <1>17 DEF MemInv

(* The second half completes the pending cell and counts its slot.         *)
LEMMA PutValueMem ==
    ASSUME TypeOK, HandlerInv, MemInv, PutValue
    PROVE  MemInv'
<1> DEFINE s == SliceOf(th, ent.key)
           x == tcam_idx[th]
<1>1. /\ th \in Thread /\ Ternary(th) /\ conf[th] # NoConf /\ conf[th].type = "TERNARY"
      /\ ent \in TableEntry /\ ent.key \in Key
      /\ ent.value \in Word /\ ent.part \in Word /\ ent.value \subseteq ent.part
  BY DEF TypeOK, HandlerInv, PutValue, Entry, Ternary
<1>2. conf[th] \in Request /\ s \in Slices(th) /\ s \in 0 .. NSram - 1
  BY <1>1, SliceInTable
<1>3. x \in Slot
  BY <1>1, SizeAssumption DEF TypeOK, PutValue, Slot, SizeAssumption, HandlerInv
<1>4. /\ pc = "put_val" /\ pc' = "idle"
      /\ sram' = [sram EXCEPT ![ValueBlock(th, s)][x] = Splice(@, ent.value, ent.part)]
      /\ put' = [put EXCEPT ![th][s][x] = ent]
      /\ tcam_idx' = [tcam_idx EXCEPT ![th] = x + 1]
      /\ UNCHANGED <<tbl, mask, conf, mixed>>
  BY DEF PutValue, NextIdx
<1>5. \A u \in Thread : \A r, y : Pending(u, r, y) <=> u = th /\ r = s /\ y = x
  BY <1>4 DEF Pending
<1>6. \A u \in Thread : \A r, y : ~Pending(u, r, y)'
  BY <1>4 DEF Pending
<1>7. tcam_idx'[th] = x + 1 /\ \A u \in Thread : u # th => tcam_idx'[u] = tcam_idx[u]
  BY <1>1, <1>4 DEF TypeOK
<1>8. x = tcam_idx[th]
  OBVIOUS
<1> HIDE DEF s, x
<1>9. \A u \in Thread, r \in 0 .. NSram - 1, y \in Slot :
          put'[u][r][y] = IF u = th /\ r = s /\ y = x THEN ent ELSE put[u][r][y]
  <2>1. put \in [Thread -> [0 .. NSram - 1 -> [Slot -> TableEntry \cup {NoEntry}]]]
    BY DEF TypeOK
  <2> QED
    BY <1>1, <1>2, <1>3, <1>4, <2>1
<1>10. ValueBlock(th, s) \in Sram /\ ValueBlock(th, s) \in SramBlocks(conf[th])
  BY <1>1, <1>2, TableBlocks
<1>11. /\ sram'[ValueBlock(th, s)][x] \cap ent.part = ent.value
       /\ \A b \in Sram, y \in Slot :
            y # x \/ b # ValueBlock(th, s) => sram'[b][y] = sram[b][y]
  <2>1. sram \in [Sram -> [Slot -> Word]]
    BY DEF TypeOK
  <2>2. sram[ValueBlock(th, s)][x] \in Word
    BY <1>3, <1>10, <2>1
  <2>3. Splice(sram[ValueBlock(th, s)][x], ent.value, ent.part) \cap ent.part = ent.value
    BY <1>1, <2>2, SpliceFacts
  <2> QED
    BY <1>3, <1>4, <1>10, <2>1, <2>3
<1>12. ent # NoEntry
  BY <1>1, EntryAssumption DEF EntryAssumption
<1>13. IdxInv'
  <2>1. \A u \in Thread : (Ternary(u)' <=> Ternary(u)) /\ Slices(u)' = Slices(u)
    BY <1>4 DEF Ternary, Slices
  <2>2. ASSUME NEW u \in Thread, Ternary(u), NEW y \in 0 .. tcam_idx'[u] - 1
        PROVE  \E r \in Slices(u) : put'[u][r][y] # NoEntry
    <3>1. y \in Slot
      <4>0. tcam_idx[u] \in 0 .. NSlot /\ x + 1 \in 0 .. NSlot
        BY <1>3, SizeAssumption DEF TypeOK, Slot, SizeAssumption
      <4>1. tcam_idx'[u] \in 0 .. NSlot
        BY <1>7, <4>0
      <4> QED
        BY <4>1, SizeAssumption DEF Slot, SizeAssumption
    <3>2. Slices(u) \subseteq 0 .. NSram - 1
      BY <1>1, <2>2, SliceInTable DEF Ternary
    <3>3. CASE u = th /\ y = x
      BY <1>2, <1>3, <1>9, <1>12, <3>3
    <3>4. CASE ~(u = th /\ y = x)
      <4>1. y \in 0 .. tcam_idx[u] - 1
        BY <1>3, <1>7, <1>8, <3>4 DEF TypeOK, Slot
      <4>2. PICK r \in Slices(u) : put[u][r][y] # NoEntry
        BY <2>2, <4>1 DEF MemInv, IdxInv
      <4> QED
        BY <1>9, <3>1, <3>2, <3>4, <4>2
    <3> QED
      BY <3>3, <3>4
  <2>3. \A u \in Thread : ~Ternary(u) => tcam_idx'[u] = 0
    BY <1>1, <1>7 DEF MemInv, IdxInv
  <2> QED
    BY <2>1, <2>2, <2>3 DEF IdxInv
<1>14. DisjointInv' /\ ClearInv'
  <2>1. \A b \in Sram, y \in Slot : b \notin SramBlocks(conf[th]) => sram'[b][y] = sram[b][y]
    BY <1>10, <1>11
  <2>2. DisjointInv'
    BY <1>4 DEF MemInv, DisjointInv
  <2>3. ClearInv'
    BY <1>1, <1>4, <2>1 DEF MemInv, ClearInv
  <2> QED
    BY <2>2, <2>3
<1>15. ASSUME NEW u \in Thread \ mixed, conf[u] # NoConf, NEW r \in Slices(u), NEW y \in Slot
       PROVE  CellHolds(u, r, y)'
  <2>1. r \in 0 .. NSram - 1 /\ conf[u] \in Request /\ conf[u].type \in {"EXACT", "TERNARY"}
    BY <1>1, <1>15, SliceInTable, ConfigIndex DEF Slices
  <2>2. CASE u = th /\ r = s /\ y = x
    <3>1. put'[u][r][y] = ent /\ conf'[u] = conf[u] /\ conf'[u].type # "EXACT"
      BY <1>1, <1>4, <1>9, <2>1, <2>2
    <3>2. At(u, r, y)' = ent
      BY <1>12, <3>1 DEF At
    <3>3. /\ ValueBlock(u, r)' = ValueBlock(th, s)
          /\ \A j \in Chunk : KeyBlock(u, r, j)' = KeyBlock(th, s, j)
      BY <2>2, <3>1 DEF ValueBlock, KeyBlock
    <3>4. KeyPut(u, r, y)
      BY <1>5, <1>15, <2>2 DEF MemInv, ContentInv
    <3> QED
      BY <1>4, <1>11, <2>2, <3>1, <3>2, <3>3, <3>4 DEF CellHolds, KeyPut
  <2>3. CASE ~(u = th /\ r = s /\ y = x)
    <3>1. CellHolds(u, r, y)
      BY <1>5, <1>15, <2>3 DEF MemInv, ContentInv
    <3>2. put'[u][r][y] = put[u][r][y]
      BY <1>9, <2>1, <2>3
    <3>3. /\ ValueBlock(u, r) \in Sram /\ ValueBlock(u, r) \in SramBlocks(conf[u])
          /\ \A j \in Chunk : conf[u].type = "EXACT" =>
               KeyBlock(u, r, j) \in Sram /\ KeyBlock(u, r, j) \in SramBlocks(conf[u])
      BY <1>15, TableBlocks
    <3>4. CASE u # th
      <4>1. SramBlocks(conf[u]) \cap SramBlocks(conf[th]) = {}
        BY <1>1, <3>4 DEF MemInv, DisjointInv
      <4> QED
        BY <1>4, <1>10, <1>11, <3>1, <3>2, <3>3, <4>1, CellFrame
    <3>5. CASE u = th /\ y # x
      BY <1>4, <1>11, <3>1, <3>2, <3>3, <3>5, CellFrame
    <3>6. CASE u = th /\ r # s
      <4>1. ValueBlock(th, r) # ValueBlock(th, s)
        BY <1>2, <1>15, <3>6, ConfigInjective DEF ValueBlock, Slices
      <4> QED
        BY <1>1, <1>4, <1>11, <3>1, <3>2, <3>3, <3>6, <4>1, CellFrame
    <3> QED
      BY <2>3, <3>4, <3>5, <3>6
  <2> QED
    BY <2>2, <2>3
<1>16. ContentInv'
  BY <1>4, <1>6, <1>15 DEF ContentInv, Slices
<1> QED
  BY <1>13, <1>14, <1>16 DEF MemInv

(* setMemConfig leaves the blocks of the table that goes clear, so that    *)
(* the table that comes, over blocks nobody has, starts empty, and no      *)
(* table that has its blocks to itself is touched.                         *)
LEMMA SetMemConfigMem ==
    ASSUME TypeOK, HandlerInv, MemInv, NEW t \in Thread, NEW r \in Request \cup {NoConf},
           SetMemConfig(t, r)
    PROVE  MemInv'
<1> DEFINE old == conf[t]
<1>1. /\ pc = "idle" /\ pc' = "idle"
      /\ mixed' = (mixed \ {t}) \cup Sharing(r, t) \cup {u \in {t} : Sharing(r, t) # {}}
      /\ conf' = [conf EXCEPT ![t] = r] /\ put' = [put EXCEPT ![t] = NoPut]
  BY DEF SetMemConfig, rpcVars
<1>2. /\ conf'[t] = r /\ \A u \in Thread : u # t => conf'[u] = conf[u]
      /\ put'[t] = NoPut /\ \A u \in Thread : u # t => put'[u] = put[u]
  BY <1>1 DEF TypeOK
<1>3. \A b \in Tcam, x \in Slot :
        /\ b \in TcamBlocks(old) => tbl'[b][x] = Zero /\ mask'[b][x] = Zero
        /\ b \notin TcamBlocks(old) => tbl'[b][x] = tbl[b][x] /\ mask'[b][x] = mask[b][x]
  BY DEF SetMemConfig, ClearedMask
<1>4. \A b \in Sram, x \in Slot :
        /\ b \in SramBlocks(old) /\ x < NSlot \div 2 => sram'[b][x] = Zero
        /\ b \notin SramBlocks(old) => sram'[b][x] = sram[b][x]
  BY DEF SetMemConfig, ClearedSram
<1>5. tcam_idx'[t] = 0 /\ \A u \in Thread : u # t => tcam_idx'[u] = tcam_idx[u]
  BY DEF SetMemConfig, ResetIdx, TypeOK, MemInv, IdxInv, Ternary
<1>6. /\ t \notin mixed' => \A u \in Thread \ {t} :
           /\ SramBlocks(r) \cap SramBlocks(conf[u]) = {}
           /\ TcamBlocks(r) \cap TcamBlocks(conf[u]) = {}
      /\ \A u \in Thread \ mixed' : u # t =>
           /\ u \notin mixed
           /\ SramBlocks(r) \cap SramBlocks(conf[u]) = {}
           /\ TcamBlocks(r) \cap TcamBlocks(conf[u]) = {}
           /\ SramBlocks(old) \cap SramBlocks(conf[u]) = {}
           /\ TcamBlocks(old) \cap TcamBlocks(conf[u]) = {}
  BY <1>1 DEF Sharing, MemInv, DisjointInv
<1>7. \A u \in Thread : \A s, x : ~Pending(u, s, x) /\ ~Pending(u, s, x)'
  BY <1>1 DEF Pending
<1>8. IdxInv'
  <2>1. \A u \in Thread : u # t => (Ternary(u)' <=> Ternary(u)) /\ Slices(u)' = Slices(u)
    BY <1>2 DEF Ternary, Slices
  <2>2. ASSUME NEW u \in Thread, u # t
        PROVE  /\ ~Ternary(u)' => tcam_idx'[u] = 0
               /\ Ternary(u)' => \A x \in 0 .. tcam_idx'[u] - 1 :
                                   \E s \in Slices(u)' : put'[u][s][x] # NoEntry
    BY <1>2, <1>5, <2>1, <2>2 DEF MemInv, IdxInv
  <2>3. \A x \in 0 .. tcam_idx'[t] - 1 : FALSE
    BY <1>5
  <2> QED
    BY <1>5, <2>2, <2>3 DEF IdxInv
<1>9. DisjointInv'
  BY <1>2, <1>6 DEF MemInv, DisjointInv
(* A block that no other table has is clear after the step.                *)
<1>10. \A b \in Sram, x \in Slot :
          (\A u \in Thread \ {t} : b \notin SramBlocks(conf[u])) /\ x < NSlot \div 2 => sram'[b][x] = Zero
  BY <1>4 DEF MemInv, ClearInv
<1>11. \A b \in Tcam, x \in Slot :
          (\A u \in Thread \ {t} : b \notin TcamBlocks(conf[u])) => tbl'[b][x] = Zero /\ mask'[b][x] = Zero
  BY <1>3 DEF MemInv, ClearInv
<1>12. ClearInv'
  BY <1>2, <1>10, <1>11 DEF ClearInv
<1>13. ASSUME NEW u \in Thread \ mixed', u # t, conf[u] # NoConf, NEW s \in Slices(u), NEW x \in Slot
       PROVE  CellHolds(u, s, x)'
  <2>1. CellHolds(u, s, x)
    BY <1>6, <1>7, <1>13 DEF MemInv, ContentInv
  <2>2. conf[u] \in Request /\ conf[u].type \in {"EXACT", "TERNARY"}
    BY <1>13, ConfigIndex DEF Slices, TypeOK
  <2>3. /\ ValueBlock(u, s) \in Sram /\ ValueBlock(u, s) \notin SramBlocks(old)
        /\ \A j \in Chunk : conf[u].type = "EXACT" =>
             KeyBlock(u, s, j) \in Sram /\ KeyBlock(u, s, j) \notin SramBlocks(old)
        /\ \A j \in Chunk : conf[u].type # "EXACT" =>
             KeyBlock(u, s, j) \in Tcam /\ KeyBlock(u, s, j) \notin TcamBlocks(old)
    BY <1>6, <1>13, <2>2, TableBlocks
  <2>4. conf'[u] = conf[u] /\ put'[u][s][x] = put[u][s][x]
    BY <1>2, <1>13
  <2> HIDE DEF old
  <2> QED
    BY <1>3, <1>4, <2>1, <2>3, <2>4, CellFrame
<1>14. ASSUME t \notin mixed', r # NoConf, NEW s \in 0 .. r.depth - 1, NEW x \in Slot
       PROVE  CellHolds(t, s, x)'
  <2>1. r \in Request /\ r.type \in {"EXACT", "TERNARY"} /\ s \in 0 .. NSram - 1
    BY <1>14, ConfigIndex
  <2>2. /\ r.value[s] \in Sram /\ r.value[s] \in SramBlocks(r)
        /\ \A j \in Chunk : r.type = "EXACT" =>
             r.key[s + r.depth * j] \in Sram /\ r.key[s + r.depth * j] \in SramBlocks(r)
        /\ \A j \in Chunk : r.type = "TERNARY" =>
             r.key[s + r.depth * j] \in Tcam /\ r.key[s + r.depth * j] \in TcamBlocks(r)
    BY <2>1, ConfigBlocks
  <2>3. /\ x < NSlot \div 2 => sram'[r.value[s]][x] = Zero
        /\ r.type = "EXACT" /\ x < NSlot \div 2 =>
             \A j \in Chunk : sram'[r.key[s + r.depth * j]][x] = Zero
        /\ r.type = "TERNARY" => \A j \in Chunk : /\ tbl'[r.key[s + r.depth * j]][x] = Zero
                                                  /\ mask'[r.key[s + r.depth * j]][x] = Zero
    BY <1>6, <1>10, <1>11, <1>14, <2>2
  <2>4. put'[t][s][x] = NoEntry
    BY <1>2, <2>1 DEF NoPut
  <2>5. /\ At(t, s, x)' = NullEntry
        /\ ValueBlock(t, s)' = r.value[s]
        /\ \A j \in Chunk : KeyBlock(t, s, j)' = r.key[s + r.depth * j]
    BY <1>2, <2>4 DEF At, ValueBlock, KeyBlock
  <2>6. /\ NullEntry.value = Zero
        /\ \A j \in Chunk : NullEntry.key[j] = Zero /\ NullEntry.mask[j] = Zero
    BY DEF NullEntry, ZeroKey
  <2>7. \A part : Zero \cap part = Zero
    BY DEF Zero
  <2> QED
    BY <1>2, <2>1, <2>3, <2>4, <2>5, <2>6, <2>7 DEF CellHolds
<1>15. ContentInv'
  BY <1>2, <1>7, <1>13, <1>14 DEF ContentInv, Slices
<1> QED
  BY <1>8, <1>9, <1>12, <1>15 DEF MemInv

(* One step of a handler or of a lookup.                                   *)
LEMMA MemStep == CodeInv /\ MemInv /\ [Next]_vars => MemInv'
<1> SUFFICES ASSUME CodeInv, MemInv, [Next]_vars PROVE MemInv'
  OBVIOUS
<1>0. TypeOK /\ HandlerInv
  BY DEF CodeInv
<1>1. ASSUME NEW t \in Thread, NEW r \in Request \cup {NoConf}, SetMemConfig(t, r) PROVE MemInv'
  BY <1>0, <1>1, SetMemConfigMem
<1>2. ASSUME NEW t \in Thread, SetFieldInfo(t) PROVE MemInv'
  BY <1>2, MemFrame DEF SetFieldInfo, rpcVars
<1>3. ASSUME NEW t \in Thread, NEW e \in TableEntry, InsertSram(t, e) PROVE MemInv'
  BY <1>0, <1>3, InsertSramMem
<1>4. ASSUME NEW t \in Thread, NEW e \in TableEntry, StartInsert(t, e) PROVE MemInv'
  BY <1>4, MemFrame DEF StartInsert, cfgVars
<1>5. CASE PutLost
  BY <1>5, MemFrame DEF PutLost, cfgVars
<1>6. CASE PutKey
  BY <1>0, <1>6, PutKeyMem
<1>7. CASE PutValue
  BY <1>0, <1>7, PutValueMem
<1>8. ASSUME NEW t \in Thread, NEW k \in PacketKey, NEW m \in Key, Execute(t, k, m) PROVE MemInv'
  BY <1>8, MemFrame DEF Execute, cfgVars, rpcVars
<1>9. CASE Scan
  BY <1>9, MemFrame DEF Scan, cfgVars, rpcVars
<1>10. CASE Copy
  BY <1>10, MemFrame DEF Copy, cfgVars, rpcVars
<1>11. CASE Return
  BY <1>11, MemFrame DEF Return, cfgVars, rpcVars
<1>12. CASE UNCHANGED vars
  BY <1>12, MemFrame DEF vars, cfgVars, rpcVars
<1> QED
  BY <1>1, <1>2, <1>3, <1>4, <1>5, <1>6, <1>7, <1>8, <1>9, <1>10, <1>11, <1>12 DEF Next

-----------------------------------------------------------------------------
(***************************************************************************)
(* What a lookup sees.                                                     *)
(***************************************************************************)
Searching == pp \in {"scan", "copy", "hit"}

(* A step of a handler that is not at the lookup's table.                  *)
LEMMA LookupFrame ==
    ASSUME LookupInv, UNCHANGED pktVars, quiet' => quiet,
           quiet' /\ Searching => /\ th' # pt /\ conf'[pt] = conf[pt] /\ put'[pt] = put[pt]
                                  /\ pt \in mixed => pt \in mixed'
    PROVE  LookupInv'
<1> SUFFICES ASSUME quiet', Searching' PROVE LookupInv'
  BY DEF LookupInv, Searching
<1>1. /\ quiet /\ Searching
      /\ th' # pt /\ conf'[pt] = conf[pt] /\ put'[pt] = put[pt]
      /\ pt \in mixed => pt \in mixed'
  BY DEF Searching, pktVars
<1>2. /\ Ternary(pt)' <=> Ternary(pt)
      /\ SearchSlice(pt, pk, pf)' = SearchSlice(pt, pk, pf)
      /\ \A s, x : At(pt, s, x)' = At(pt, s, x)
      /\ \A s, j : KeyBlock(pt, s, j)' = KeyBlock(pt, s, j)
      /\ \A s : ValueBlock(pt, s)' = ValueBlock(pt, s)
  BY <1>1 DEF pktVars, Ternary, SearchSlice, SliceOf, At, KeyBlock, ValueBlock
<1>3. \A x : Fits(x)' <=> Fits(x)
  BY <1>2 DEF Fits, pktVars
<1>4. QuietLookup'
  BY <1>1, <1>2 DEF QuietLookup, pktVars, LookupInv, Searching
<1> QED
  BY <1>1, <1>2, <1>3, <1>4 DEF LookupInv, Searching, pktVars

(* A handler's step leaves the table of a quiet lookup alone, or ends its  *)
(* being quiet.                                                            *)
LEMMA HandlerLookup ==
    ASSUME CodeInv, LookupInv,
           \/ \E t \in Thread, r \in Request \cup {NoConf} : SetMemConfig(t, r)
           \/ \E t \in Thread : SetFieldInfo(t)
           \/ \E t \in Thread, e \in TableEntry : InsertSram(t, e)
           \/ \E t \in Thread, e \in TableEntry : StartInsert(t, e)
           \/ PutLost \/ PutKey \/ PutValue
    PROVE  LookupInv'
<1>1. TypeOK /\ HandlerInv /\ PacketInv
  BY DEF CodeInv
<1>2. quiet /\ Searching => pt \in Thread /\ th # pt /\ Ternary(pt)
  BY <1>1 DEF PacketInv, LookupInv, Searching
<1>3. conf \in [Thread -> Request \cup {NoConf}]
      /\ put \in [Thread -> [0 .. NSram - 1 -> [Slot -> TableEntry \cup {NoEntry}]]]
  BY <1>1 DEF TypeOK
<1>4. ASSUME NEW t \in Thread, NEW r \in Request \cup {NoConf}, SetMemConfig(t, r) PROVE LookupInv'
  <2>1. /\ UNCHANGED <<th, pktVars>> /\ quiet' = (quiet /\ pt # t)
        /\ conf' = [conf EXCEPT ![t] = r] /\ put' = [put EXCEPT ![t] = NoPut]
        /\ mixed \ {t} \subseteq mixed'
    BY <1>4 DEF SetMemConfig, rpcVars
  <2> QED
    BY <1>2, <1>3, <2>1, LookupFrame
<1>5. ASSUME NEW t \in Thread, SetFieldInfo(t) PROVE LookupInv'
  BY <1>2, <1>5, LookupFrame DEF SetFieldInfo, rpcVars
<1>6. ASSUME NEW t \in Thread, NEW e \in TableEntry, InsertSram(t, e) PROVE LookupInv'
  <2>1. conf[t].type # "TERNARY" /\ UNCHANGED <<th, conf, pktVars, mixed, quiet>>
    BY <1>6 DEF InsertSram, rpcVars, cfgVars
  <2>2. \A u \in Thread : u # t => put'[u] = put[u]
    BY <1>3, <1>6 DEF InsertSram
  <2> QED
    BY <1>2, <2>1, <2>2, LookupFrame DEF Ternary
<1>7. ASSUME NEW t \in Thread, NEW e \in TableEntry, StartInsert(t, e) PROVE LookupInv'
  BY <1>2, <1>7, LookupFrame DEF StartInsert, cfgVars
<1>8. CASE PutLost
  BY <1>8 DEF PutLost, LookupInv
<1>9. CASE PutKey
  BY <1>2, <1>9, LookupFrame DEF PutKey, cfgVars
<1>10. CASE PutValue
  <2>1. UNCHANGED <<conf, pktVars, mixed, quiet>> /\ th' = NoThread
    BY <1>10 DEF PutValue
  <2>2. \A u \in Thread : u # th => put'[u] = put[u]
    BY <1>3, <1>10 DEF PutValue
  <2>3. NoThread \notin Thread
    BY RequestAssumption DEF RequestAssumption
  <2> QED
    BY <1>2, <2>1, <2>2, <2>3, LookupFrame
<1> QED
  BY <1>4, <1>5, <1>6, <1>7, <1>8, <1>9, <1>10

(* The words a quiet lookup reads are those of its slice's entries.        *)
LEMMA QuietCell ==
    ASSUME CodeInv, MemInv, LookupInv, quiet, Searching, pt \notin mixed, NEW x \in Slot
    PROVE  LET s == SearchSlice(pt, pk, pf) IN
           /\ \A j \in Chunk : /\ mask[pkb[j]][x] \cap KeyPart[j] = At(pt, s, x).mask[j]
                               /\ tbl[pkb[j]][x] \cap KeyPart[j] = At(pt, s, x).key[j]
           /\ put[pt][s][x] # NoEntry \/ x < NSlot \div 2 =>
                 sram[pvb][x] \cap At(pt, s, x).part = At(pt, s, x).value
<1> DEFINE s == SearchSlice(pt, pk, pf)
<1>1. TypeOK /\ PacketInv /\ pt \in Thread /\ th # pt /\ Ternary(pt) /\ pk \in Key /\ pf \in BOOLEAN
  BY DEF CodeInv, PacketInv, LookupInv, Searching, TypeOK
<1>2. s \in Slices(pt) /\ conf[pt] # NoConf /\ conf[pt].type = "TERNARY"
  BY <1>1, SliceInTable DEF Ternary
<1>3. /\ \A j \in Chunk : pkb[j] = KeyBlock(pt, s, j)
      /\ pvb = ValueBlock(pt, s)
  BY DEF LookupInv, Searching
<1>4. CellHolds(pt, s, x)
  BY <1>1, <1>2 DEF MemInv, ContentInv, Pending
<1> HIDE DEF s
<1> QED
  BY <1>2, <1>3, <1>4 DEF CellHolds, s

(* A step of a scan keeps what a quiet lookup has seen in line with the    *)
(* history.                                                                *)
LEMMA PacketLookup ==
    ASSUME CodeInv, MemInv, LookupInv,
           \/ \E t \in Thread, k \in PacketKey, m \in Key : Execute(t, k, m)
           \/ Scan \/ Copy \/ Return
    PROVE  LookupInv'
<1>1. TypeOK /\ PacketInv
  BY DEF CodeInv
<1>2. ASSUME NEW t \in Thread, NEW k \in PacketKey, NEW m \in Key, Execute(t, k, m) PROVE LookupInv'
  <2>1. /\ pp' = "scan" /\ pt' = t /\ pk' = k /\ pf' = fdInfos[t] /\ pi' = 0
        /\ conf' = conf /\ th' = th /\ quiet' = (th # t)
        /\ conf[t] # NoConf /\ conf[t].type = "TERNARY"
    BY <1>2 DEF Execute, cfgVars, rpcVars
  <2>2. SearchSlice(pt, pk, pf)' = SearchSlice(t, k, fdInfos[t])
    BY <2>1 DEF SearchSlice, SliceOf
  <2>3. /\ \A j \in Chunk : pkb'[j] = KeyBlock(pt, SearchSlice(pt, pk, pf), j)'
        /\ pvb' = ValueBlock(pt, SearchSlice(pt, pk, pf))'
    BY <1>2, <2>1, <2>2 DEF Execute, KeyBlock, ValueBlock
  <2>4. \A x \in 0 .. pi' - 1 : FALSE
    BY <2>1
  <2>5. QuietLookup'
    BY <2>1 DEF QuietLookup
  <2> QED
    BY <2>1, <2>3, <2>4, <2>5 DEF LookupInv, Ternary
<1>3. CASE Scan
  <2> SUFFICES ASSUME quiet' PROVE LookupInv'
    BY DEF LookupInv
  <2>1. /\ UNCHANGED <<conf, th, pt, pk, pf, pkb, pvb, pm, put, mixed, quiet>>
        /\ pp = "scan" /\ pi < NSlot /\ quiet /\ Searching
    BY <1>3 DEF Scan, cfgVars, rpcVars, Searching
  <2>2. pi \in Slot
    BY <1>1, <2>1, SizeAssumption DEF TypeOK, Slot, SizeAssumption
  <2>3. /\ Ternary(pt)' <=> Ternary(pt)
        /\ SearchSlice(pt, pk, pf)' = SearchSlice(pt, pk, pf)
        /\ \A s, x : At(pt, s, x)' = At(pt, s, x)
        /\ \A s, j : KeyBlock(pt, s, j)' = KeyBlock(pt, s, j)
        /\ \A s : ValueBlock(pt, s)' = ValueBlock(pt, s)
    BY <2>1 DEF Ternary, SearchSlice, SliceOf, At, KeyBlock, ValueBlock
  <2>4. \A x : Fits(x)' <=> Fits(x)
    BY <2>1, <2>3 DEF Fits
  <2>5. ASSUME pt \notin mixed PROVE Found([j \in Chunk |-> mask[pkb[j]]]) <=> Fits(pi)
    <3>1. \A j \in Chunk :
             mask[pkb[j]][pi] \cap KeyPart[j] = At(pt, SearchSlice(pt, pk, pf), pi).mask[j]
      BY <2>1, <2>2, <2>5, QuietCell
    <3> QED
      BY <3>1 DEF Found, Fits
  <2>6. \/ pp' = "copy" /\ pi' = pi /\ (pt \notin mixed => Fits(pi))
        \/ pp' = "scan" /\ pi' = pi + 1 /\ (pt \notin mixed => ~Fits(pi))
    BY <1>3, <2>1, <2>5 DEF Scan
  <2>7. ASSUME pt \notin mixed PROVE \A x \in 0 .. pi' - 1 : ~Fits(x)
    <3>1. \A x \in 0 .. pi - 1 : ~Fits(x)
      BY <2>1, <2>7 DEF LookupInv
    <3>2. ASSUME NEW x \in 0 .. pi' - 1 PROVE x \in 0 .. pi - 1 \/ (x = pi /\ ~Fits(pi))
      BY <2>2, <2>6, <2>7 DEF Slot
    <3> QED
      BY <3>1, <3>2
  <2>8. QuietLookup'
    BY <2>6 DEF QuietLookup
  <2> QED
    BY <2>1, <2>3, <2>4, <2>6, <2>7, <2>8 DEF LookupInv
<1>4. CASE Copy
  <2> SUFFICES ASSUME quiet' PROVE LookupInv'
    BY DEF LookupInv
  <2>1. /\ UNCHANGED <<conf, th, pt, pk, pf, pkb, pvb, pm, pi, put, mixed, quiet>>
        /\ pp = "copy" /\ pp' = "hit" /\ quiet /\ Searching
        /\ out' = [key |-> [j \in Chunk |-> tbl[pkb[j]][pi]], value |-> sram[pvb][pi]]
    BY <1>4 DEF Copy, cfgVars, rpcVars, Searching
  <2>2. pi \in Slot
    BY <1>1, <2>1 DEF PacketInv
  <2>3. /\ Ternary(pt)' <=> Ternary(pt)
        /\ SearchSlice(pt, pk, pf)' = SearchSlice(pt, pk, pf)
        /\ \A s, x : At(pt, s, x)' = At(pt, s, x)
        /\ \A s, j : KeyBlock(pt, s, j)' = KeyBlock(pt, s, j)
        /\ \A s : ValueBlock(pt, s)' = ValueBlock(pt, s)
    BY <2>1 DEF Ternary, SearchSlice, SliceOf, At, KeyBlock, ValueBlock
  <2>4. \A x : Fits(x)' <=> Fits(x)
    BY <2>1, <2>3 DEF Fits
  <2>5. pt \notin mixed => Fits(pi) /\ \A x \in 0 .. pi - 1 : ~Fits(x)
    BY <2>1 DEF LookupInv
  <2> DEFINE s == SearchSlice(pt, pk, pf)
  <2>6. pt \notin mixed =>
           /\ \A j \in Chunk : tbl[pkb[j]][pi] \cap KeyPart[j] = At(pt, s, pi).key[j]
           /\ put[pt][s][pi] # NoEntry \/ pi < NSlot \div 2 =>
                 sram[pvb][pi] \cap At(pt, s, pi).part = At(pt, s, pi).value
    BY <2>1, <2>2, QuietCell
  <2>7. /\ \A j \in Chunk : out'.key[j] = tbl[pkb[j]][pi]
        /\ out'.value = sram[pvb][pi]
    BY <2>1
  <2>8. QuietLookup'
    BY <2>1, <2>3, <2>5, <2>6, <2>7 DEF QuietLookup, Fits
  <2> QED
    BY <2>1, <2>3, <2>4, <2>5, <2>8 DEF LookupInv
<1>5. CASE Return
  BY <1>5 DEF Return, LookupInv
<1> QED
  BY <1>2, <1>3, <1>4, <1>5

-----------------------------------------------------------------------------
(* The invariant holds in the initial states ...                           *)
LEMMA InvInit == Init => IInv
<1>1. Init => LookupInv
  BY DEF Init, LookupInv
<1> QED
  BY <1>1, CodeInit, MemInit DEF IInv, CodeInv

(* ... and every step keeps it.                                            *)
LEMMA InvStep == IInv /\ [Next]_vars => IInv'
<1> SUFFICES ASSUME IInv, [Next]_vars PROVE IInv'
  OBVIOUS
<1>1. CodeInv /\ MemInv /\ LookupInv
  BY DEF IInv, CodeInv
<1>2. CodeInv' /\ MemInv'
  BY <1>1, CodeStep, MemStep
<1>3. LookupInv'
  <2>1. CASE UNCHANGED vars
    BY <1>1, <2>1, LookupFrame
    DEF vars, cfgVars, rpcVars, LookupInv, Searching
  <2>2. CASE Next
    BY <1>1, <2>2, HandlerLookup, PacketLookup DEF Next
  <2> QED
    BY <2>1, <2>2
<1> QED
  BY <1>2, <1>3 DEF IInv, CodeInv

(* Whatever tables, ternary and exact, had the blocks before, one after    *)
(* the other or several at once, a table that has them to itself and that  *)
(* no handler is changing holds what was inserted into it: key, mask and   *)
(* value of an entry in one slot, nothing of the table beside it, and no   *)
(* key or mask of an earlier table.                                        *)
THEOREM TablesHold == Spec => []TableHolds
<1>1. IInv => TableHolds
  <2> SUFFICES ASSUME IInv, NEW t \in Thread \ mixed, conf[t] # NoConf, th # t,
                      NEW s \in 0 .. conf[t].depth - 1, NEW x \in Slot
               PROVE  CellHolds(t, s, x)
    BY DEF TableHolds
  <2> QED
    BY DEF IInv, MemInv, ContentInv, Slices, Pending
<1> QED
  BY <1>1, InvInit, InvStep, PTL DEF Spec

(* A lookup that met no handler on its own table, which has its blocks to  *)
(* itself, while others changed, stops at the first slot in order of       *)
(* insertion whose mask equals what it compares with, and returns that     *)
(* slot's key and value.                                                   *)
THEOREM QuietLookupsAreExact == Spec => []QuietLookup
<1>1. IInv => QuietLookup
  BY DEF IInv, LookupInv, QuietLookup
<1> QED
  BY <1>1, InvInit, InvStep, PTL DEF Spec

(* insert_tcam_entry, which never compares tcam_idx with the capacity,     *)
(* writes behind the blocks only for a table that has used every slot      *)
(* since it was configured.                                                *)
THEOREM OnlyFullTablesOverrun == Spec => []LostOnlyFull
<1>1. IInv => LostOnlyFull
  <2> SUFFICES ASSUME IInv, pc = "lost", NEW x \in Slot
               PROVE  \E s \in 0 .. conf[th].depth - 1 : put[th][s][x] # NoEntry
    BY DEF LostOnlyFull
  <2>1. th \in Thread /\ Ternary(th) /\ tcam_idx[th] = NSlot
    BY DEF IInv, TypeOK, HandlerInv
  <2>2. x \in 0 .. tcam_idx[th] - 1
    BY <2>1 DEF Slot
  <2> QED
    BY <2>1, <2>2 DEF IInv, MemInv, IdxInv, Slices
<1> QED
  BY <1>1, InvInit, InvStep, PTL DEF Spec
=============================================================================
