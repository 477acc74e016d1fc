------------------------- MODULE MatcherTableProofs -------------------------
(***************************************************************************)
(* The proof that the matcher threads implement the dictionaries of        *)
(* ExactTable.  The content of a table is read from its blocks; the        *)
(* inductive invariant of Matcher says that a cell holds the entry put     *)
(* there last, so the content is determined by that history, and a step    *)
(* changes it only where the history, the depth or the handler changes.    *)
(***************************************************************************)
EXTENDS MatcherTable, MatcherProofs

NoEntries == [s \in Block |-> [x \in Slot |-> NoEntry]]

(* Nothing has been put into a table that is about to be turned on.        *)
NewTableInv == pc \in {"link", "set_miss"} => last[th] = NoEntries

TableInv == IInv /\ NewTableInv

(* The content of a table by what was put into its cells.                  *)
EntryAt(t, c) ==
    [key |-> LastKey(t, c[1], c[2]), value |-> LastValue(t, c[1], c[2])]
Holds(t, c) ==
    c = CellOf(t, LastKey(t, c[1], c[2])) /\ ~Writing(t, c[1], c[2])
Stored(t) == {EntryAt(t, c) : c \in {d \in Cell(t) : Holds(t, d)}}
StoredIn(t) == IF Usable(t) THEN Stored(t) ELSE {}

-----------------------------------------------------------------------------
(* A history entry, or the zero entry in its place, has a key and a value. *)
LEMMA LastTypes ==
    ASSUME TypeOK, NEW t \in Thread, NEW s \in Block, NEW x \in Slot
    PROVE  LastKey(t, s, x) \in Key /\ LastValue(t, s, x) \in Value
  BY NullTypes DEF TypeOK, LastKey, LastValue, Entry

(* A cell that is not being written holds the words put there last.        *)
LEMMA CellWords ==
    ASSUME IInv, NEW t \in Thread, Usable(t), NEW c \in Cell(t), ~Writing(t, c[1], c[2])
    PROVE  /\ KeyAt(t, c) = LastKey(t, c[1], c[2])
           /\ ValueAt(t, c) = LastValue(t, c[1], c[2])
<1>1. pc # "dead" /\ Configured(t) /\ ~(th = t /\ pc \in ZeroPc) /\ t \notin mixed
  BY DEF Usable, Configured, ConfigPc, ZeroPc
<1>2. c[1] \in 0 .. depth[t] - 1 /\ c[2] \in Slot
  BY DEF Cell
<1>3. depth[t] \in Nat /\ depth[t] <= NB
  BY SizeAssumption DEF IInv, TypeOK, Depth, SizeAssumption
<1>4. c[1] \in Block
  BY <1>2, <1>3, SizeAssumption DEF Block, SizeAssumption
<1>5. LastKey(t, c[1], c[2]) \in Key /\ LastValue(t, c[1], c[2]) \in Value
  BY <1>2, <1>4, LastTypes DEF IInv
<1>6. KeyWords(t, c[1], c[2]) /\ ValueWords(t, c[1], c[2])
  BY <1>1, <1>2 DEF IInv, MemInv, ContentInv, TableWords
<1>7. KeyAt(t, c) = LastKey(t, c[1], c[2])
  <2>1. LastKey(t, c[1], c[2]) \in KeyWord
    BY <1>5 DEF Key
  <2>2. \A j \in 0 .. KW - 1 : sram[KeyBlock(t, c[1], j)][c[2]] \cap Copied(KeyBits, j)
                                 = LastKey(t, c[1], c[2])[j]
    BY <1>6 DEF KeyWords, KeyPart
  <2> QED
    BY <2>1, <2>2 DEF KeyAt, CutKey, KeyWord
<1>8. ValueAt(t, c) = LastValue(t, c[1], c[2])
  <2> DEFINE v == LastValue(t, c[1], c[2])
  <2>1. v \in [word : ValueWord, len : Nat]
    BY <1>5 DEF Value
  <2>2. \A j \in 0 .. VW - 1 : sram[ValueBlock(t, c[1], j)][c[2]] \cap Copied(v.len, j) = v.word[j]
    BY <1>6 DEF ValueWords, ValuePart
  <2>3. ValueAt(t, c) = [word |-> [j \in 0 .. VW - 1 |->
                                     sram[ValueBlock(t, c[1], j)][c[2]] \cap Copied(v.len, j)],
                         len |-> v.len]
    BY DEF ValueAt, CutValue
  <2>4. [j \in 0 .. VW - 1 |-> sram[ValueBlock(t, c[1], j)][c[2]] \cap Copied(v.len, j)] = v.word
    BY <2>1, <2>2 DEF ValueWord
  <2> QED
    BY <2>1, <2>3, <2>4
<1> QED
  BY <1>7, <1>8

(* The cell being written is the cell of the key that is inserted.         *)
LEMMA WritingCell ==
    ASSUME NEW t, NEW c \in Cell(t)
    PROVE  Writing(t, c[1], c[2]) <=> (th = t /\ pc \in InsertPc /\ c = CellOf(t, ent.key))
<1>1. c = <<c[1], c[2]>>
  BY DEF Cell
<1> QED
  BY <1>1 DEF Writing, CellOf, KeySlice, KeySlot

(* What the blocks hold is what was put into them.                         *)
LEMMA ContentIsStored ==
    ASSUME IInv
    PROVE  Content = [t \in Thread |-> StoredIn(t)]
<1>1. ASSUME NEW t \in Thread, Usable(t)
      PROVE  {[key |-> KeyAt(t, c), value |-> ValueAt(t, c)] :
                c \in {d \in Cell(t) : Filled(t, d)}} = Stored(t)
  <2>1. \A d \in Cell(t) : Filled(t, d) <=> Holds(t, d)
    <3> TAKE d \in Cell(t)
    <3>1. CASE Writing(t, d[1], d[2])
      BY <3>1, WritingCell DEF Filled, Holds
    <3>2. CASE ~Writing(t, d[1], d[2])
      BY <1>1, <3>2, WritingCell, CellWords DEF Filled, Holds
    <3> QED
      BY <3>1, <3>2
  <2>2. \A d \in Cell(t) : Holds(t, d) =>
          EntryAt(t, d) = [key |-> KeyAt(t, d), value |-> ValueAt(t, d)]
    BY <1>1, CellWords DEF Holds, EntryAt
  <2> QED
    BY <2>1, <2>2 DEF Stored
<1> QED
  BY <1>1 DEF Content, StoredIn

StoredContent == Content = [t \in Thread |-> StoredIn(t)]

(* ... before a step and after it.                                         *)
LEMMA ContentIsStoredNext == IInv' => StoredContent'
<1>1. IInv => StoredContent
  BY ContentIsStored DEF StoredContent
<1> QED
  BY <1>1, PTL


-----------------------------------------------------------------------------
(***************************************************************************)
(* Steps that leave tables alone.                                          *)
(***************************************************************************)

(* A step keeps the content of a table whose depth and history it keeps,   *)
(* and whose cell being written it neither opens nor finishes.             *)
LEMMA StoredFrame ==
    ASSUME NEW t \in Thread, Usable(t)' <=> Usable(t),
           Usable(t) => /\ last'[t] = last[t] /\ depth'[t] = depth[t]
                        /\ \A s, x : Writing(t, s, x)' <=> Writing(t, s, x)
    PROVE  StoredIn(t)' = StoredIn(t)
<1>1. CASE Usable(t)
  <2>1. \A s, x : LastKey(t, s, x)' = LastKey(t, s, x) /\ LastValue(t, s, x)' = LastValue(t, s, x)
    BY <1>1 DEF LastKey, LastValue
  <2>2. \A k : CellOf(t, k)' = CellOf(t, k)
    BY <1>1 DEF CellOf, SliceOf, SlotOf
  <2>3. Cell(t)' = Cell(t)
    BY <1>1 DEF Cell
  <2>4. \A c : EntryAt(t, c)' = EntryAt(t, c) /\ (Holds(t, c)' <=> Holds(t, c))
    BY <1>1, <2>1, <2>2 DEF EntryAt, Holds
  <2>5. Stored(t)' = Stored(t)
    BY <2>3, <2>4 DEF Stored
  <2> QED
    BY <1>1, <2>5 DEF StoredIn
<1>2. CASE ~Usable(t)
  BY <1>2 DEF StoredIn
<1> QED
  BY <1>1, <1>2

(* A step that changes the content of one table.                           *)
LEMMA OneTable ==
    ASSUME IInv, IInv', NEW t \in Thread, NEW S, StoredIn(t)' = S,
           \A u \in Thread \ {t} : StoredIn(u)' = StoredIn(u)
    PROVE  Content' = [Content EXCEPT ![t] = S]
<1>1. Content = [u \in Thread |-> StoredIn(u)] /\ Content' = [u \in Thread |-> StoredIn(u)']
  BY ContentIsStored, ContentIsStoredNext DEF StoredContent
<1> QED
  BY <1>1

(* A step that the dictionaries do not see.                                *)
LEMMA Stutter ==
    ASSUME IInv, IInv', Inserting' = Inserting,
           \A t \in Thread : Usable(t)' <=> Usable(t),
           \A t \in Thread : StoredIn(t)' = StoredIn(t)
    PROVE  UNCHANGED Dictionary!vars
<1>1. Content = [u \in Thread |-> StoredIn(u)] /\ Content' = [u \in Thread |-> StoredIn(u)']
  BY ContentIsStored, ContentIsStoredNext DEF StoredContent
<1>2. Content' = Content
  BY <1>1
<1>3. InUse' = InUse
  BY DEF InUse
<1> QED
  BY <1>2, <1>3 DEF Dictionary!vars

(* A step that takes tables out of use, or none, and keeps the others.     *)
LEMMA CloseSome ==
    ASSUME IInv, IInv', Inserting = NoInsert, Inserting' = NoInsert,
           \A t \in Thread : Usable(t)' => Usable(t) /\ StoredIn(t)' = StoredIn(t)
    PROVE  (\E S \in SUBSET InUse : Dictionary!Close(S)) \/ UNCHANGED Dictionary!vars
<1>1. Content = [u \in Thread |-> StoredIn(u)] /\ Content' = [u \in Thread |-> StoredIn(u)']
  BY ContentIsStored, ContentIsStoredNext DEF StoredContent
<1>2. \A t \in Thread : /\ ~Usable(t) => StoredIn(t) = {}
                        /\ ~Usable(t)' => StoredIn(t)' = {}
  BY DEF StoredIn
<1>3. PICK S : S = InUse \ InUse'
  OBVIOUS
<1>4. S \in SUBSET InUse /\ InUse' = InUse \ S
  BY <1>3 DEF InUse
<1>5. \A t \in Thread : StoredIn(t)' = IF t \in S THEN {} ELSE StoredIn(t)
  <2> TAKE t \in Thread
  <2>1. CASE t \in S
    BY <1>2, <1>3, <2>1 DEF InUse
  <2>2. CASE t \notin S /\ Usable(t)'
    BY <2>2
  <2>3. CASE t \notin S /\ ~Usable(t)'
    BY <1>2, <1>3, <2>3 DEF InUse
  <2> QED
    BY <2>1, <2>2, <2>3
<1>6. Content' = [t \in Thread |-> IF t \in S THEN {} ELSE Content[t]]
  BY <1>1, <1>5
<1>7. CASE S = {}
  <2>1. InUse' = InUse /\ Content' = Content
    BY <1>1, <1>4, <1>5, <1>7
  <2> QED
    BY <2>1 DEF Dictionary!vars
<1>8. CASE S # {}
  BY <1>4, <1>6, <1>8 DEF Dictionary!Close
<1> QED
  BY <1>7, <1>8

(* The steps of a reconfiguration between its first and its last change no *)
(* table in use; one of them may make tables mixed.                        *)
LEMMA ConfigCloses ==
    ASSUME IInv, IInv',
           \/ ZeroKeyBlocks \/ ZeroValueBlocks \/ ZeroConfig \/ SetTable \/ SetDepth
           \/ SetKeyConfig \/ SetValueConfig \/ LinkBlocks
    PROVE  (\E S \in SUBSET InUse : Dictionary!Close(S)) \/ UNCHANGED Dictionary!vars
<1> USE DEF memVars, cfgVars, rpcVars, pktVars, shareVars
<1>1. /\ th' = th /\ pc \in ConfigPc /\ (pc' \in ConfigPc \/ (pc' = "idle" /\ depth'[th] = 0))
      /\ th \in Thread
      /\ \A u \in Thread \ {th} : last'[u] = last[u] /\ depth'[u] = depth[u]
      /\ \A u \in Thread \ {th} : u \in mixed => u \in mixed'
  BY DEF ZeroKeyBlocks, ZeroValueBlocks, ZeroConfig, SetTable, SetDepth, SetKeyConfig,
         SetValueConfig, LinkBlocks, ConfigPc, IInv, TypeOK
<1>2. pc # "dead" /\ pc' # "dead" /\ pc \notin InsertPc /\ pc' \notin InsertPc
  BY <1>1 DEF ConfigPc, InsertPc
<1>3. ~Usable(th) /\ ~Usable(th)'
  BY <1>1 DEF Usable
<1>4. \A u \in Thread : Usable(u)' => Usable(u) /\ u # th
  BY <1>1, <1>2, <1>3 DEF Usable
<1>5. \A u, s, x : ~Writing(u, s, x) /\ ~Writing(u, s, x)'
  BY <1>2 DEF Writing
<1>6. \A u \in Thread : Usable(u)' => StoredIn(u)' = StoredIn(u)
  BY <1>1, <1>4, <1>5, StoredFrame
<1>7. Inserting = NoInsert /\ Inserting' = NoInsert
  BY <1>2 DEF Inserting
<1> QED
  BY <1>4, <1>6, <1>7, CloseSome

(* A ternary table that writes a block of a table takes it out of use.     *)
LEMMA TernaryCloses ==
    ASSUME IInv, IInv', pc = "idle", UNCHANGED <<pc, th, ent, depth, last>>, mixed \subseteq mixed'
    PROVE  (\E S \in SUBSET InUse : Dictionary!Close(S)) \/ UNCHANGED Dictionary!vars
<1>1. \A u \in Thread : Usable(u)' => Usable(u)
  BY DEF Usable
<1>2. \A u, s, x : ~Writing(u, s, x) /\ ~Writing(u, s, x)'
  BY DEF Writing, InsertPc
<1>3. \A u \in Thread : Usable(u)' => StoredIn(u)' = StoredIn(u)
  BY <1>1, <1>2, StoredFrame
<1>4. Inserting = NoInsert /\ Inserting' = NoInsert
  BY DEF Inserting, InsertPc
<1> QED
  BY <1>1, <1>3, <1>4, CloseSome

(* A step that keeps the handler, the depths and the history.              *)
LEMMA IdleStutters ==
    ASSUME IInv, IInv', UNCHANGED <<pc, th, ent, depth, last, mixed>>
    PROVE  UNCHANGED Dictionary!vars
<1>1. \A u \in Thread : Usable(u)' <=> Usable(u)
  BY DEF Usable
<1>2. \A u, s, x : Writing(u, s, x)' <=> Writing(u, s, x)
  BY DEF Writing, KeySlice, KeySlot, SliceOf, SlotOf
<1>3. \A u \in Thread : StoredIn(u)' = StoredIn(u)
  BY <1>1, <1>2, StoredFrame
<1>4. Inserting' = Inserting
  BY DEF Inserting
<1> QED
  BY <1>1, <1>3, <1>4, Stutter

(* The writes of an insertion go to the cell that is not part of the       *)
(* content meanwhile.                                                      *)
LEMMA PutStutters ==
    ASSUME IInv, IInv', pc \in InsertPc, pc' \in InsertPc,
           UNCHANGED <<th, ent, depth, last, mixed>>
    PROVE  UNCHANGED Dictionary!vars
<1>0. pc # "dead" /\ pc' # "dead" /\ pc \notin ConfigPc /\ pc' \notin ConfigPc
  BY DEF InsertPc, ConfigPc
<1>1. \A u \in Thread : Usable(u)' <=> Usable(u)
  BY <1>0 DEF Usable
<1>2. \A u, s, x : Writing(u, s, x)' <=> Writing(u, s, x)
  BY DEF Writing, KeySlice, KeySlot, SliceOf, SlotOf
<1>3. \A u \in Thread : StoredIn(u)' = StoredIn(u)
  BY <1>1, <1>2, StoredFrame
<1>4. Inserting' = Inserting
  BY DEF Inserting
<1> QED
  BY <1>1, <1>3, <1>4, Stutter


-----------------------------------------------------------------------------
(***************************************************************************)
(* Steps of the dictionaries.                                              *)
(***************************************************************************)

(* clear_old_config takes the table down with its first step.              *)
LEMMA StartConfigCloses ==
    ASSUME IInv, IInv', NEW t \in Thread, NEW r, StartConfig(t, r)
    PROVE  (\E S \in SUBSET InUse : Dictionary!Close(S)) \/ UNCHANGED Dictionary!vars
<1> USE DEF memVars, cfgVars, rpcVars, pktVars, shareVars
<1>1. /\ pc = "idle" /\ pc' = "zero_key" /\ th' = t
      /\ depth' = depth /\ last' = last /\ mixed' = mixed
  BY DEF StartConfig
<1>2. Inserting = NoInsert /\ Inserting' = NoInsert
  BY <1>1 DEF Inserting, InsertPc
<1>3. /\ ~Usable(t)'
      /\ \A u \in Thread \ {t} : Usable(u)' <=> Usable(u)
  BY <1>1 DEF Usable, ConfigPc
<1>4. \A u, s, x : ~Writing(u, s, x) /\ ~Writing(u, s, x)'
  BY <1>1 DEF Writing, InsertPc
<1>5. \A u \in Thread \ {t} : StoredIn(u)' = StoredIn(u)
  BY <1>1, <1>3, <1>4, StoredFrame
<1> QED
  BY <1>2, <1>3, <1>5, CloseSome

(* A key has one cell of a table in use.                                   *)
LEMMA CellOfKey ==
    ASSUME TypeOK, NEW t \in Thread, depth[t] # 0, NEW k \in Key
    PROVE  CellOf(t, k) \in Cell(t)
<1>1. KeySum[k] \in Nat /\ depth[t] \in Nat \ {0}
  BY SumIsNat, DepthIsNat DEF TypeOK
<1> QED
  BY <1>1, CellInRange DEF CellOf, Cell

(* The last step of setMemConfig turns on a table that is empty, if it has *)
(* its blocks to itself: only the cell of the all-zero key reads like an   *)
(* entry.                                                                  *)
LEMMA SetMissActionOpens ==
    ASSUME IInv, IInv', NewTableInv, SetMissAction, th \notin mixed
    PROVE  Dictionary!Open(th)
<1> USE DEF memVars, cfgVars, rpcVars, pktVars, shareVars
<1>1. /\ pc = "set_miss" /\ pc' = "idle" /\ th' = th /\ mixed' = mixed
      /\ depth' = depth /\ last' = last /\ th \in Thread
  BY DEF SetMissAction, IInv, TypeOK
<1>2. Inserting = NoInsert /\ Inserting' = NoInsert
  BY <1>1 DEF Inserting, InsertPc
<1>3. req \in Request /\ depth[th] = req.depth
  BY <1>1 DEF IInv, HandlerInv, WithRequestPc
<1>4. depth[th] # 0
  BY <1>3, RequestTypes
<1>5. ~Usable(th) /\ Usable(th)' /\ \A u \in Thread \ {th} : Usable(u)' <=> Usable(u)
  BY <1>1, <1>4 DEF Usable, ConfigPc
<1>6. \A u, s, x : ~Writing(u, s, x) /\ ~Writing(u, s, x)'
  BY <1>1 DEF Writing, InsertPc
<1>7. \A u \in Thread \ {th} : StoredIn(u)' = StoredIn(u)
  BY <1>1, <1>5, <1>6, StoredFrame
<1>8. Stored(th)' = {Dictionary!ZeroEntry}
  <2>1. \A c \in Cell(th)' : c[1] \in Block /\ c[2] \in Slot
    <3>1. depth[th] \in Nat /\ depth[th] <= NB
      BY <1>1, SizeAssumption DEF IInv, TypeOK, Depth, SizeAssumption
    <3> QED
      BY <1>1, <3>1, SizeAssumption DEF Cell, Block, SizeAssumption
  <2>2. \A c \in Cell(th)' : /\ LastKey(th, c[1], c[2])' = ZeroKey
                             /\ LastValue(th, c[1], c[2])' = ZeroValue
    BY <1>1, <2>1 DEF NewTableInv, NoEntries, LastKey, LastValue
  <2>3. CellOf(th, ZeroKey)' \in Cell(th)'
    BY <1>1, <1>4, CellOfKey, NullTypes DEF IInv, CellOf, Cell
  <2>4. \A c \in Cell(th)' : Holds(th, c)' <=> c = CellOf(th, ZeroKey)'
    BY <1>1, <1>6, <2>2 DEF Holds
  <2>5. \A c \in Cell(th)' : EntryAt(th, c)' = Dictionary!ZeroEntry
    BY <1>1, <2>2 DEF EntryAt, Dictionary!ZeroEntry
  <2> QED
    BY <1>1, <2>3, <2>4, <2>5 DEF Stored
<1>9. StoredIn(th)' = {Dictionary!ZeroEntry}
  BY <1>1, <1>5, <1>8 DEF StoredIn
<1>10. Content' = [Content EXCEPT ![th] = {Dictionary!ZeroEntry}]
  BY <1>1, <1>7, <1>9, OneTable
<1>11. th \notin InUse /\ InUse' = InUse \cup {th}
  BY <1>1, <1>5 DEF InUse
<1> QED
  BY <1>2, <1>10, <1>11 DEF Dictionary!Open


(* insert_sram_entry starts to overwrite the cell of its key: the entries  *)
(* it evicts have that cell, so their keys have its slot.                  *)
LEMMA StartInsertEvicts ==
    ASSUME IInv, IInv', NEW t \in Thread, NEW k \in TableKey, NEW v \in TableValue,
           StartInsert(t, k, v), t \notin mixed
    PROVE  Dictionary!Evict
<1> USE DEF memVars, cfgVars, rpcVars, pktVars, shareVars
<1>1. /\ pc = "idle" /\ pc' = "put_key" /\ th' = t /\ depth[t] # 0 /\ mixed' = mixed
      /\ depth' = depth /\ last' = last /\ ent' = [key |-> k, value |-> v]
  BY DEF StartInsert
<1>2. k \in Key /\ v \in Value
  BY WordAssumption DEF WordAssumption
<1>3. Inserting = NoInsert /\ Inserting' = [thread |-> t, key |-> k, value |-> v]
  BY <1>1 DEF Inserting, InsertPc
<1>4. \A u \in Thread : Usable(u)' <=> Usable(u)
  BY <1>1 DEF Usable, ConfigPc
<1>5. Usable(t) /\ Usable(t)'
  BY <1>1 DEF Usable, ConfigPc
<1>6. InUse' = InUse /\ t \in InUse
  BY <1>4, <1>5 DEF InUse
<1>7. /\ \A u, s, x : ~Writing(u, s, x)
      /\ \A u \in Thread \ {t} : \A s, x : ~Writing(u, s, x)'
  BY <1>1 DEF Writing, InsertPc
<1>8. \A u \in Thread \ {t} : StoredIn(u)' = StoredIn(u)
  BY <1>1, <1>4, <1>7, StoredFrame
<1>9. /\ Cell(t)' = Cell(t)
      /\ \A l : CellOf(t, l)' = CellOf(t, l)
      /\ \A c : EntryAt(t, c)' = EntryAt(t, c)
  BY <1>1 DEF Cell, CellOf, SliceOf, SlotOf, EntryAt, LastKey, LastValue
<1>10. \A c \in Cell(t) : Holds(t, c)' <=> Holds(t, c) /\ c # CellOf(t, k)
  <2> TAKE c \in Cell(t)
  <2>1. c = <<c[1], c[2]>>
    BY DEF Cell
  <2>2. Writing(t, c[1], c[2])' <=> c = CellOf(t, k)
    BY <1>1, <2>1 DEF Writing, InsertPc, KeySlice, KeySlot, CellOf, SliceOf, SlotOf
  <2>3. LastKey(t, c[1], c[2])' = LastKey(t, c[1], c[2])
    BY <1>1 DEF LastKey
  <2> QED
    BY <1>7, <1>9, <2>2, <2>3 DEF Holds
<1>11. Content[t] = Stored(t)
  BY <1>5, ContentIsStored DEF StoredIn
<1> DEFINE S == Stored(t)'
<1>12. Stored(t)' = {EntryAt(t, c) : c \in {d \in Cell(t) : Holds(t, d) /\ d # CellOf(t, k)}}
  BY <1>9, <1>10 DEF Stored
<1>13. S \subseteq Stored(t)
  BY <1>12 DEF Stored
<1>14. \A e \in S : e.key # k
  BY <1>12 DEF Holds, EntryAt
<1>15. \A e \in Stored(t) \ S : SameSlot(e.key, k)
  <2> TAKE e \in Stored(t) \ S
  <2>1. PICK c \in Cell(t) : Holds(t, c) /\ e = EntryAt(t, c)
    BY DEF Stored
  <2>2. c = CellOf(t, k)
    BY <1>12, <2>1
  <2>3. CellOf(t, e.key) = CellOf(t, k)
    BY <2>1, <2>2 DEF Holds, EntryAt
  <2> QED
    BY <2>3 DEF CellOf, SameSlot
<1>16. Content' = [Content EXCEPT ![t] = S]
  <2>1. StoredIn(t)' = S
    BY <1>5 DEF StoredIn
  <2> HIDE DEF S
  <2> QED
    BY <1>8, <2>1, OneTable
<1>17. Inserting' \in [thread : InUse, key : Key, value : Value]
  BY <1>2, <1>3, <1>6
<1>18. Inserting'.thread = t /\ Inserting'.key = k
  BY <1>3
<1> HIDE DEF S
<1> QED
  BY <1>3, <1>6, <1>11, <1>13, <1>14, <1>15, <1>16, <1>17, <1>18 DEF Dictionary!Evict

(* What happens to a table that is not in use stays with it.               *)
LEMMA MixedStutters ==
    ASSUME IInv, IInv', NEW t \in Thread, t \in mixed, th' = t, pc' # "dead", pc # "dead",
           pc = "idle" \/ th = t, pc \notin ConfigPc \/ th = t, pc' \notin ConfigPc,
           UNCHANGED <<depth, mixed>>,
           \A u \in Thread \ {t} : last'[u] = last[u]
    PROVE  UNCHANGED Dictionary!vars
<1>1. ~Usable(t) /\ ~Usable(t)'
  BY DEF Usable
<1>2. \A u \in Thread : Usable(u)' <=> Usable(u)
  BY <1>1 DEF Usable, ConfigPc
<1>3. \A u \in Thread \ {t} : \A s, x : ~Writing(u, s, x) /\ ~Writing(u, s, x)'
  BY DEF Writing, InsertPc
<1>4. \A u \in Thread : StoredIn(u)' = StoredIn(u)
  BY <1>1, <1>2, <1>3, StoredFrame
<1>5. Inserting = NoInsert /\ Inserting' = NoInsert
  BY DEF Inserting, InsertPc
<1> QED
  BY <1>2, <1>4, <1>5, Stutter

(* The last block of the value completes the entry.                        *)
LEMMA PutValueAdds ==
    ASSUME IInv, IInv', PutValue
    PROVE  Dictionary!Add \/ UNCHANGED Dictionary!vars
<1> USE DEF memVars, cfgVars, rpcVars, pktVars, shareVars
<1>1. CASE chunk + 1 < VW
  <2>1. pc \in InsertPc /\ pc' \in InsertPc /\ UNCHANGED <<th, ent, depth, last, mixed>>
    BY <1>1 DEF PutValue, InsertPc
  <2> QED
    BY <2>1, PutStutters
<1>1a. CASE ~(chunk + 1 < VW) /\ th \in mixed
  <2>1. /\ pc = "put_val" /\ pc' = "idle" /\ th' = th /\ UNCHANGED <<depth, mixed>>
        /\ last' = [last EXCEPT ![th][KeySlice][KeySlot] = ent] /\ th \in Thread
    BY <1>1a DEF PutValue, IInv, TypeOK
  <2>2. \A u \in Thread \ {th} : last'[u] = last[u]
    BY <2>1 DEF IInv, TypeOK
  <2> QED
    BY <1>1a, <2>1, <2>2, MixedStutters DEF ConfigPc
<1>2. CASE ~(chunk + 1 < VW) /\ th \notin mixed
  <2>1. /\ pc = "put_val" /\ pc' = "idle" /\ th' = th /\ depth' = depth /\ mixed' = mixed
        /\ last' = [last EXCEPT ![th][KeySlice][KeySlot] = ent]
        /\ th \in Thread /\ ent \in Entry
    BY <1>2 DEF PutValue, IInv, TypeOK
  <2>2. depth[th] # 0
    BY <2>1 DEF IInv, HandlerInv
  <2>3. KeySlice \in Block /\ KeySlot \in Slot /\ KeySlice \in 0 .. depth[th] - 1
    <3>1. depth[th] \in Nat /\ depth[th] <= NB
      BY <2>1, SizeAssumption DEF IInv, TypeOK, Depth, SizeAssumption
    <3>2. KeySlice \in 0 .. depth[th] - 1 /\ KeySlot \in Slot
      BY <2>2, EntryCell DEF IInv
    <3> QED
      BY <3>1, <3>2, SizeAssumption DEF Block, SizeAssumption
  <2>4. /\ Inserting = [thread |-> th, key |-> ent.key, value |-> ent.value]
        /\ Inserting # NoInsert /\ Inserting' = NoInsert
    BY <1>2, <2>1, InsertAssumption DEF InsertAssumption, Inserting, InsertPc, Entry
  <2>5. \A u \in Thread : Usable(u)' <=> Usable(u)
    BY <2>1 DEF Usable, ConfigPc
  <2>6. Usable(th) /\ Usable(th)'
    BY <1>2, <2>1, <2>2 DEF Usable, ConfigPc
  <2>7. /\ \A u, s, x : ~Writing(u, s, x)'
        /\ \A u \in Thread \ {th} : \A s, x : ~Writing(u, s, x)
    BY <2>1 DEF Writing, InsertPc
  <2>8. last \in [Thread -> [Block -> [Slot -> Entry \cup {NoEntry}]]]
    BY DEF IInv, TypeOK
  <2>9. \A u \in Thread \ {th} : StoredIn(u)' = StoredIn(u)
    BY <2>1, <2>5, <2>7, <2>8, StoredFrame
  <2>10. last'[th][KeySlice][KeySlot] = ent
    BY <2>1, <2>3, <2>8
  <2>11. \A s \in Block, x \in Slot : ~(s = KeySlice /\ x = KeySlot) =>
            last'[th][s][x] = last[th][s][x]
    BY <2>1, <2>3, <2>8, OtherCellKept
  <2>12. Cell(th)' = Cell(th) /\ \A k : CellOf(th, k)' = CellOf(th, k)
    BY <2>1 DEF Cell, CellOf, SliceOf, SlotOf
  <2>13. \A c \in Cell(th) : c[1] \in Block /\ c[2] \in Slot /\ c = <<c[1], c[2]>>
    <3>1. depth[th] \in Nat /\ depth[th] <= NB
      BY <2>1, SizeAssumption DEF IInv, TypeOK, Depth, SizeAssumption
    <3> QED
      BY <3>1, SizeAssumption DEF Cell, Block, SizeAssumption
  <2>14a. <<KeySlice, KeySlot>> \in Cell(th)
    BY <2>3 DEF Cell
  <2>14. PICK w \in Cell(th) : w = <<KeySlice, KeySlot>> /\ w = CellOf(th, ent.key)
    BY <2>14a DEF CellOf, KeySlice, KeySlot
  <2>15. \A c \in Cell(th) : c # w =>
            EntryAt(th, c)' = EntryAt(th, c) /\ (Holds(th, c)' <=> Holds(th, c))
    <3> SUFFICES ASSUME NEW c \in Cell(th), c # w
                 PROVE  EntryAt(th, c)' = EntryAt(th, c) /\ (Holds(th, c)' <=> Holds(th, c))
      OBVIOUS
    <3>1. ~(c[1] = KeySlice /\ c[2] = KeySlot)
      BY <2>13, <2>14
    <3>2. last'[th][c[1]][c[2]] = last[th][c[1]][c[2]]
      BY <2>11, <2>13, <3>1
    <3>3. ~Writing(th, c[1], c[2])
      BY <3>1 DEF Writing
    <3>4. /\ LastKey(th, c[1], c[2])' = LastKey(th, c[1], c[2])
          /\ LastValue(th, c[1], c[2])' = LastValue(th, c[1], c[2])
      BY <2>1, <3>2 DEF LastKey, LastValue
    <3> QED
      BY <2>1, <2>7, <2>12, <3>3, <3>4 DEF EntryAt, Holds
  <2>16. ~Holds(th, w)
    BY <2>1, <2>14 DEF Holds, Writing, InsertPc
  <2>17. EntryAt(th, w)' = [key |-> ent.key, value |-> ent.value] /\ Holds(th, w)'
    <3>1. ent # NoEntry
      BY <2>1, RequestAssumption DEF RequestAssumption
    <3>2. last'[th][w[1]][w[2]] = ent
      BY <2>10, <2>14
    <3>3. LastKey(th, w[1], w[2])' = ent.key /\ LastValue(th, w[1], w[2])' = ent.value
      BY <2>1, <3>1, <3>2 DEF LastKey, LastValue

    <3> QED
      BY <2>1, <2>7, <2>12, <2>14, <3>3 DEF EntryAt, Holds
  <2>18. Stored(th)' = Stored(th) \cup {[key |-> ent.key, value |-> ent.value]}
    BY <2>1, <2>12, <2>15, <2>16, <2>17 DEF Stored
  <2>19. Content[th] = Stored(th)
    BY <2>1, <2>6, ContentIsStored DEF StoredIn
  <2>20. Content' = [Content EXCEPT ![th] = Stored(th) \cup {[key |-> ent.key, value |-> ent.value]}]
    BY <2>1, <2>6, <2>9, <2>18, OneTable DEF StoredIn
  <2>21. InUse' = InUse
    BY <2>5 DEF InUse
  <2> QED
    BY <2>4, <2>19, <2>20, <2>21 DEF Dictionary!Add
<1> QED
  BY <1>1, <1>1a, <1>2


(* A lookup that divides by zero, or follows a null pointer, takes the     *)
(* tables with it, and so does an insertion of too short a value.          *)
LEMMA DeathCrashes ==
    ASSUME IInv, IInv', pc' = "dead"
    PROVE  Dictionary!Crash \/ UNCHANGED Dictionary!vars
<1>1. \A t \in Thread : ~Usable(t)'
  BY DEF Usable
<1>2. InUse' = {}
  BY <1>1 DEF InUse
<1>3. Content' = [t \in Thread |-> {}]
  BY <1>1 DEF Content
<1>4. Inserting' = NoInsert
  BY DEF Inserting, InsertPc
<1>5. InUse = {} => Content = [t \in Thread |-> {}]
  BY DEF InUse, Content
<1> QED
  BY <1>2, <1>3, <1>4, <1>5 DEF Dictionary!Crash, Dictionary!vars

(* The lookups only read.                                                  *)
LEMMA PacketReads ==
    ASSUME IInv, IInv', Packet
    PROVE  Dictionary!Crash \/ UNCHANGED Dictionary!vars
<1> USE DEF memVars, cfgVars, rpcVars, shareVars
<1>1. CASE pc' = "dead"
  BY <1>1, DeathCrashes
<1>2. CASE pc' # "dead"
  <2>1. UNCHANGED <<pc, th, ent, depth, last, mixed>>
    BY <1>2 DEF Packet, Execute, GenerateKey, Locate, ReadKey, ReadValue, Compare, Return
  <2> QED
    BY <2>1, IdleStutters
<1> QED
  BY <1>1, <1>2

-----------------------------------------------------------------------------
(***************************************************************************)
(* The refinement.                                                         *)
(***************************************************************************)

(* A table is turned on with no entry in its history: set_mem_config does  *)
(* not meet what clear_old_config has left.                                *)
LEMMA NewTableStep ==
    ASSUME IInv, NewTableInv, [Next]_vars
    PROVE  NewTableInv'
<1> USE DEF memVars, cfgVars, rpcVars, pktVars, NewTableInv
<1>1. CASE UNCHANGED vars
  BY <1>1 DEF vars
<1>2. CASE SetValueConfig
  <2>1. pc = "set_val" /\ th' = th /\ last' = last /\ th \in Thread /\ ~Configured(th)
    BY <1>2 DEF SetValueConfig, IInv, TypeOK, Configured
  <2>2. last[th] = NoEntries
    BY <2>1 DEF IInv, MemInv, ClearInv, NoEntries
  <2> QED
    BY <2>1, <2>2
<1>3. CASE LinkBlocks
  BY <1>3 DEF LinkBlocks
<1>4. CASE Handler /\ ~SetValueConfig /\ ~LinkBlocks
  <2>1. pc' \notin {"link", "set_miss"}
    BY <1>4 DEF Handler, StartConfig, ZeroKeyBlocks, ZeroValueBlocks, ZeroConfig, SetTable,
                SetDepth, SetKeyConfig, SetMissAction, SetFieldInfo,
                SetMissActId, SetNoTable, StartInsert, PutKey, PutValue, PutShort,
                TernaryInsert, TernaryClear
  <2> QED
    BY <2>1
<1>5. CASE Packet
  <2>1. th' = th /\ last' = last /\ (pc' = pc \/ pc' = "dead")
    BY <1>5 DEF Packet, Execute, GenerateKey, Locate, ReadKey, ReadValue, Compare, Return
  <2> QED
    BY <2>1
<1> QED
  BY <1>1, <1>2, <1>3, <1>4, <1>5 DEF Next

(* Initially no thread has a table.                                        *)
LEMMA DictionaryInit ==
    ASSUME Init
    PROVE  Dictionary!Init /\ NewTableInv
<1>1. \A t \in Thread : ~Usable(t)
  BY DEF Init, Usable
<1>2. InUse = {} /\ Content = [t \in Thread |-> {}] /\ Inserting = NoInsert
  BY <1>1 DEF Init, InUse, Content, Inserting, InsertPc
<1> QED
  BY <1>2 DEF Dictionary!Init, Init, NewTableInv

(* Every step is a step of the dictionaries, or changes nothing there.     *)
LEMMA DictionaryStep ==
    ASSUME IInv, IInv', NewTableInv, [Next]_vars
    PROVE  [Dictionary!Next]_Dictionary!vars
<1> USE DEF memVars, cfgVars, rpcVars, pktVars, shareVars
<1>1. CASE UNCHANGED vars
  BY <1>1, IdleStutters DEF vars
<1>2. ASSUME NEW t \in Thread, NEW r \in Request \cup {NoRequest}, StartConfig(t, r)
      PROVE  [Dictionary!Next]_Dictionary!vars
  BY <1>2, StartConfigCloses DEF Dictionary!Next
<1>3. CASE \/ ZeroKeyBlocks \/ ZeroValueBlocks \/ ZeroConfig \/ SetTable \/ SetDepth
           \/ SetKeyConfig \/ SetValueConfig \/ LinkBlocks
  BY <1>3, ConfigCloses DEF Dictionary!Next
<1>4. CASE SetMissAction
  <2>1. th \in Thread
    BY DEF IInv, TypeOK
  <2>2. CASE th \notin mixed
    BY <1>4, <2>1, <2>2, SetMissActionOpens DEF Dictionary!Next
  <2>3. CASE th \in mixed
    <3>1. /\ pc = "set_miss" /\ pc' = "idle" /\ th' = th /\ UNCHANGED <<depth, mixed, last>>
      BY <1>4 DEF SetMissAction
    <3> QED
      BY <2>1, <2>3, <3>1, MixedStutters DEF ConfigPc
  <2> QED
    BY <2>2, <2>3
<1>5. CASE \/ \E t \in Thread : SetFieldInfo(t)
           \/ \E t \in Thread, a \in Action : SetMissActId(t, a)
           \/ \E t \in Paused, b \in BOOLEAN : SetNoTable(t, b)
  <2>1. UNCHANGED <<pc, th, ent, depth, last, mixed>>
    BY <1>5 DEF SetFieldInfo, SetMissActId, SetNoTable
  <2> QED
    BY <2>1, IdleStutters
<1>6. ASSUME NEW t \in Thread, NEW k \in TableKey, NEW v \in TableValue, StartInsert(t, k, v)
      PROVE  [Dictionary!Next]_Dictionary!vars
  <2>1. CASE t \notin mixed
    BY <1>6, <2>1, StartInsertEvicts DEF Dictionary!Next
  <2>2. CASE t \in mixed
    <3>1. /\ pc = "idle" /\ pc' = "put_key" /\ th' = t /\ UNCHANGED <<depth, mixed, last>>
      BY <1>6 DEF StartInsert
    <3> QED
      BY <2>2, <3>1, MixedStutters DEF ConfigPc
  <2> QED
    BY <2>1, <2>2
<1>7. CASE PutKey
  <2>1. pc \in InsertPc /\ pc' \in InsertPc /\ UNCHANGED <<th, ent, depth, last, mixed>>
    BY <1>7 DEF PutKey, InsertPc
  <2> QED
    BY <2>1, PutStutters
<1>8. CASE PutValue
  BY <1>8, PutValueAdds DEF Dictionary!Next
<1>9. CASE Packet
  BY <1>9, PacketReads DEF Dictionary!Next
<1>10. CASE PutShort
  <2>1. pc' = "dead"
    BY <1>10 DEF PutShort
  <2> QED
    BY <2>1, DeathCrashes DEF Dictionary!Next
<1>11. CASE \/ \E b \in TernaryBlock, x \in Slot, w \in TernaryWord : TernaryInsert(b, x, w)
            \/ \E b \in TernaryBlock : TernaryClear(b)
  <2>1. pc = "idle" /\ UNCHANGED <<pc, th, ent, depth, last>> /\ mixed \subseteq mixed'
    BY <1>11 DEF TernaryInsert, TernaryClear, TernaryMeets
  <2> QED
    BY <2>1, TernaryCloses DEF Dictionary!Next
<1> QED
  BY <1>1, <1>2, <1>3, <1>4, <1>5, <1>6, <1>7, <1>8, <1>9, <1>10, <1>11 DEF Next, Handler

(* The tables of matcher_c.h that have their blocks to themselves          *)
(* implement dictionaries, for every cluster and every interleaving of     *)
(* handlers and lookups: such a table starts empty, insert_sram_entry adds *)
(* its entry and costs at most entries of the same slot of the same table, *)
(* and nothing else changes it before it is taken down, or another table   *)
(* is configured over one of its blocks.                                   *)
THEOREM TablesAreDictionaries == Spec => ImplementsTable
<1>1. Init => Dictionary!Init /\ TableInv
  BY InvInit, DictionaryInit DEF TableInv
<1>2. TableInv /\ [Next]_vars => TableInv'
  BY InvStep, NewTableStep DEF TableInv
<1>3. TableInv /\ TableInv' /\ [Next]_vars => [Dictionary!Next]_Dictionary!vars
  BY DictionaryStep DEF TableInv
<1> QED
  BY <1>1, <1>2, <1>3, PTL DEF Spec, ImplementsTable, Dictionary!Spec
=============================================================================
