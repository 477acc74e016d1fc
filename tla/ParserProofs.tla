---------------------------- MODULE ParserProofs ----------------------------
(***************************************************************************)
(* The inductive invariant of Parser and the proofs of its properties.     *)
(***************************************************************************)
EXTENDS Parser, TLAPS

(* The slot that modify_trans_entry has half written.                      *)
Busy(l, j) == pc = "act" /\ req.level = l /\ Index(req) = j

(* The slot holds an entry that was sent.                                  *)
Stored(e, l, j) == Index(e) = j /\ trans[l][j] = Trans(e) /\ act[l][j] = ActionOf(e)

SlotInv ==
    /\ \A l \in Level : \A e, f \in sent[l] : Trans(e) = Trans(f) => e = f
    /\ pc = "act" => trans[req.level][Index(req)] = Trans(req)
    /\ pc # "dead" =>
          \A l \in Level, j \in Idx : ~Busy(l, j) =>
             trans[l][j] = Unset \/ \E e \in sent[l] : Stored(e, l, j)
    /\ pc # "dead" =>
          \A l \in Level : Placed(l) =>
             \A e \in sent[l] : ~Busy(l, Index(e)) => Stored(e, l, Index(e))

(* The parse in progress.                                                  *)
ParseInv ==
    /\ pc = "dead" <=> pp = "dead"
    /\ quiet /\ pp \in {"level", "apply"} => pc = "idle"
    /\ pp = "apply" => idx \in Idx /\ lvl \in Level
    /\ pp = "apply" /\ quiet => Hit(idx)

(* The headers extracted end before the next one starts.                   *)
HeaderInv == \A h \in got : hoff[h] + hlen[h] <= offset

(* The headers extracted are valid and do not overlap.                     *)
Disjoint ==
    /\ got \subseteq valid
    /\ \A h, g \in got :
          h # g => hoff[h] + hlen[h] <= hoff[g] \/ hoff[g] + hlen[g] <= hoff[h]

IInv == TypeOK /\ SlotInv /\ ParseInv /\ HeaderInv /\ Disjoint /\ QuietNoCrash

-----------------------------------------------------------------------------
(* The slot of an entry is a slot of the table, and entries with the same  *)
(* key have the same slot.                                                 *)
LEMMA IndexInRange ==
    ASSUME NEW r \in Request
    PROVE  Index(r) \in Idx
<1>1. /\ r.state \in 0 .. NIdx - 1 /\ r.entry \in Key
  BY RequestAssumption DEF RequestAssumption, Trans, TransEntry
<1>2. ByteSum[r.entry] \in Nat
  BY <1>1, KeyAssumption DEF KeyAssumption
<1>3. NIdx \in Nat \ {0}
  BY SizeAssumption DEF SizeAssumption
<1>4. r.state + ByteSum[r.entry] \in Nat
  BY <1>1, <1>2, <1>3
<1>5. (r.state + ByteSum[r.entry]) % NIdx \in Idx
  BY <1>3, <1>4 DEF Idx
<1>6. NIdx - 1 - r.state \in Idx
  BY <1>1, <1>3 DEF Idx
<1> QED
  BY <1>5, <1>6 DEF Index

(* Entries with the same state, key and mask have one slot and apply to    *)
(* the same packets.                                                       *)
LEMMA SameTrans ==
    ASSUME NEW e, NEW f, Trans(e) = Trans(f)
    PROVE  /\ Index(e) = Index(f)
           /\ \A s, k : Applies(e, s, k) <=> Applies(f, s, k)
<1>1. e.state = f.state /\ e.entry = f.entry /\ e.mask = f.mask
  BY DEF Trans
<1> QED
  BY <1>1 DEF Index, Applies

(* A slot applies to the packets its entry applies to.                     *)
LEMMA AppliesTrans ==
    ASSUME NEW e, NEW s, NEW k
    PROVE  Applies(Trans(e), s, k) <=> Applies(e, s, k)
  BY DEF Applies, Trans

(* What modify_trans_entry writes for a request has the types of the two   *)
(* tables.                                                                 *)
LEMMA RequestFacts ==
    ASSUME NEW r \in Request
    PROVE  /\ r.level \in Level
           /\ Trans(r) \in TransEntry
           /\ ActionOf(r) # Garbage
           /\ ActionOf(r) \in ActEntry
<1>1. r.level \in Level /\ Trans(r) \in TransEntry /\ ActionOf(r) # Garbage
  BY RequestAssumption DEF RequestAssumption
<1>2. /\ r.hdr_id \in Hdr /\ r.hdr_len \in Nat /\ r.next_state \in 0 .. NIdx - 1
      /\ r.miss_act \in 0 .. 2 /\ r.fds \in Seq(FieldDesc)
  BY RequestAssumption DEF RequestAssumption
<1>3. r.hdr_len % LenMod \in Nat
  BY <1>2, SizeAssumption DEF SizeAssumption
<1> QED
  BY <1>1, <1>2, <1>3 DEF ActionOf, ActEntry

(* A slot without an entry has the type of a slot.                         *)
LEMMA UnsetType == Unset \in TransEntry
  BY SizeAssumption DEF SizeAssumption, Unset, TransEntry, AllOnes, Key

(* A slot that is cleared remains a slot.                                  *)
LEMMA ClearedType ==
    ASSUME NEW a \in ActEntry \cup {Garbage}
    PROVE  Cleared(a) \in ActEntry \cup {Garbage}
<1>1. CASE a = Garbage
  BY <1>1 DEF Cleared
<1>2. CASE a # Garbage
  <2>1. a.fds \in Seq(FieldDesc) /\ a.miss_act \in 0 .. 2
    BY <1>2 DEF ActEntry
  <2>2. ZeroField \in FieldDesc
    BY ArrivalAssumption DEF ArrivalAssumption, ZeroField, FieldDesc
  <2>3. [n \in DOMAIN a.fds |-> ZeroField] \in Seq(FieldDesc)
    BY <2>1, <2>2
  <2>4. 0 \in Hdr /\ 0 \in 0 .. NIdx - 1
    BY ArrivalAssumption, SizeAssumption DEF ArrivalAssumption, SizeAssumption
  <2> QED
    BY <1>2, <2>1, <2>3, <2>4 DEF Cleared, ActEntry
<1> QED
  BY <1>1, <1>2

-----------------------------------------------------------------------------
(* The invariant holds in the initial states.                              *)
LEMMA InitInv == Init => IInv
<1> SUFFICES ASSUME Init PROVE IInv
  OBVIOUS
<1> USE DEF Init
<1>1. /\ pkt.valid \subseteq Hdr /\ pkt.offset \in Nat
      /\ pkt.hoff \in [Hdr -> Nat] /\ pkt.hlen \in [Hdr -> Nat]
  BY ArrivalAssumption DEF ArrivalAssumption
<1>2. TypeOK
  BY <1>1, UnsetType, SizeAssumption DEF TypeOK, SizeAssumption, NoIdx
<1>3. SlotInv
  BY DEF SlotInv, Busy
<1>4. ParseInv /\ HeaderInv /\ Disjoint /\ QuietNoCrash
  BY DEF ParseInv, HeaderInv, Disjoint, QuietNoCrash
<1> QED
  BY <1>2, <1>3, <1>4 DEF IInv

-----------------------------------------------------------------------------
(* What a parse finds in the slot that matched is an action.               *)
LEMMA FoundType ==
    ASSUME TypeOK, ParseInv, pp = "apply"
    PROVE  Found \subseteq ActEntry
<1>1. act[lvl][idx] \in ActEntry \cup {Garbage}
  BY DEF TypeOK, ParseInv
<1> QED
  BY <1>1, StrayAssumption DEF Found, StrayAssumption

(* Every step of a handler or of parse() keeps the types.                  *)
LEMMA TypeStep ==
    ASSUME TypeOK, ParseInv, Next
    PROVE  TypeOK'
<1>s. NLevel \in Nat \ {0} /\ NIdx \in Nat \ {0}
  BY SizeAssumption DEF SizeAssumption
<1> USE DEF TypeOK
<1>1. ASSUME NEW n \in 0 .. NLevel, init_parser_level(n) PROVE TypeOK'
  BY <1>1 DEF init_parser_level, Disturb, tblVars, rpcVars, pktVars, phvVars
<1>2. ASSUME NEW r \in Request, modify_trans_entry(r) PROVE TypeOK'
  <2>1. trans' \in [Level -> [Idx -> TransEntry]]
    BY <1>2, RequestFacts, IndexInRange DEF modify_trans_entry
  <2> QED
    BY <1>2, <2>1 DEF modify_trans_entry, Disturb, lvlVars, pktVars, phvVars
<1>3. CASE ModifyAct
  <2>1. act' \in [Level -> [Idx -> ActEntry \cup {Garbage}]]
    BY <1>3, RequestFacts, IndexInRange DEF ModifyAct
  <2>2. sent' \in [Level -> SUBSET Request]
    BY <1>3, RequestFacts DEF ModifyAct
  <2> QED
    BY <1>3, <2>1, <2>2 DEF ModifyAct, lvlVars, pktVars, phvVars
<1>4. CASE clear
  BY <1>4, <1>s DEF clear, Disturb, tblVars, lvlVars, pktVars, phvVars
<1>5. CASE ClearLevel
  <2>1. lev \in Level /\ lev + 1 \in 0 .. NLevel
    BY <1>5, <1>s DEF ClearLevel, Level
  <2>2. trans' \in [Level -> [Idx -> TransEntry]]
    BY <1>5, <2>1, UnsetType DEF ClearLevel
  <2>3. [j \in Idx |-> Cleared(act[lev][j])] \in [Idx -> ActEntry \cup {Garbage}]
    BY <2>1, ClearedType
  <2>4. act' \in [Level -> [Idx -> ActEntry \cup {Garbage}]]
    BY <1>5, <2>1, <2>3 DEF ClearLevel
  <2>5. sent' \in [Level -> SUBSET Request]
    BY <1>5, <2>1 DEF ClearLevel
  <2> QED
    BY <1>5, <2>1, <2>2, <2>4, <2>5 DEF ClearLevel, lvlVars, pktVars, phvVars
<1>6. CASE ClearEnd
  BY <1>6, <1>s DEF ClearEnd, tblVars, pktVars, phvVars
<1>7. ASSUME NEW a \in Arrival, parse(a) PROVE TypeOK'
  <2>1. /\ a.valid \subseteq Hdr /\ a.offset \in Nat
        /\ a.hoff \in [Hdr -> Nat] /\ a.hlen \in [Hdr -> Nat]
    BY ArrivalAssumption DEF ArrivalAssumption
  <2>2. quiet' \in BOOLEAN
    BY <1>7 DEF parse
  <2> QED
    BY <1>7, <1>s, <2>1, <2>2 DEF parse, tblVars, lvlVars, rpcVars
<1>8. CASE Match
  BY <1>8 DEF Match, tblVars, lvlVars, rpcVars, phvVars
<1>9. CASE Miss
  <2>1. lvl' \in 0 .. NLevel
    BY <1>9, <1>s DEF Miss
  <2> QED
    BY <1>9, <2>1 DEF Miss, tblVars, lvlVars, rpcVars, phvVars
<1>10. ASSUME NEW a \in Found, Apply(a) PROVE TypeOK'
  <2>1. idx \in Idx /\ lvl \in Level
    BY <1>10 DEF Apply, ParseInv
  <2>2. a \in ActEntry
    BY <1>10, FoundType DEF Apply
  <2>3. a.hdr_id \in Hdr /\ a.hdr_len \in Nat
    BY <2>2 DEF ActEntry
  <2>4. /\ hoff' \in [Hdr -> Nat] /\ hlen' \in [Hdr -> Nat] /\ offset' \in Nat
        /\ valid' \subseteq Hdr /\ got' \subseteq Hdr
    <3>1. /\ hoff' = [hoff EXCEPT ![a.hdr_id] = offset]
          /\ hlen' = [hlen EXCEPT ![a.hdr_id] = a.hdr_len]
          /\ valid' = valid \cup {a.hdr_id}
          /\ got' = got \cup {a.hdr_id}
          /\ offset' = offset + a.hdr_len
      BY <1>10 DEF Apply, NextOffset
    <3> QED
      BY <3>1, <2>3
  <2>5. lvl' \in 0 .. NLevel /\ pp' \in {"level", "dropped"} /\ idx' = NoIdx
    BY <1>10, <2>1, <1>s DEF Apply, Level
  <2> QED
    BY <1>10, <2>4, <2>5 DEF Apply, tblVars, lvlVars, rpcVars
<1>11. CASE ApplyGarbage
  BY <1>11 DEF ApplyGarbage, tblVars, lvlVars, phvVars
<1>12. CASE End
  BY <1>12 DEF End, tblVars, lvlVars, rpcVars, phvVars
<1>13. CASE Return
  BY <1>13 DEF Return, tblVars, lvlVars, rpcVars, phvVars
<1> QED
  BY <1>1, <1>2, <1>3, <1>4, <1>5, <1>6, <1>7, <1>8, <1>9, <1>10, <1>11, <1>12, <1>13
  DEF Next, Handler, Parse

-----------------------------------------------------------------------------
(* Where the parse and the handlers stand.                                 *)
LEMMA ParseStep ==
    ASSUME TypeOK, ParseInv, Next
    PROVE  ParseInv'
<1>s. NLevel \in Nat \ {0}
  BY SizeAssumption DEF SizeAssumption
<1> USE DEF ParseInv
<1>1. ASSUME NEW n \in 0 .. NLevel, init_parser_level(n) PROVE ParseInv'
  BY <1>1 DEF init_parser_level, Disturb, tblVars, rpcVars, pktVars, phvVars
<1>2. ASSUME NEW r \in Request, modify_trans_entry(r) PROVE ParseInv'
  BY <1>2 DEF modify_trans_entry, Disturb, lvlVars, pktVars, phvVars
<1>3. CASE ModifyAct
  BY <1>3 DEF ModifyAct, lvlVars, pktVars, phvVars, Hit
<1>4. CASE clear
  BY <1>4 DEF clear, Disturb, tblVars, lvlVars, pktVars, phvVars
<1>5. CASE ClearLevel
  BY <1>5 DEF ClearLevel, lvlVars, pktVars, phvVars
<1>6. CASE ClearEnd
  BY <1>6 DEF ClearEnd, tblVars, pktVars, phvVars, Hit
<1>7. ASSUME NEW a \in Arrival, parse(a) PROVE ParseInv'
  BY <1>7 DEF parse, tblVars, lvlVars, rpcVars
<1>8. CASE Match
  <2>1. lvl \in Level
    BY <1>8, <1>s DEF Match, TypeOK, Level
  <2>2. idx' \in Idx /\ Hit(idx')
    BY <1>8 DEF Match
  <2>3. Hit(idx)'
    BY <1>8, <2>2 DEF Match, Hit, tblVars, phvVars
  <2> QED
    BY <1>8, <2>1, <2>2, <2>3 DEF Match, tblVars, lvlVars, rpcVars, phvVars
<1>9. CASE Miss
  BY <1>9 DEF Miss, rpcVars
<1>10. ASSUME NEW a \in Found, Apply(a) PROVE ParseInv'
  <2>1. pp' \in {"level", "dropped"} /\ pp = "apply"
    BY <1>10 DEF Apply
  <2>2. UNCHANGED <<pc, quiet>>
    BY <1>10 DEF Apply, rpcVars
  <2> QED
    BY <2>1, <2>2
<1>11. CASE ApplyGarbage
  BY <1>11 DEF ApplyGarbage
<1>12. CASE End
  BY <1>12 DEF End, rpcVars
<1>13. CASE Return
  BY <1>13 DEF Return, rpcVars
<1> QED
  BY <1>1, <1>2, <1>3, <1>4, <1>5, <1>6, <1>7, <1>8, <1>9, <1>10, <1>11, <1>12, <1>13
  DEF Next, Handler, Parse

-----------------------------------------------------------------------------
(* Only parse and Apply change the headers, and Apply puts the new one     *)
(* behind all the others.                                                  *)
LEMMA HeaderStep ==
    ASSUME TypeOK, ParseInv, HeaderInv, Disjoint, Next
    PROVE  HeaderInv' /\ Disjoint'
<1>1. CASE UNCHANGED phvVars
  BY <1>1 DEF phvVars, HeaderInv, Disjoint
<1>2. ASSUME NEW a \in Arrival, parse(a) PROVE HeaderInv' /\ Disjoint'
  BY <1>2 DEF parse, HeaderInv, Disjoint
<1>3. ASSUME NEW a \in Found, Apply(a) PROVE HeaderInv' /\ Disjoint'
  <2>1. a \in ActEntry
    BY <1>3, FoundType DEF Apply
  <2>2. a.hdr_id \in Hdr /\ a.hdr_len \in Nat
    BY <2>1 DEF ActEntry
  <2>3. /\ hoff' = [hoff EXCEPT ![a.hdr_id] = offset]
        /\ hlen' = [hlen EXCEPT ![a.hdr_id] = a.hdr_len]
        /\ got' = got \cup {a.hdr_id}
        /\ offset' = offset + a.hdr_len
    BY <1>3 DEF Apply, NextOffset
  <2>4. /\ offset \in Nat /\ hoff \in [Hdr -> Nat] /\ hlen \in [Hdr -> Nat]
        /\ got \subseteq Hdr
    BY DEF TypeOK
  <2>5. /\ hoff'[a.hdr_id] = offset /\ hlen'[a.hdr_id] = a.hdr_len
    BY <2>2, <2>3, <2>4
  <2>6. ASSUME NEW h \in got', h # a.hdr_id
        PROVE  /\ h \in got /\ hoff'[h] = hoff[h] /\ hlen'[h] = hlen[h]
               /\ hoff'[h] \in Nat /\ hlen'[h] \in Nat
               /\ hoff'[h] + hlen'[h] <= offset
    BY <2>2, <2>3, <2>4, <2>6 DEF HeaderInv
  <2>7. HeaderInv'
    <3> SUFFICES ASSUME NEW h \in got' PROVE hoff'[h] + hlen'[h] <= offset'
      BY DEF HeaderInv
    <3>1. CASE h = a.hdr_id
      BY <3>1, <2>2, <2>3, <2>4, <2>5
    <3>2. CASE h # a.hdr_id
      BY <3>2, <2>2, <2>3, <2>4, <2>6
    <3> QED
      BY <3>1, <3>2
  <2>8. Disjoint'
    <3>0. got' \subseteq valid'
      BY <1>3 DEF Apply, Disjoint
    <3> SUFFICES ASSUME NEW h \in got', NEW g \in got', h # g
                 PROVE  hoff'[h] + hlen'[h] <= hoff'[g] \/ hoff'[g] + hlen'[g] <= hoff'[h]
      BY <3>0 DEF Disjoint
    <3>1. CASE h = a.hdr_id
      BY <3>1, <2>5, <2>6
    <3>2. CASE g = a.hdr_id
      BY <3>2, <2>5, <2>6
    <3>3. CASE h # a.hdr_id /\ g # a.hdr_id
      BY <3>3, <2>6 DEF Disjoint
    <3> QED
      BY <3>1, <3>2, <3>3
  <2> QED
    BY <2>7, <2>8
<1> QED
  BY <1>1, <1>2, <1>3
  DEF Next, Handler, Parse, init_parser_level, modify_trans_entry, ModifyAct, clear,
      ClearLevel, ClearEnd, Match, Miss, ApplyGarbage, End, Return, pktVars

-----------------------------------------------------------------------------
(* The slots hold what was sent.                                           *)
LEMMA SlotStep ==
    ASSUME TypeOK, SlotInv, ParseInv, Next
    PROVE  SlotInv'
<1>1. CASE UNCHANGED <<trans, act, sent, pc, req>>
  BY <1>1 DEF SlotInv, Busy, Stored, Placed
<1>2. CASE UNCHANGED <<trans, act, sent>> /\ pc' # "act" /\ pc # "act" /\ pc # "dead"
  BY <1>2 DEF SlotInv, Busy, Stored, Placed
<1>3. CASE ApplyGarbage
  BY <1>3 DEF ApplyGarbage, SlotInv, tblVars
<1>4. ASSUME NEW r \in Request, modify_trans_entry(r) PROVE SlotInv'
  <2>1. /\ pc = "idle" /\ pc' = "act" /\ req' = r
        /\ trans' = [trans EXCEPT ![r.level][Index(r)] = Trans(r)]
        /\ UNCHANGED <<act, sent>>
    BY <1>4 DEF modify_trans_entry
  <2>2. r.level \in Level /\ Index(r) \in Idx
    BY RequestFacts, IndexInRange
  <2>3. trans'[r.level][Index(r)] = Trans(r)
    BY <2>1, <2>2 DEF TypeOK
  <2>4. ASSUME NEW l \in Level, NEW j \in Idx, ~Busy(l, j)'
        PROVE  trans'[l][j] = trans[l][j]
    BY <2>1, <2>2, <2>4 DEF TypeOK, Busy
  <2>5. ASSUME NEW l \in Level, NEW j \in Idx, ~Busy(l, j)'
        PROVE  trans'[l][j] = Unset \/ \E e \in sent'[l] : Stored(e, l, j)'
    BY <2>1, <2>4, <2>5 DEF SlotInv, Busy, Stored
  <2>6. ASSUME NEW l \in Level, Placed(l)', NEW e \in sent'[l], ~Busy(l, Index(e))'
        PROVE  Stored(e, l, Index(e))'
    <3>1. Index(e) \in Idx
      BY <2>1, IndexInRange DEF TypeOK
    <3>2. Stored(e, l, Index(e))
      BY <2>1, <2>6 DEF SlotInv, Busy, Placed
    <3> QED
      BY <2>1, <2>4, <2>6, <3>1, <3>2 DEF Stored
  <2> QED
    BY <2>1, <2>3, <2>5, <2>6 DEF SlotInv
<1>5. CASE ModifyAct
  <2> DEFINE L == req.level
             J == Index(req)
             Rest == {e \in sent[L] : Trans(e) # Trans(req)}
  <2>1. /\ pc = "act" /\ pc' = "idle" /\ UNCHANGED <<trans, req>>
        /\ act' = [act EXCEPT ![L][J] = ActionOf(req)]
        /\ sent' = [sent EXCEPT ![L] = Rest \cup {req}]
    BY <1>5 DEF ModifyAct
  <2>2. L \in Level /\ J \in Idx
    BY RequestFacts, IndexInRange DEF TypeOK
  <2> HIDE DEF L, J
  <2>3. /\ sent'[L] = Rest \cup {req}
        /\ \A l \in Level \ {L} : sent'[l] = sent[l]
    BY <2>1, <2>2 DEF TypeOK
  <2>4. /\ act'[L][J] = ActionOf(req)
        /\ \A l \in Level, j \in Idx : l # L \/ j # J => act'[l][j] = act[l][j]
    BY <2>1, <2>2 DEF TypeOK
  <2>5. trans[L][J] = Trans(req)
    BY <2>1 DEF SlotInv, L, J
  <2>6. Index(req) = J /\ trans'[L][J] = Trans(req) /\ act'[L][J] = ActionOf(req)
    BY <2>1, <2>4, <2>5 DEF J
  <2>7. \A l \in Level, j \in Idx : Busy(l, j) <=> l = L /\ j = J
    BY <2>1 DEF Busy, L, J
  <2>8. ASSUME NEW l \in Level, NEW e, NEW f, e \in sent'[l], f \in sent'[l],
               Trans(e) = Trans(f)
        PROVE  e = f
    <3>1. CASE l = L
      BY <3>1, <2>2, <2>3, <2>8 DEF SlotInv
    <3>2. CASE l # L
      BY <3>2, <2>3, <2>8 DEF SlotInv
    <3> QED
      BY <3>1, <3>2
  <2>9. ASSUME NEW l \in Level, NEW j \in Idx
        PROVE  trans'[l][j] = Unset \/ \E e \in sent'[l] : Stored(e, l, j)'
    <3>1. CASE l = L /\ j = J
      BY <3>1, <2>3, <2>6 DEF Stored
    <3>2. CASE l # L \/ j # J
      <4>1. CASE trans[l][j] = Unset
        BY <4>1, <2>1
      <4>2. CASE \E e \in sent[l] : Stored(e, l, j)
        <5>1. PICK e \in sent[l] : Stored(e, l, j)
          BY <4>2
        <5>2. Stored(e, l, j)'
          BY <5>1, <3>2, <2>1, <2>4 DEF Stored
        <5>3. CASE l # L
          BY <5>2, <5>3, <2>3
        <5>4. CASE l = L
          <6>1. Index(e) # Index(req)
            BY <5>1, <5>4, <3>2 DEF Stored, J
          <6>2. Trans(e) # Trans(req)
            BY <6>1, SameTrans
          <6> QED
            BY <5>2, <5>4, <6>2, <2>3
        <5> QED
          BY <5>3, <5>4
      <4> QED
        BY <4>1, <4>2, <3>2, <2>1, <2>7 DEF SlotInv
    <3> QED
      BY <3>1, <3>2
  <2>10. ASSUME NEW l \in Level, Placed(l)', NEW e \in sent'[l]
         PROVE  Stored(e, l, Index(e))'
    <3>1. CASE l # L
      <4>1. Placed(l) /\ e \in sent[l] /\ Index(e) \in Idx
        BY <3>1, <2>3, <2>10, IndexInRange DEF Placed, TypeOK
      <4>2. Stored(e, l, Index(e))
        BY <4>1, <3>1, <2>1, <2>7 DEF SlotInv
      <4> QED
        BY <4>1, <4>2, <3>1, <2>1, <2>4 DEF Stored
    <3>2. CASE l = L /\ e = req
      BY <3>2, <2>6 DEF Stored
    <3>3. CASE l = L /\ e # req
      <4>1. e \in sent[L] /\ Trans(e) # Trans(req) /\ Index(e) \in Idx
        BY <3>3, <2>2, <2>3, <2>10, IndexInRange DEF TypeOK
      <4>2. ASSUME NEW g \in sent[L], Trans(g) # Trans(req) PROVE Index(g) # J
        BY <4>2, <3>3, <2>3, <2>10 DEF Placed, J
      <4>3. Placed(L)
        <5> SUFFICES ASSUME NEW g \in sent[L], NEW h \in sent[L], Trans(g) # Trans(h)
                     PROVE  Index(g) # Index(h)
          BY DEF Placed
        <5>1. CASE Trans(g) = Trans(req)
          BY <5>1, <4>2, SameTrans DEF J
        <5>2. CASE Trans(h) = Trans(req)
          BY <5>2, <4>2, SameTrans DEF J
        <5>3. CASE Trans(g) # Trans(req) /\ Trans(h) # Trans(req)
          BY <5>3, <3>3, <2>3, <2>10 DEF Placed
        <5> QED
          BY <5>1, <5>2, <5>3
      <4>4. Stored(e, L, Index(e))
        BY <4>1, <4>2, <4>3, <2>1, <2>2, <2>7 DEF SlotInv
      <4> QED
        BY <4>1, <4>2, <4>4, <3>3, <2>1, <2>2, <2>4 DEF Stored
    <3> QED
      BY <3>1, <3>2, <3>3
  <2> QED
    BY <2>1, <2>8, <2>9, <2>10 DEF SlotInv
<1>6. CASE ClearLevel
  <2>1. /\ pc = "clear" /\ pc' = "clear" /\ lev \in Level
        /\ trans' = [trans EXCEPT ![lev] = [j \in Idx |-> Unset]]
        /\ act' = [act EXCEPT ![lev] = [j \in Idx |-> Cleared(act[lev][j])]]
        /\ sent' = [sent EXCEPT ![lev] = {}]
    BY <1>6, SizeAssumption DEF ClearLevel, TypeOK, Level, SizeAssumption
  <2>2. sent'[lev] = {} /\ \A j \in Idx : trans'[lev][j] = Unset
    BY <2>1 DEF TypeOK
  <2>3. \A l \in Level \ {lev} :
          sent'[l] = sent[l] /\ trans'[l] = trans[l] /\ act'[l] = act[l]
    BY <2>1 DEF TypeOK
  <2>4. \A l, j : ~Busy(l, j)
    BY <2>1 DEF Busy
  <2>5. ASSUME NEW l \in Level, NEW e, NEW f, e \in sent'[l], f \in sent'[l],
               Trans(e) = Trans(f)
        PROVE  e = f
    BY <2>2, <2>3, <2>5 DEF SlotInv
  <2>6. ASSUME NEW l \in Level, NEW j \in Idx
        PROVE  trans'[l][j] = Unset \/ \E e \in sent'[l] : Stored(e, l, j)'
    BY <2>1, <2>2, <2>3, <2>4 DEF SlotInv, Stored
  <2>7. ASSUME NEW l \in Level, Placed(l)', NEW e \in sent'[l]
        PROVE  Stored(e, l, Index(e))'
    BY <2>1, <2>2, <2>3, <2>4, <2>7 DEF SlotInv, Stored, Placed
  <2> QED
    BY <2>1, <2>5, <2>6, <2>7 DEF SlotInv
<1> QED
  BY <1>1, <1>2, <1>3, <1>4, <1>5, <1>6
  DEF Next, Handler, Parse, init_parser_level, clear, ClearEnd, parse, Match, Miss,
      Apply, End, Return, tblVars, rpcVars

-----------------------------------------------------------------------------
(* A parse in a quiet table meets no slot without an action, unless its    *)
(* key is the one that an empty slot stands for.                           *)
LEMMA CrashStep ==
    ASSUME TypeOK, SlotInv, ParseInv, QuietNoCrash, Next
    PROVE  QuietNoCrash'
<1>1. CASE ApplyGarbage
  <2> SUFFICES ASSUME quiet PROVE Applies(Unset, cur_state, key)
    BY <1>1 DEF ApplyGarbage, QuietNoCrash, phvVars
  <2>1. /\ pp = "apply" /\ act[lvl][idx] = Garbage
        /\ pc = "idle" /\ lvl \in Level /\ idx \in Idx /\ Hit(idx)
    BY <1>1 DEF ApplyGarbage, ParseInv
  <2>2. \A e \in sent[lvl] : ~Stored(e, lvl, idx)
    BY <2>1, RequestFacts DEF Stored, TypeOK
  <2>3. trans[lvl][idx] = Unset
    BY <2>1, <2>2 DEF SlotInv, Busy
  <2> QED
    BY <2>1, <2>3 DEF Hit
<1>2. CASE pp' # "dead"
  BY <1>2 DEF QuietNoCrash
<1>3. CASE pp = "dead" /\ UNCHANGED <<pp, quiet, cur_state, key>>
  BY <1>3 DEF QuietNoCrash
<1> QED
  <2>1. CASE pc # "dead"
    BY <1>1, <1>2, <2>1 DEF Next, Handler, Parse, ParseInv, init_parser_level,
      modify_trans_entry, ModifyAct, clear, ClearLevel, ClearEnd, parse, Match, Miss,
      Apply, End, Return, pktVars
  <2>2. CASE pc = "dead"
    BY <2>2 DEF Next, Handler, Parse, ParseInv, init_parser_level,
      modify_trans_entry, ModifyAct, clear, ClearLevel, ClearEnd, parse, Match, Miss,
      Apply, ApplyGarbage, End, Return
  <2> QED
    BY <2>1, <2>2

(* Every step keeps the invariant.                                         *)
LEMMA Inductive == IInv /\ [Next]_vars => IInv'
<1> SUFFICES ASSUME IInv, [Next]_vars PROVE IInv'
  OBVIOUS
<1>1. CASE Next
  BY <1>1, TypeStep, SlotStep, ParseStep, HeaderStep, CrashStep DEF IInv
<1>2. CASE UNCHANGED vars
  BY <1>2 DEF vars, tblVars, lvlVars, rpcVars, pktVars, phvVars, IInv, TypeOK, SlotInv,
    Busy, Stored, Placed, ParseInv, Hit, HeaderInv, Disjoint, QuietNoCrash
<1> QED
  BY <1>1, <1>2

(* SearchExact is what the invariant says of a level that an undisturbed   *)
(* parse works on.                                                         *)
LEMMA SearchFollows == IInv => SearchExact
<1> SUFFICES ASSUME IInv, pp \in {"apply", "level"}, quiet, lvl < needed, Placed(lvl),
                    ~Applies(Unset, cur_state, key)
             PROVE  SearchExact
  BY DEF SearchExact
<1>1. pc = "idle" /\ \A l, j : ~Busy(l, j)
  BY DEF IInv, ParseInv, Busy
<1>2. lvl \in Level
  BY SizeAssumption DEF SizeAssumption, IInv, TypeOK, Level
<1>3. ASSUME NEW j \in Idx, Hit(j)
      PROVE  \E e \in sent[lvl] : Applies(e, cur_state, key) /\ act[lvl][j] = ActionOf(e)
  <2>1. trans[lvl][j] # Unset
    BY <1>3 DEF Hit
  <2>2. PICK e \in sent[lvl] : Stored(e, lvl, j)
    BY <1>1, <1>2, <2>1 DEF IInv, SlotInv
  <2>3. Applies(Trans(e), cur_state, key)
    BY <1>3, <2>2 DEF Hit, Stored
  <2> QED
    BY <2>2, <2>3, AppliesTrans DEF Stored
<1>4. ASSUME NEW e \in sent[lvl], Applies(e, cur_state, key)
      PROVE  \E j \in Idx : Hit(j)
  <2>1. Index(e) \in Idx
    BY <1>2, IndexInRange DEF IInv, TypeOK
  <2>2. trans[lvl][Index(e)] = Trans(e)
    BY <1>1, <1>2 DEF IInv, SlotInv, Stored
  <2> QED
    BY <1>4, <2>1, <2>2, AppliesTrans DEF Hit
<1>5. pp = "apply" => idx \in Idx /\ Hit(idx)
  BY DEF IInv, ParseInv
<1> QED
  BY <1>3, <1>4, <1>5 DEF SearchExact

-----------------------------------------------------------------------------
(* The invariant holds always.                                             *)
LEMMA Invariance == Spec => []IInv
  BY InitInv, Inductive, PTL DEF Spec

(* The type invariant of the parser, for tables, keys and entries of every *)
(* size: the members of parser.h keep their types, and an extracted header *)
(* is a valid header of the PHV.                                           *)
THEOREM TypeCorrect == Spec => []TypeOK
<1>1. IInv => TypeOK
  BY DEF IInv
<1> QED
  BY Invariance, <1>1, PTL

(* ParserStage::parse, undisturbed, finds exactly what was sent.           *)
THEOREM QuietSearchesAreExact == Spec => []SearchExact
  BY Invariance, SearchFollows, PTL

(* The headers that an undisturbed parse extracts do not overlap.          *)
THEOREM HeadersDoNotOverlap == Spec => []HeadersDisjoint
<1>1. IInv => HeadersDisjoint
  BY DEF IInv, Disjoint, HeadersDisjoint
<1> QED
  BY Invariance, <1>1, PTL

(* An undisturbed parse dies only from the key of an empty slot.           *)
THEOREM QuietParsesDoNotCrash == Spec => []QuietNoCrash
<1>1. IInv => QuietNoCrash
  BY DEF IInv
<1> QED
  BY Invariance, <1>1, PTL
=============================================================================
