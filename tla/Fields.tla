------------------------------- MODULE Fields -------------------------------
(***************************************************************************)
(* How bit fields travel: a table entry from the controller to the         *)
(* dataplane (controller/ctrl_mod_table.h), a packet's fields into a match *)
(* key (get_field, combine_to_single_key), the action and its parameters   *)
(* out of the entry's value (Matcher::match, set_action_paras), and an     *)
(* assignment back into the packet (get_op_val_any,                        *)
(* modify_field_with_data).                                                *)
(*                                                                         *)
(* A buffer is a function from indices to bytes, 0 to 255, and a field is  *)
(* a first bit and a length; bits are counted from the left of byte 0.     *)
(* A scenario is one entry, one packet and one primitive.                  *)
(***************************************************************************)
EXTENDS Integers, Sequences
LOCAL INSTANCE SequencesExt

CONSTANTS
    Scenario,   \* what is inserted, what arrives, and what is assigned
    NByte,      \* bound: the bytes of a packet
    Garbage     \* the bytes uninitialised memory may hold

Shl(b, n) == (b * 2^n) % 256
Shr(b, n) == b \div 2^n
Bytes(len) == (len + 7) \div 8
EmptyLen(len) == 8 * Bytes(len) - len      \* tail_offset

-----------------------------------------------------------------------------
(* Reference definitions: single bits.                                     *)
BitOf(buf, i) == Shr(buf[i \div 8], 7 - (i % 8)) % 2
ValBit(val, len, i) == (val \div 2^(len - 1 - i)) % 2
ByteFrom(bit(_)) ==
    FoldLeft(LAMBDA sum, i : 2 * sum + bit(i), 0, <<0, 1, 2, 3, 4, 5, 6, 7>>)

(* A buffer with val put into a field.                                     *)
Put(buf, f, val) ==
    LET bit(i) == IF i \in f.begin .. f.begin + f.len - 1
                  THEN ValBit(val, f.len, i - f.begin) ELSE BitOf(buf, i)
    IN [n \in DOMAIN buf |-> ByteFrom(LAMBDA i : bit(8 * n + i))]

(* The last len bits of data are val.                                      *)
Holds(data, len, val) ==
    \A i \in 0 .. len - 1 :
        BitOf(data.bytes, 8 * Bytes(data.len) - len + i) = ValBit(val, len, i)

(* The number in len bits of a buffer.                                     *)
Bits(buf, begin, len) ==
    FoldLeft(LAMBDA sum, i : 2 * sum + BitOf(buf, begin + i - 1), 0, [i \in 1 .. len |-> i])

-----------------------------------------------------------------------------
(***************************************************************************)
(* Match keys.  A KeyInfo holds a field's bits left-aligned.               *)
(***************************************************************************)

(* Mutant: a field that ends exactly with its last byte's room.            *)
SpansMoreNot(left, right) == left + right > 8

SpansMore(left, right) == left + right >= 8

get_field(packet, f) ==
    IF f.type = "VALID" THEN [len |-> 1, bytes |-> [i \in {0} |-> Shl(f.val, 7)]]
    ELSE LET first == f.begin \div 8
             left == f.begin % 8
             right == EmptyLen(f.begin + f.len)
             n == Bytes(f.len)
             joined(i) == (Shl(packet[first + i], left) + Shr(packet[first + i + 1], 8 - left)) % 256
             byte(i) == IF i < n - 1 \/ SpansMore(left, right)
                        THEN joined(i) ELSE Shl(packet[first + i], left)
         IN [len |-> f.len,
             bytes |-> [i \in 0 .. n - 1 |->
                IF i < n - 1 THEN byte(i) ELSE Shl(Shr(byte(i), EmptyLen(f.len)), EmptyLen(f.len))]]

(* extract_exact, extract_ternary and extract_action_para: the bytes of a  *)
(* value, shifted to the left.                                             *)
extract(len, val) ==
    LET n == Bytes(len)
        given == [i \in 0 .. n - 1 |-> (val \div 2^(8 * (n - 1 - i))) % 256]
    IN [len |-> len,
        bytes |-> [i \in 0 .. n - 1 |->
           IF i < n - 1 THEN (Shl(given[i], EmptyLen(len)) + Shr(given[i + 1], 8 - EmptyLen(len))) % 256
           ELSE Shl(given[i], EmptyLen(len))]]

(* One byte of a field goes into the key; when it is the field's last, the *)
(* place of the next one is worked out.  The copies of controller and      *)
(* dataplane differ in step, by which the index moves on when the field    *)
(* ends within the byte.                                                   *)
AddByte(k, byte, tail, last, step) ==
    LET here == [k.key EXCEPT ![k.idx] = (@ + Shr(byte, 8 - k.left)) % 256]
        both == [here EXCEPT ![k.idx + 1] = Shl(byte, k.left)]
    IN CASE ~last -> [key |-> IF k.left < 8 THEN both ELSE here,
                      idx |-> k.idx + 1, left |-> k.left]
         [] last /\ k.left > tail -> [key |-> here, idx |-> k.idx + step, left |-> k.left - tail]
         [] last /\ k.left = tail -> [key |-> here, idx |-> k.idx + 1, left |-> 8]
         [] OTHER -> [key |-> both, idx |-> k.idx + 1, left |-> 8 - tail + k.left]

AddField(k, info, step) ==
    LET n == Bytes(info.len)
        added[i \in 0 .. n] ==
            IF i = 0 THEN k
            ELSE AddByte(added[i - 1], info.bytes[i - 1], EmptyLen(info.len), i = n, step)
    IN added[n]

SumLen(seq) == FoldLeft(LAMBDA sum, f : sum + f.len, 0, seq)

(* The key, without what is written behind its end.                        *)
combine_to_single_key(infos, step) ==
    LET start == [key |-> [i \in 0 .. NByte |-> 0], idx |-> 0, left |-> 8]
        end == FoldLeft(LAMBDA k, info : AddField(k, info, step), start, infos)
    IN [i \in 0 .. Bytes(SumLen(infos)) - 1 |-> end.key[i]]

Controller == 1
Dataplane == 0

-----------------------------------------------------------------------------
(***************************************************************************)
(* Parameters and assignments.                                             *)
(***************************************************************************)

(* Mutant: each parameter starts where the one before it did.              *)
ParaBeginFirst(lens, i) == 16

(* Two bytes for the id of the action, then the parameters.                *)
ParaBegin(lens, i) == 16 + FoldLeft(LAMBDA sum, l : sum + l, 0, SubSeq(lens, 1, i - 1))

set_action_para(value, begin, len) ==
    LET end == begin + len
        right == end % 8
        first == begin \div 8
        last == (end - 1) \div 8
        cut(i) == IF i = first THEN Shr(Shl(value[i], begin % 8), begin % 8) ELSE value[i]
        new(i) == IF i = last /\ right # 0
                  THEN Shl(Shr(cut(i), 8 - right), 8 - right) ELSE cut(i)
    IN [len |-> len,
        bytes |-> [j \in 0 .. Bytes(len) - 1 |->
          LET i == last - (Bytes(len) - 1 - j) IN
          IF right = 0 THEN new(i)
          ELSE (Shr(new(i), 8 - right) + (IF i > first THEN Shl(new(i - 1), right) ELSE 0)) % 256]]

(* get_op_val_any for a field.  The bits before the field in its first     *)
(* byte are to be cut off, but the shifts there and back are made on an    *)
(* int and change nothing; bytes the loop does not reach are not set.      *)
get_op_val_any(packet, f, g) ==
    LET first == f.begin \div 8
        last == (f.begin + f.len) \div 8
        right == 8 - ((f.begin + f.len) % 8)
        n == Bytes(f.len)
        backup(i) == IF i = last THEN Shl(Shr(packet[i], right), right) ELSE packet[i]
    IN [len |-> f.len,
        bytes |-> [j \in 0 .. n - 1 |->
          LET i == last - (n - 1 - j) IN
          IF i > first THEN (Shr(backup(i), right) + Shl(backup(i - 1), 8 - right)) % 256
          ELSE g]]

(* Mutant: the room behind the field is one bit too small.                 *)
RightEmptyShort(f) == IF EmptyLen(f.begin + f.len) = 0 THEN 0 ELSE EmptyLen(f.begin + f.len) - 1

RightEmpty(f) == EmptyLen(f.begin + f.len)

(* The data's last bytes, or, if it is shorter, one byte to the right;     *)
(* what lies behind it is read with it then.                               *)
modify_field_with_data(packet, f, data, g) ==
    LET first == f.begin \div 8
        n == (f.begin + f.len - 1) \div 8 - first + 1
        m == Bytes(data.len)
        new(i) == CASE m >= n -> data.bytes[m - n + i]
                    [] m < n /\ i = 0 -> 0
                    [] OTHER -> IF i - 1 < m THEN data.bytes[i - 1] ELSE g
        right == RightEmpty(f)
        left == f.begin % 8
        span(i) == Shl(new(i), right) + (IF i + 1 < n THEN Shr(new(i + 1), 8 - right) ELSE 0)
        kept(i) == (IF i = 0 THEN Shl(Shr(packet[first], 8 - left), 8 - left) ELSE 0)
                     + (IF i = n - 1 THEN packet[first + i] % (2^right) ELSE 0)
    IN [k \in DOMAIN packet |->
          IF k \in first .. first + n - 1
          THEN (kept(k - first) + span(k - first)) % 256 ELSE packet[k]]

-----------------------------------------------------------------------------
VARIABLES
    phase,
    sc,         \* the scenario
    packet,     \* phv->packet
    key, value, \* the entry as it is in the table
    match_key, hit,
    action,     \* next_action_id
    paras,      \* action_paras
    source      \* what the primitive's right side gave

vars == <<phase, sc, packet, key, value, match_key, hit, action, paras, source>>

NoData == [len |-> 0, bytes |-> <<>>]

(* The packet has the fields of the scenario on a background.              *)
Arrived ==
    LET inPacket(f) == f.type = "FIELD"
    IN FoldLeft(LAMBDA buf, f : Put(buf, f, f.val), [i \in 0 .. NByte - 1 |-> sc.ground],
                SelectSeq(sc.fields, inPacket))

Init ==
    /\ phase = "insert"
    /\ sc \in Scenario
    /\ packet = Arrived
    /\ key = <<>> /\ value = <<>> /\ match_key = <<>> /\ hit = FALSE
    /\ action = 0 /\ paras = <<>> /\ source = NoData

(* extract: new_value has the id of the action and its parameters, but     *)
(* what is sent is value, the parameters alone.  Their bytes are copied    *)
(* over what the slot held.                                                *)
Insert ==
    /\ phase = "insert"
    /\ phase' = "match"
    /\ key' = combine_to_single_key(
                [i \in DOMAIN sc.fields |-> extract(sc.fields[i].len, sc.fields[i].want)],
                Controller)
    /\ LET sent == combine_to_single_key(
                [i \in DOMAIN sc.params |-> extract(sc.params[i].len, sc.params[i].val)],
                Controller)
       IN value' = [i \in 0 .. NByte - 1 |-> IF i \in DOMAIN sent THEN sent[i] ELSE sc.slot]
    /\ UNCHANGED <<sc, packet, match_key, hit, action, paras, source>>

(* generate_match_key_and_match: fields to key, the comparison with the    *)
(* entry, and the action in the first two bytes of its value.              *)
Match ==
    /\ phase = "match"
    /\ match_key' = combine_to_single_key(
                [i \in DOMAIN sc.fields |-> get_field(packet, sc.fields[i])], Dataplane)
    /\ hit' = (match_key' = key)
    /\ action' = 256 * value[0] + value[1]
    /\ phase' = "params"
    /\ UNCHANGED <<sc, packet, key, value, paras, source>>

Lens == [i \in DOMAIN sc.params |-> sc.params[i].len]

(* Executor::execute of an action with the parameters of the scenario:     *)
(* they are cut out of the value behind the id.                            *)
SetActionParas ==
    /\ phase = "params"
    /\ paras' = [i \in DOMAIN Lens |-> set_action_para(value, ParaBegin(Lens, i), Lens[i])]
    /\ phase' = "run"
    /\ UNCHANGED <<sc, packet, key, value, match_key, hit, action, source>>

(* Primitive::run for an assignment.                                       *)
Run ==
    /\ phase = "run"
    /\ \E g \in Garbage :
         /\ source' = IF sc.from = "PARAM" THEN paras[Len(paras)]
                      ELSE get_op_val_any(packet, sc.fields[1], g)
         /\ packet' = modify_field_with_data(packet, sc.target, source', g)
    /\ phase' = "done"
    /\ UNCHANGED <<sc, key, value, match_key, hit, action, paras>>

Next == Insert \/ Match \/ SetActionParas \/ Run

Spec == Init /\ [][Next]_vars
-----------------------------------------------------------------------------
(* A packet hits an entry if and only if its field has the entry's value,  *)
(* wherever in the packet the field lies and however long it is, although  *)
(* controller and dataplane build the key in different ways                *)
(* (get_field, combine_to_single_key).  With several fields it does not    *)
(* hold: the two copies of combine_to_single_key place the second one at   *)
(* different bits.                                                         *)
KeysAgree ==
    phase \in {"params", "run", "done"} /\ Len(sc.fields) = 1 =>
        (hit <=> sc.fields[1].want = sc.fields[1].val)

(* The bits of a stored value that are parameter i of the action.          *)
ParamBits(i) ==
    Bits(value, 16 + FoldLeft(LAMBDA sum, l : sum + l, 0, SubSeq(Lens, 1, i - 1)), Lens[i])

(* The parameters an action is given are the bits of the value behind the  *)
(* two bytes of the id, one after the other and with nothing of their      *)
(* neighbours, wherever they begin and end within a byte                   *)
(* (set_action_paras).                                                     *)
ParasExact ==
    phase \in {"run", "done"} =>
        \A i \in DOMAIN paras : Holds(paras[i], 8 * Bytes(Lens[i]), ParamBits(i))

(* A packet that hits an entry of one key field runs the action of the     *)
(* entry with the parameters of the entry, at least if each of them takes  *)
(* whole bytes (ctrl_mod_table's extract).                                 *)
EntryArrives ==
    phase = "run" /\ hit /\ Len(sc.fields) = 1 /\ (\A i \in DOMAIN Lens : Lens[i] % 8 = 0) =>
        /\ action = sc.action
        /\ \A i \in DOMAIN paras : Holds(paras[i], Lens[i], sc.params[i].val)

(* A right side that is a field of whole bytes is read exactly, at any bit *)
(* of the packet, and so is a parameter of any length; and an assignment   *)
(* of a value that fits the field it is assigned to, and takes no more     *)
(* than one byte less, changes the bits of that field to the value and no  *)
(* other bit of the packet (get_op_val_any, set_action_paras,              *)
(* modify_field_with_data).                                                *)
AssignExact ==
    phase = "done" =>
        LET f == sc.fields[1]
            last == Len(sc.params)
            len == IF sc.from = "PARAM" THEN Lens[last] ELSE f.len
            val == IF sc.from = "PARAM" THEN ParamBits(last) ELSE f.val
        IN  /\ sc.from = "FIELD" => f.len % 8 = 0
            /\ val < 2^sc.target.len
            /\ Bytes(len) >= ((sc.target.begin % 8) + sc.target.len - 1) \div 8
            => packet = Put(Arrived, sc.target, val)
=============================================================================
