---------------------------- MODULE TokenMetadata ----------------------------
(***************************************************************************)
(* The fixed-layout TokenMetadata account of the `metadata` program        *)
(* (programs/metadata/src/state/token_metadata.rs): the name, symbol and   *)
(* uri fields and the additional_metadata key/value table, each a          *)
(* fixed-size byte array holding a null-terminated, zero-padded UTF-8      *)
(* string.  The account is a zero-copy view of its buffer, so the state    *)
(* below is the buffer itself.  update_authority and mint are only read    *)
(* and are left out.                                                       *)
(*                                                                         *)
(* call records the last public call and its arguments, ret the result of  *)
(* the last call on the table (set_key_value, remove_key, get_value) as a  *)
(* record [tag, val]: Ok/AccountDataTooSmall, true/false, Some(val)/None.  *)
(* The string setters return nothing and leave ret alone.                  *)
(***************************************************************************)
EXTENDS Integers, SequencesExt, Bytes

CONSTANTS
  NAME_LEN, SYMBOL_LEN, URI_LEN,   \* capacities of the string fields
  MAX_KV_PAIRS,                    \* slots of additional_metadata
  KV_KEY_LEN, KV_VALUE_LEN,        \* capacities of a slot's key and value
  Strs,                            \* &str arguments of the string setters
  Keys, Values                     \* &str arguments of the table calls

ASSUME \A c \in {NAME_LEN, SYMBOL_LEN, URI_LEN, KV_KEY_LEN, KV_VALUE_LEN} :
         c \in Nat \ {0}
ASSUME \A s \in Strs \cup Keys \cup Values : Utf8Valid(s)

VARIABLES name, symbol, uri, kv, call, ret

vars == <<name, symbol, uri, kv, call, ret>>

Zeros(n) == [i \in 1..n |-> 0]

Slot == [k : [1..KV_KEY_LEN -> Byte], v : [1..KV_VALUE_LEN -> Byte]]

Result(tag) == [tag |-> tag, val |-> <<>>]

EmptyEntry == [k |-> Zeros(KV_KEY_LEN), v |-> Zeros(KV_VALUE_LEN)]

(* A freshly allocated account: every byte zero. *)
Init ==
  /\ name = Zeros(NAME_LEN)
  /\ symbol = Zeros(SYMBOL_LEN)
  /\ uri = Zeros(URI_LEN)
  /\ kv = [i \in 1..MAX_KV_PAIRS |-> EmptyEntry]
  /\ call = [op |-> "none", args |-> <<>>]
  /\ ret = Result("None")

-----------------------------------------------------------------------------
(* Mutants: plausible slips in the code below, one per checked property.  *)

\* write_str_to_bytes that copies the whole source (no min with len - 1)
WriteStrUnbounded(dst, src) ==
  [i \in 1..Max({Len(dst), Len(src)}) |-> IF i <= Len(src) THEN src[i] ELSE 0]

\* write_str_to_bytes that forgets dst.fill(0)
WriteStrNoFill(dst, src) ==
  LET n == Min({Len(src), Len(dst) - 1})
  IN [i \in 1..Len(dst) |-> IF i <= n THEN src[i] ELSE dst[i]]

-----------------------------------------------------------------------------
(* read_str_from_bytes: the bytes up to the first NUL (or the whole field) *)
(* if they are valid UTF-8, else "".                                       *)
ReadStrFromBytes(bytes) ==
  LET z   == SelectInSeq(bytes, LAMBDA c : c = 0)
      end == IF z = 0 THEN Len(bytes) ELSE z - 1
      s   == SubSeq(bytes, 1, end)
  IN IF Utf8Valid(s) THEN s ELSE <<>>

\* write_str_to_bytes: zero dst, then copy min(len, dst.len() - 1) bytes
WriteStrToBytes(dst, src) ==
  LET n == Min({Len(src), Len(dst) - 1})
  IN [i \in 1..Len(dst) |-> IF i <= n THEN src[i] ELSE 0]

Name   == ReadStrFromBytes(name)
Symbol == ReadStrFromBytes(symbol)
Uri    == ReadStrFromBytes(uri)

\* raw-array comparison of a slot's key with the argument (mutant)
FindKeyIndexRaw(key) == SelectInSeq(kv, LAMBDA e : e.k = key)

(* find_key_index: first slot whose decoded key equals key, 0 for None.    *)
FindKeyIndex(key) == SelectInSeq(kv, LAMBDA e : ReadStrFromBytes(e.k) = key)

(* The first slot whose key starts with a NUL byte, 0 for None.            *)
FirstEmptySlot == SelectInSeq(kv, LAMBDA e : e.k[1] = 0)

-----------------------------------------------------------------------------
SetName(s) ==
  /\ name' = WriteStrToBytes(name, s)
  /\ UNCHANGED <<symbol, uri, kv, ret>>

SetSymbol(s) ==
  /\ symbol' = WriteStrToBytes(symbol, s)
  /\ UNCHANGED <<name, uri, kv, ret>>

SetUri(s) ==
  /\ uri' = WriteStrToBytes(uri, s)
  /\ UNCHANGED <<name, symbol, kv, ret>>

(* set_key_value: update in place, else fill the first empty slot, else    *)
(* fail with AccountDataTooSmall and write nothing.                        *)
SetKeyValue(key, value) ==
  LET i == FindKeyIndex(key)
      j == FirstEmptySlot
  IN /\ \/ /\ i # 0
           /\ kv' = [kv EXCEPT ![i].v = WriteStrToBytes(@, value)]
           /\ ret' = Result("Ok")
        \/ /\ i = 0
           /\ j # 0
           /\ kv' = [kv EXCEPT ![j] = [k |-> WriteStrToBytes(@.k, key),
                                       v |-> WriteStrToBytes(@.v, value)]]
           /\ ret' = Result("Ok")
        \/ /\ i = 0
           /\ j = 0
           /\ ret' = Result("AccountDataTooSmall")
           /\ UNCHANGED kv
     /\ UNCHANGED <<name, symbol, uri>>

\* remove_key that clears only the value (mutant)
RemoveKeyValueOnly(key) ==
  LET i == FindKeyIndex(key)
  IN /\ IF i # 0
          THEN /\ kv' = [kv EXCEPT ![i].v = Zeros(KV_VALUE_LEN)]
               /\ ret' = Result("true")
          ELSE /\ ret' = Result("false")
               /\ UNCHANGED kv
     /\ UNCHANGED <<name, symbol, uri>>

(* remove_key: zero both halves of the matching slot; report whether one  *)
(* matched.                                                                *)
RemoveKey(key) ==
  LET i == FindKeyIndex(key)
  IN /\ IF i # 0
          THEN /\ kv' = [kv EXCEPT ![i] = EmptyEntry]
               /\ ret' = Result("true")
          ELSE /\ ret' = Result("false")
               /\ UNCHANGED kv
     /\ UNCHANGED <<name, symbol, uri>>

GetValue(key) ==
  LET i == FindKeyIndex(key)
  IN /\ ret' = IF i = 0 THEN Result("None")
                ELSE [tag |-> "Some", val |-> ReadStrFromBytes(kv[i].v)]
     /\ UNCHANGED <<name, symbol, uri, kv>>

(* The Field argument of update. *)
Fields ==
       [kind : {"Name", "Symbol", "Uri"}, args : {<<s>> : s \in Strs}]
  \cup [kind : {"Key"}, args : {<<k, v>> : k \in Keys, v \in Values}]

(* update: dispatch on the Field variant; the Key variant propagates the   *)
(* error of set_key_value.                                                 *)
Update(field) ==
  /\ CASE field.kind = "Name"   -> SetName(field.args[1])
       [] field.kind = "Symbol" -> SetSymbol(field.args[1])
       [] field.kind = "Uri"    -> SetUri(field.args[1])
       [] field.kind = "Key"    -> SetKeyValue(field.args[1], field.args[2])
  /\ call' = [op |-> field.kind, args |-> field.args]

Next ==
  \/ \E f \in Fields : Update(f)
  \/ \E k \in Keys :
       \/ RemoveKey(k) /\ call' = [op |-> "remove_key", args |-> <<k>>]
       \/ GetValue(k) /\ call' = [op |-> "get_value", args |-> <<k>>]

Spec == Init /\ [][Next]_vars

-----------------------------------------------------------------------------
(* Every field keeps its fixed size and holds bytes.                       *)
TypeOK ==
  /\ name \in [1..NAME_LEN -> Byte]
  /\ symbol \in [1..SYMBOL_LEN -> Byte]
  /\ uri \in [1..URI_LEN -> Byte]
  /\ kv \in [1..MAX_KV_PAIRS -> Slot]
  /\ call.op \in {"none", "Name", "Symbol", "Uri", "Key", "remove_key", "get_value"}

Occupied(i) == kv[i].k[1] # 0

(* The table is sound for its key-unique lookup API: every occupied slot   *)
(* decodes to a non-empty key that no other occupied slot decodes to, so   *)
(* find_key_index reaches every entry set_key_value wrote, and remove_key  *)
(* leaves no second entry behind for the same key.                         *)
LookupSound ==
  \A i \in DOMAIN kv :
    Occupied(i) =>
      /\ ReadStrFromBytes(kv[i].k) # <<>>
      /\ \A j \in DOMAIN kv \ {i} :
           Occupied(j) => ReadStrFromBytes(kv[j].k) # ReadStrFromBytes(kv[i].k)

(* FixedString read-back (spec section 8): right after set_name,          *)
(* set_symbol or set_uri with s, the getter returns the first              *)
(* min(len(s), capacity - 1) bytes of s, whatever the field held before.   *)
Truncated(s, cap) == SubSeq(s, 1, Min({Len(s), cap - 1}))

FieldReadBack ==
  /\ call.op = "Name"   => Name   = Truncated(call.args[1], NAME_LEN)
  /\ call.op = "Symbol" => Symbol = Truncated(call.args[1], SYMBOL_LEN)
  /\ call.op = "Uri"    => Uri    = Truncated(call.args[1], URI_LEN)

=============================================================================
