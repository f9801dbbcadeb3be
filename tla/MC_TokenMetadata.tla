--------------------------- MODULE MC_TokenMetadata ---------------------------
(***************************************************************************)
(* Model-checking instance of TokenMetadata.  Capacities are shrunk from   *)
(* 32/32/200 bytes and 32 slots to a few bytes and 2 slots; what matters   *)
(* is how an argument's length compares with capacity - 1, and that the    *)
(* table can fill up.  Strings are built from 'a' (97), 'b' (98) and the   *)
(* two-byte character U+00E9 (195, 169).                                   *)
(***************************************************************************)
EXTENDS TokenMetadata

a == <<97>>
b == <<98>>
e == <<195, 169>>

(* String-setter arguments: ASCII, empty, fitting every field, and longer  *)
(* than every field.                                                       *)
MCStrsAscii == {<<>>, a, a \o b \o b \o b}

(* No string-setter calls: the run about the table alone. *)
MCStrsNone == {}

(* Keys and values that fit in KV_KEY_LEN - 1 = KV_VALUE_LEN - 1 = 2 bytes *)
(* and carry no NUL: the arguments for which the table promises a map.    *)
MCKeysFit   == {a, b, e}
MCValuesFit == {a, e}

(* Adds a key one byte too long, whose stored form is the key a \o b.     *)
MCKeysLong == {a \o b, a \o b \o a}

CONSTANT NONE

(* Refinement mapping: for each key, the value find_key_index reaches in   *)
(* table t, or NONE.                                                       *)
AbsStoreOf(t) ==
  [k \in Keys |-> LET i == SelectInSeq(t, LAMBDA x : ReadStrFromBytes(x.k) = k)
                 IN IF i = 0 THEN NONE ELSE ReadStrFromBytes(t[i].v)]

(* absStore holds AbsStoreOf(kv) in every state.  It is an auxiliary      *)
(* variable that only records a function of kv, so that TLC evaluates the  *)
(* mapping once per state instead of inside primed expressions.           *)
VARIABLE absStore

MCInit == Init /\ absStore = AbsStoreOf(kv)

MCNext == Next /\ absStore' = AbsStoreOf(kv')

MCSpec == MCInit /\ [][MCNext]_<<vars, absStore>>

KV == INSTANCE KVStore WITH store <- absStore, Capacity <- MAX_KV_PAIRS

(* The table refines the abstract key/value store (KVStore) for keys and   *)
(* values that fit: set_key_value, remove_key and get_value behave as a    *)
(* map of capacity MAX_KV_PAIRS, including the AccountDataTooSmall error.  *)
KVRefinement == KV!Spec

=============================================================================
