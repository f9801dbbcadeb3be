------------------------------ MODULE AssetData ------------------------------
(***************************************************************************)
(* The AssetData codec (AssetDataCodec) run on an account buffer.  The     *)
(* program serializes an AssetData value into the buffer and deserializes  *)
(* whatever it holds.  Account data handed to the program can be anything, *)
(* so the buffer can also be truncated or have one byte overwritten, at    *)
(* most MAX_EDITS times.                                                   *)
(***************************************************************************)
EXTENDS AssetDataCodec

CONSTANTS
  Assets,        \* AssetData values the program serializes
  TamperBytes,   \* byte values a tampered buffer may hold
  MAX_EDITS      \* bound on truncations and overwrites of one buffer

VARIABLES
  asset,   \* the value last serialized into the buffer
  buf,     \* the account bytes
  edits,   \* truncations and overwrites since the last serialize
  res      \* result of the last deserialize, or NONE

vars == <<asset, buf, edits, res>>

(***************************************************************************)
(* The account buffer                                                      *)
(***************************************************************************)
Init ==
  /\ asset \in Assets
  /\ buf = Serialize(asset)
  /\ edits = 0
  /\ res = NONE

(* The program serializes x into the buffer. *)
SerializeInto(x) ==
  /\ asset' = x
  /\ buf' = Serialize(x)
  /\ edits' = 0
  /\ res' = NONE

(* The buffer handed to the program is a prefix of what was written. *)
Truncate(n) ==
  /\ edits < MAX_EDITS
  /\ buf' = SubSeq(buf, 1, n)
  /\ edits' = edits + 1
  /\ res' = NONE
  /\ UNCHANGED asset

(* The buffer handed to the program has byte i replaced by v. *)
Overwrite(i, v) ==
  /\ edits < MAX_EDITS
  /\ buf[i] # v
  /\ buf' = [buf EXCEPT ![i] = v]
  /\ edits' = edits + 1
  /\ res' = NONE
  /\ UNCHANGED asset

(* The program deserializes the buffer. *)
DeserializeBuf ==
  /\ res' = Deserialize(buf)
  /\ UNCHANGED <<asset, buf, edits>>

Next ==
  \/ \E x \in Assets : SerializeInto(x)
  \/ \E n \in 0..Len(buf) - 1 : Truncate(n)
  \/ \E i \in 1..Len(buf), v \in TamperBytes : Overwrite(i, v)
  \/ DeserializeBuf

Spec == Init /\ [][Next]_vars

-----------------------------------------------------------------------------
(* Every decoded field lies in the range of its Rust type.                 *)
ValueOK(v) ==
  /\ v.seller_fee_basis_points \in 0..65535
  /\ v.primary_sale_happened \in BOOLEAN
  /\ v.is_mutable \in BOOLEAN
  /\ v.token_standard \in 0..5
  /\ v.creators = NONE \/ \A i \in DOMAIN v.creators : v.creators[i].verified \in BOOLEAN
  /\ v.collection = NONE \/ v.collection.verified \in BOOLEAN
  /\ v.uses = NONE \/ v.uses.use_method \in 0..2

TypeOK ==
  /\ edits \in 0..MAX_EDITS
  /\ buf \in Seq(Byte)
  /\ res = NONE \/ /\ res.err \in {"", "InvalidData", "Abort"}
                   /\ res.cur \in 0..Len(buf)
                   /\ res.err = "" => ValueOK(res.val)

(* Spec section 8, round-trip length: serialize writes exactly the number  *)
(* of bytes calculate_serialized_length promises.                          *)
LengthLockstep == edits = 0 => Len(buf) = CalcLen(asset)

(* Round trip: deserializing what serialize wrote succeeds, reads every    *)
(* byte, and gives the value back, up to the content-inferred variant of   *)
(* CollectionDetails.                                                      *)
RoundTrip ==
  (edits = 0 /\ res # NONE) =>
    /\ res.err = ""
    /\ res.cur = Len(buf)
    /\ res.val = Canon(asset)

(* Metadata::deserialize skips over the embedded AssetData by              *)
(* calculate_serialized_length of the decoded value.  That is sound only   *)
(* if, on any bytes at all, a successful deserialize consumed exactly      *)
(* that many bytes.                                                        *)
DecodeConsumesCalcLen ==
  (res # NONE /\ res.err = "") => res.cur = CalcLen(res.val)

(* Spec section 8: a buffer cut short anywhere fails to decode (the        *)
(* presence byte 1 case requires its whole payload).                       *)
TruncationRejected ==
  LET full == Serialize(asset)
  IN (res # NONE /\ Len(buf) < Len(full) /\ IsPrefix(buf, full)) =>
       res.err # ""

(* Spec section 7: the decode path returns errors and never panics, even   *)
(* on corrupted account data.                                              *)
DecodeNoAbort == res # NONE => res.err # "Abort"

=============================================================================
