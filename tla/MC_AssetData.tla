---------------------------- MODULE MC_AssetData ----------------------------
(***************************************************************************)
(* Model-checking instance of AssetData.  Strings are empty, ASCII or hold *)
(* the two-byte character U+00E9; addresses are 32 copies of one byte.     *)
(* The value sets vary every optional field between None and Some, the     *)
(* creators vector between absent, empty, one and two entries, and        *)
(* CollectionDetails over both variants.                                   *)
(***************************************************************************)
EXTENDS AssetData


a == <<97>>
e == <<195, 169>>

(* An 8-byte little-endian u64. *)
U64(n) == LeBytes(n, 8)

Creator1 == [address |-> Address(1), verified |-> TRUE, share |-> 100]
Creator2 == [address |-> Address(2), verified |-> FALSE, share |-> 0]

Coll == [verified |-> TRUE, key |-> Address(3)]

Use == [use_method |-> 1, remaining |-> U64(3), total |-> U64(256)]

V1Five   == [kind |-> "V1", size |-> U64(5)]
V1Zero   == [kind |-> "V1", size |-> U64(0)]
V2Zeros  == [kind |-> "V2", padding |-> U64(0)]
V2Dirty  == [kind |-> "V2", padding |-> <<0, 0, 0, 0, 0, 0, 0, 7>>]

Asset(nm, fee, cs, psh, ts, coll, use, det, rs) ==
  [name |-> nm, symbol |-> a, uri |-> a, seller_fee_basis_points |-> fee,
   creators |-> cs, primary_sale_happened |-> psh, is_mutable |-> TRUE,
   token_standard |-> ts, collection |-> coll, uses |-> use,
   collection_details |-> det, rule_set |-> rs]

(* Every combination of the field choices below: 512 values.  The fee and  *)
(* the token standard are fixed bytes here and vary in MCAssetsTamper.     *)
MCAssetsAll ==
  { Asset(nm, fee, cs, psh, ts, coll, use, det, rs) :
      nm \in {<<>>, e}, fee \in {500}, cs \in {NONE, <<>>, <<Creator1>>, <<Creator1, Creator2>>},
      psh \in BOOLEAN, ts \in {5}, coll \in {NONE, Coll}, use \in {NONE, Use},
      det \in {NONE, V1Five, V2Zeros, V2Dirty}, rs \in {NONE, Address(4)} }

(* A few values for the tampering runs: each optional field present in one *)
(* of them, the creators vector with one and two entries, and a value     *)
(* made by AssetData::new (every option None).                            *)
MCAssetsTamper ==
  { New(2, e, a, <<>>),
    Asset(e, 500, <<Creator1, Creator2>>, TRUE, 5, NONE, NONE, NONE, NONE),
    Asset(<<>>, 0, NONE, FALSE, 0, Coll, Use, V1Five, Address(4)),
    Asset(a, 0, <<Creator1>>, FALSE, 4, NONE, NONE, V2Zeros, NONE) }

MCAssetsCodec == MCAssetsAll \cup MCAssetsTamper

(* The codec run: every value is serialized and decoded, and the buffers   *)
(* of the MCAssetsTamper values are also truncated and overwritten.        *)
MCCodecNext ==
  \/ \E x \in Assets : SerializeInto(x)
  \/ asset \in MCAssetsTamper /\ \E n \in 0..Len(buf) - 1 : Truncate(n)
  \/ asset \in MCAssetsTamper /\
       \E i \in 1..Len(buf), v \in TamperBytes : Overwrite(i, v)
  \/ DeserializeBuf

MCCodecSpec == Init /\ [][MCCodecNext]_vars

=============================================================================
