---------------------------- MODULE MC_Metadata ----------------------------
(***************************************************************************)
(* Model-checking instance of Metadata.  The embedded AssetData is one     *)
(* value with a creator; the Metadata values vary edition_nonce,           *)
(* token_standard, collection and programmable_config between None and     *)
(* Some, which are the fields whose framing serialize, deserialize and     *)
(* calculate_serialized_length treat differently.                          *)
(***************************************************************************)
EXTENDS Metadata

a == <<97>>

Creator1 == [address |-> Address(1), verified |-> TRUE, share |-> 100]

Coll == [verified |-> TRUE, key |-> Address(3)]

Data1 == [name |-> a, symbol |-> a, uri |-> a, seller_fee_basis_points |-> 500,
          creators |-> <<Creator1>>, primary_sale_happened |-> FALSE,
          is_mutable |-> TRUE, token_standard |-> 4, collection |-> NONE,
          uses |-> NONE, collection_details |-> NONE, rule_set |-> NONE]

Meta(nonce, ts, coll, cfg) ==
  [key |-> 4, update_authority |-> Address(5), mint |-> Address(6),
   data |-> Data1, primary_sale_happened |-> TRUE, is_mutable |-> TRUE,
   edition_nonce |-> nonce, token_standard |-> ts, collection |-> coll,
   uses |-> NONE, collection_details |-> NONE, programmable_config |-> cfg]

(* 16 values: each optional tail field None or Some. *)
MCMetas ==
  { Meta(nonce, ts, coll, cfg) :
      nonce \in {NONE, 254}, ts \in {NONE, 4}, coll \in {NONE, Coll},
      cfg \in {NONE, [rule_set |-> NONE]} }

(* Four values that between them have each optional tail field None and   *)
(* Some.                                                                   *)
MCMetasFew ==
  { Meta(NONE, NONE, NONE, NONE), Meta(254, 4, Coll, [rule_set |-> NONE]),
    Meta(NONE, 4, Coll, NONE), Meta(254, NONE, NONE, [rule_set |-> Address(7)]) }

=============================================================================
