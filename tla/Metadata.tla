------------------------------ MODULE Metadata ------------------------------
(***************************************************************************)
(* The Metadata account of the mpl-metadata program                        *)
(* (programs/mpl-metadata/src/state/metadata.rs): its serialize,           *)
(* deserialize and calculate_serialized_length, save and load, with the    *)
(* embedded AssetData handled by AssetDataCodec.                           *)
(*                                                                         *)
(* The account's bytes acct are written in three ways:                     *)
(*   - Existing(m): the account already holds m in the wire format of      *)
(*     spec section 4.5, as written by the deployed token-metadata program *)
(*     whose data this code must read;                                     *)
(*   - Resize(n): the runtime reallocates the account to n bytes,          *)
(*     zero-filling growth, as the caller does before save;                *)
(*   - Save(m): Resizable::save.                                           *)
(* Account data handed to the program can be anything, so up to MAX_EDITS  *)
(* bytes can also be overwritten.  from_account_info decodes acct.         *)
(***************************************************************************)
EXTENDS AssetDataCodec

CONSTANTS
  Metas,        \* Metadata values saved or found on chain
  TamperBytes,  \* byte values an overwritten byte may take
  MAX_EDITS     \* bound on overwrites

VARIABLES
  acct,     \* the account data
  held,     \* the value whose wire encoding acct holds, or NONE
  written,  \* the value the last successful save wrote, or NONE
  saved,    \* the last save: [val, len, ok], or NONE
  res,      \* the last from_account_info/load result, or NONE
  edits     \* overwrites since the account was last written

vars == <<acct, held, written, saved, res, edits>>

\* Key::try_from accepting every byte (mutant)
KeyValidAny(b) == b \in 0..255

(* Key::try_from *)
KeyValid(b) == b \in 0..14

-----------------------------------------------------------------------------
(* ProgrammableConfig::serialize: version byte 1, then Option<Pubkey>. *)
ConfigEnc(c) == <<1>> \o OptEnc(c.rule_set, c.rule_set)

\* the fields that follow data in both encoders
TailEnc(m) ==
  << BoolByte(m.primary_sale_happened), BoolByte(m.is_mutable) >>
  \o OptEnc(m.edition_nonce, <<m.edition_nonce>>)
  \o OptEnc(m.token_standard, <<m.token_standard>>)
  \o OptEnc(m.collection, CollectionEnc(m.collection))
  \o OptEnc(m.uses, UsesEnc(m.uses))
  \o OptEnc(m.collection_details, DetailsEnc(m.collection_details))
  \o OptEnc(m.programmable_config, ConfigEnc(m.programmable_config))

(* Metadata::serialize.  `self.data.serialize();` builds the AssetData     *)
(* bytes and drops them: nothing of data reaches the buffer.               *)
MetaSerialize(m) == <<m.key>> \o m.update_authority \o m.mint \o TailEnc(m)

(* The wire format of spec section 4.5: as MetaSerialize, with the         *)
(* AssetData bytes after the mint.                                          *)
WireEnc(m) ==
  <<m.key>> \o m.update_authority \o m.mint \o Serialize(m.data) \o TailEnc(m)

(* Metadata::calculate_serialized_length: edition_nonce counts 1 byte      *)
(* whether present or not, and the collection, uses, details and config    *)
(* payloads count 0 bytes.                                                 *)
MetaCalcLen(m) ==
  1 + 32 + 32 + CalcLen(m.data) + 3
  + (IF m.token_standard = NONE THEN 1 ELSE 2) + 1 + 1 + 1 + 1

-----------------------------------------------------------------------------
(* A bool read as any nonzero byte. *)
ReadFlag(d, p, f) ==
  IF p.cur + 1 > Len(d) THEN Fail(p)
  ELSE [p EXCEPT !.cur = p.cur + 1, !.val[f] = (d[p.cur + 1] # 0)]

\* edition_nonce read without stepping past the nonce byte (mutant)
ReadEditionNonceNoStep(d, p) ==
  IF p.cur + 1 > Len(d) THEN Fail(p)
  ELSE IF d[p.cur + 1] = 0 THEN [p EXCEPT !.cur = p.cur + 1, !.val.edition_nonce = NONE]
  ELSE IF p.cur + 2 > Len(d) THEN Fail(p)
  ELSE [p EXCEPT !.cur = p.cur + 1, !.val.edition_nonce = d[p.cur + 2]]

(* Option<u8>: presence byte != 0 reads the nonce. *)
ReadEditionNonce(d, p) ==
  IF p.cur + 1 > Len(d) THEN Fail(p)
  ELSE IF d[p.cur + 1] = 0 THEN [p EXCEPT !.cur = p.cur + 1, !.val.edition_nonce = NONE]
  ELSE IF p.cur + 2 > Len(d) THEN Fail(p)
  ELSE [p EXCEPT !.cur = p.cur + 2, !.val.edition_nonce = d[p.cur + 2]]

(* Option<TokenStandard>: presence byte != 0 reads a valid standard. *)
ReadOptTokenStandard(d, p) ==
  IF p.cur + 1 > Len(d) THEN Fail(p)
  ELSE IF d[p.cur + 1] = 0 THEN [p EXCEPT !.cur = p.cur + 1, !.val.token_standard = NONE]
  ELSE IF p.cur + 2 > Len(d) \/ ~TokenStandardValid(d[p.cur + 2]) THEN Fail(p)
  ELSE [p EXCEPT !.cur = p.cur + 2, !.val.token_standard = d[p.cur + 2]]

(* collection, uses, collection_details, programmable_config: the presence *)
(* byte is read and the field is None either way; the payload is neither   *)
(* decoded nor skipped.                                                    *)
ReadPresenceOnly(d, p, f) ==
  IF p.cur + 1 > Len(d) THEN Fail(p)
  ELSE [p EXCEPT !.cur = p.cur + 1, !.val[f] = NONE]

MetaTail == <<"primary_sale_happened", "is_mutable", "edition_nonce",
              "token_standard", "collection", "uses", "collection_details",
              "programmable_config">>

MetaReadField(d, p, f) ==
  IF p.err # "" THEN p
  ELSE CASE f \in {"primary_sale_happened", "is_mutable"} -> ReadFlag(d, p, f)
         [] f = "edition_nonce" -> ReadEditionNonce(d, p)
         [] f = "token_standard" -> ReadOptTokenStandard(d, p)
         [] OTHER -> ReadPresenceOnly(d, p, f)

(* Metadata::deserialize: the key, two addresses (bytes_to_pubkey never    *)
(* fails on 32 bytes), AssetData::deserialize of the rest, a skip of       *)
(* AssetData::calculate_serialized_length of what it returned, then the    *)
(* tail fields.  Its errors are strings that from_account_info turns into  *)
(* InvalidAccountData; an abort inside AssetData stays an abort.           *)
MetaDeserialize(d) ==
  LET ad == Deserialize(SubSeq(d, 66, Len(d)))
      p0 == [err |-> "", cur |-> 65 + CalcLen(ad.val),
             val |-> [key |-> d[1], update_authority |-> Slice(d, 1, 32),
                      mint |-> Slice(d, 33, 32), data |-> ad.val,
                      primary_sale_happened |-> NONE, is_mutable |-> NONE,
                      edition_nonce |-> NONE, token_standard |-> NONE,
                      collection |-> NONE, uses |-> NONE,
                      collection_details |-> NONE, programmable_config |-> NONE]]
      parse[i \in 0..Len(MetaTail)] ==
        IF i = 0 THEN p0 ELSE MetaReadField(d, parse[i - 1], MetaTail[i])
  IN IF Len(d) < 1 \/ ~KeyValid(d[1]) \/ Len(d) < 65
       THEN [err |-> "InvalidData", cur |-> 0, val |-> NONE]
     ELSE IF ad.err # "" THEN [err |-> ad.err, cur |-> 65, val |-> NONE]
     ELSE parse[Len(MetaTail)]

-----------------------------------------------------------------------------
(* The lengths the caller may reallocate the account to before save: the   *)
(* calculated length of a value, or the length of its serialized bytes.    *)
Lengths == {MetaCalcLen(m) : m \in Metas} \cup {Len(MetaSerialize(m)) : m \in Metas}

Init ==
  /\ held \in Metas
  /\ acct = WireEnc(held)
  /\ written = NONE
  /\ saved = NONE
  /\ res = NONE
  /\ edits = 0

(* The account already holds m, written by the deployed program. *)
Existing(m) ==
  /\ acct' = WireEnc(m)
  /\ held' = m
  /\ written' = NONE
  /\ res' = NONE
  /\ edits' = 0
  /\ saved' = NONE

(* The runtime reallocates the account to n bytes. *)
Resize(n) ==
  /\ n # Len(acct)
  /\ acct' = [i \in 1..n |-> IF i <= Len(acct) THEN acct[i] ELSE 0]
  /\ held' = NONE
  /\ written' = NONE
  /\ res' = NONE
  /\ saved' = NONE
  /\ UNCHANGED edits

(* Resizable::save: serialize into a fresh buffer, then copy_from_slice    *)
(* into the account, which panics unless the lengths are equal; a panic    *)
(* aborts the instruction and the account keeps its bytes.                 *)
Save(m) ==
  LET buffer == MetaSerialize(m)
      ok == Len(buffer) = Len(acct)
  IN /\ saved' = [val |-> m, len |-> Len(acct), ok |-> ok]
     /\ IF ok THEN /\ acct' = buffer
                   /\ held' = NONE
                   /\ written' = m
                   /\ edits' = 0
              ELSE UNCHANGED <<acct, held, written, edits>>
     /\ res' = NONE

(* One byte of an account the program did not write is v. *)
Overwrite(i, v) ==
  /\ held # NONE
  /\ edits < MAX_EDITS
  /\ acct[i] # v
  /\ acct' = [acct EXCEPT ![i] = v]
  /\ edits' = edits + 1
  /\ res' = NONE
  /\ saved' = NONE
  /\ UNCHANGED <<held, written>>

(* Metadata::from_account_info *)
FromAccountInfo ==
  /\ res' = MetaDeserialize(acct)
  /\ UNCHANGED <<acct, held, written, saved, edits>>

(* Resizable::load: always InvalidAccountData. *)
Load ==
  /\ res' = [err |-> "InvalidAccountData", cur |-> 0, val |-> NONE]
  /\ UNCHANGED <<acct, held, written, saved, edits>>

Next ==
  \/ \E m \in Metas : Existing(m) \/ Save(m)
  \/ \E n \in Lengths : Resize(n)
  \/ \E i \in 1..Len(acct), v \in TamperBytes : Overwrite(i, v)
  \/ FromAccountInfo
  \/ Load

Spec == Init /\ [][Next]_vars

-----------------------------------------------------------------------------
(* A decoded account has a known key and in-range scalar fields.           *)
TypeOK ==
  /\ edits \in 0..MAX_EDITS
  /\ res = NONE \/ res.err # "" \/
       /\ res.val.key \in 0..14
       /\ res.val.primary_sale_happened \in BOOLEAN
       /\ res.val.is_mutable \in BOOLEAN
       /\ res.val.edition_nonce = NONE \/ res.val.edition_nonce \in 0..255
       /\ res.val.token_standard = NONE \/ TokenStandardValid(res.val.token_standard)

(* The fields Metadata::deserialize decodes: everything up to and          *)
(* including token_standard.                                               *)
DecodedPart(m) == [f \in {"key", "update_authority", "mint", "data",
                   "primary_sale_happened", "is_mutable", "edition_nonce",
                   "token_standard"} |-> m[f]]

(* Accounts already on chain: from_account_info on an untouched account   *)
(* in the spec's wire format succeeds and recovers every field up to      *)
(* token_standard, whatever optional payloads follow (the cursor lands on *)
(* edition_nonce only if the skip by AssetData's calculated length is     *)
(* exact).                                                                 *)
WireDecodeHead ==
  (held # NONE /\ edits = 0 /\ res # NONE /\ res.err # "InvalidAccountData") =>
    /\ res.err = ""
    /\ DecodedPart(res.val) = DecodedPart([held EXCEPT !.data = Canon(held.data)])

(* Spec section 4.5: deserialize reads every field of the wire format, so  *)
(* an untouched account on chain decodes to the value it holds.            *)
WireDecodeFull ==
  (held # NONE /\ edits = 0 /\ res # NONE /\ res.err # "InvalidAccountData") =>
    /\ res.err = ""
    /\ res.val = [held EXCEPT !.data = Canon(held.data)]

(* Spec section 4.5, resize-aware persistence: once the account has been *)
(* reallocated to calculate_serialized_length, save succeeds; and what     *)
(* save wrote, from_account_info reads back.                               *)
SavePersists ==
  /\ (saved # NONE /\ saved.len = MetaCalcLen(saved.val)) => saved.ok
  /\ (written # NONE /\ edits = 0 /\ res # NONE
        /\ res.err # "InvalidAccountData") =>
       res.err = "" /\ res.val = written

=============================================================================
