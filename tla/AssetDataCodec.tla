--------------------------- MODULE AssetDataCodec ---------------------------
(***************************************************************************)
(* The AssetData codec of the mpl-metadata program                         *)
(* (programs/mpl-metadata/src/state/asset_data.rs and the records it       *)
(* embeds: creator.rs, collection.rs, uses.rs, token_standard.rs).         *)
(*                                                                         *)
(* serialize, calculate_serialized_length and deserialize are three        *)
(* separate routines kept in step by hand; they are operators here.        *)
(* deserialize is a cursor parse: every field parser takes the parse state *)
(* [err, cur, val] (cur counts the bytes consumed) and either fails or     *)
(* advances it.  Once err is set, later parsers leave the state alone, as  *)
(* the early returns of the code do.                                       *)
(*                                                                         *)
(* u64 fields (Uses.remaining, Uses.total, CollectionDetails::V1.size)    *)
(* are held as their 8 little-endian bytes: TLC's integers are 32-bit, and *)
(* to_le_bytes/from_le_bytes is a bijection, so the bytes carry the value. *)
(* u32 lengths are read with U32Sat.                                       *)
(*                                                                         *)
(* AssetData.tla runs the codec on an account buffer; Metadata.tla embeds  *)
(* it in the Metadata account codec.                                       *)
(***************************************************************************)
EXTENDS Integers, SequencesExt, Bytes

CONSTANTS
  NONE,          \* Option::None
  HEAP_BYTES     \* bytes the allocator can hand out in one request

(* Creator::LEN, Collection::LEN, Uses::LEN, CollectionDetails::LEN *)
CREATOR_LEN == 34
COLLECTION_LEN == 33
USES_LEN == 17
DETAILS_LEN == 8
PUBKEY_LEN == 32

Zeros8 == [i \in 1..8 |-> 0]

BoolByte(b) == IF b THEN 1 ELSE 0

(* d[c+1..c+w]: w bytes at cursor c (the code's data[c..c + w]). *)
Slice(d, c, w) == SubSeq(d, c + 1, c + w)

(* AssetData::new: the given token standard and strings, fee 0, no        *)
(* creators, primary sale not happened, mutable, every option None.        *)
New(token_standard, name, symbol, uri) ==
  [name |-> name, symbol |-> symbol, uri |-> uri, seller_fee_basis_points |-> 0,
   creators |-> NONE, primary_sale_happened |-> FALSE, is_mutable |-> TRUE,
   token_standard |-> token_standard, collection |-> NONE, uses |-> NONE,
   collection_details |-> NONE, rule_set |-> NONE]

-----------------------------------------------------------------------------
(***************************************************************************)
(* serialize                                                               *)
(***************************************************************************)

(* A u32 length prefix then the UTF-8 bytes. *)
StrEnc(s) == LeBytes(Len(s), 4) \o s

(* Presence byte 1 and the payload's bytes enc, or presence byte 0. *)
OptEnc(o, enc) == IF o = NONE THEN <<0>> ELSE <<1>> \o enc

\* Creator::serialize
CreatorEnc(c) == c.address \o <<BoolByte(c.verified), c.share>>

CreatorsEnc(cs) ==
  LeBytes(Len(cs), 4) \o FlattenSeq([i \in DOMAIN cs |-> CreatorEnc(cs[i])])

\* Collection::serialize
CollectionEnc(c) == <<BoolByte(c.verified)>> \o c.key

\* Uses::serialize
UsesEnc(u) == <<u.use_method>> \o u.remaining \o u.total

\* CollectionDetails::serialize: the raw 8 bytes, no discriminant
DetailsEnc(d) == IF d.kind = "V1" THEN d.size ELSE d.padding

Serialize(x) ==
  StrEnc(x.name) \o StrEnc(x.symbol) \o StrEnc(x.uri)
  \o LeBytes(x.seller_fee_basis_points, 2)
  \o OptEnc(x.creators, CreatorsEnc(x.creators))
  \o << BoolByte(x.primary_sale_happened), BoolByte(x.is_mutable),
        x.token_standard >>
  \o OptEnc(x.collection, CollectionEnc(x.collection))
  \o OptEnc(x.uses, UsesEnc(x.uses))
  \o OptEnc(x.collection_details, DetailsEnc(x.collection_details))
  \o OptEnc(x.rule_set, x.rule_set)

(***************************************************************************)
(* calculate_serialized_length                                             *)
(***************************************************************************)
OptLen(o, w) == 1 + (IF o = NONE THEN 0 ELSE w)

\* calculate_serialized_length that forgets the rule_set key (mutant)
CalcLenNoRuleSetKey(x) ==
  4 + Len(x.name) + 4 + Len(x.symbol) + 4 + Len(x.uri) + 2
  + OptLen(x.creators, IF x.creators = NONE THEN 0
                       ELSE 4 + Len(x.creators) * CREATOR_LEN)
  + 1 + 1 + 1
  + OptLen(x.collection, COLLECTION_LEN) + OptLen(x.uses, USES_LEN)
  + OptLen(x.collection_details, DETAILS_LEN) + OptLen(x.rule_set, 0)

CalcLen(x) ==
  4 + Len(x.name) + 4 + Len(x.symbol) + 4 + Len(x.uri) + 2
  + OptLen(x.creators, IF x.creators = NONE THEN 0
                       ELSE 4 + Len(x.creators) * CREATOR_LEN)
  + 1 + 1 + 1
  + OptLen(x.collection, COLLECTION_LEN) + OptLen(x.uses, USES_LEN)
  + OptLen(x.collection_details, DETAILS_LEN) + OptLen(x.rule_set, PUBKEY_LEN)

-----------------------------------------------------------------------------
(***************************************************************************)
(* deserialize                                                             *)
(***************************************************************************)
Fail(p) == [p EXCEPT !.err = "InvalidData"]

(* A u32 length, a bounds check, then String::from_utf8. *)
ReadString(d, p, f) ==
  IF p.cur + 4 > Len(d) THEN Fail(p)
  ELSE LET l == U32Sat(Slice(d, p.cur, 4))
           c == p.cur + 4
       IN IF c + l > Len(d) \/ ~Utf8Valid(Slice(d, c, l)) THEN Fail(p)
          ELSE [p EXCEPT !.cur = c + l, !.val[f] = Slice(d, c, l)]

ReadFee(d, p) ==
  IF p.cur + 2 > Len(d) THEN Fail(p)
  ELSE [p EXCEPT !.cur = p.cur + 2,
                 !.val.seller_fee_basis_points = LeValue(Slice(d, p.cur, 2))]

\* Creator::deserialize with verified and share swapped (mutant)
CreatorAtSwapped(d, c) ==
  [address |-> Slice(d, c, 32), verified |-> d[c + 34] # 0, share |-> d[c + 33]]

\* Creator::deserialize: never fails on CREATOR_LEN bytes
CreatorAt(d, c) ==
  [address |-> Slice(d, c, 32), verified |-> d[c + 33] # 0, share |-> d[c + 34]]

\* the creators presence byte other than 0 or 1 read as None after
\* skipping the length word too (mutant)
ReadCreatorsTagSkip(d, p) ==
  IF p.cur + 1 > Len(d) THEN Fail(p)
  ELSE IF d[p.cur + 1] = 0 THEN [p EXCEPT !.cur = p.cur + 1, !.val.creators = NONE]
  ELSE IF p.cur + 5 > Len(d) THEN Fail(p)
  ELSE IF d[p.cur + 1] # 1 THEN [p EXCEPT !.cur = p.cur + 5, !.val.creators = NONE]
  ELSE LET n == U32Sat(Slice(d, p.cur + 1, 4))
           c == p.cur + 5
       IN IF n * CREATOR_LEN > HEAP_BYTES THEN [p EXCEPT !.err = "Abort"]
          ELSE IF c + n * CREATOR_LEN > Len(d) THEN Fail(p)
          ELSE [p EXCEPT !.cur = c + n * CREATOR_LEN,
                         !.val.creators = [i \in 1..n |->
                            CreatorAt(d, c + (i - 1) * CREATOR_LEN)]]

(* Presence byte == 1, else None.  Vec::with_capacity(creators_len) runs   *)
(* before any length check: a request above the heap aborts the program.  *)
(* The loop checks each creator's bytes before reading it, so it fails iff *)
(* the whole run of creators does not fit.                                 *)
ReadCreators(d, p) ==
  IF p.cur + 1 > Len(d) THEN Fail(p)
  ELSE IF d[p.cur + 1] # 1 THEN [p EXCEPT !.cur = p.cur + 1, !.val.creators = NONE]
  ELSE IF p.cur + 5 > Len(d) THEN Fail(p)
  ELSE LET n == U32Sat(Slice(d, p.cur + 1, 4))
           c == p.cur + 5
       IN IF n * CREATOR_LEN > HEAP_BYTES THEN [p EXCEPT !.err = "Abort"]
          ELSE IF c + n * CREATOR_LEN > Len(d) THEN Fail(p)
          ELSE [p EXCEPT !.cur = c + n * CREATOR_LEN,
                         !.val.creators = [i \in 1..n |->
                            CreatorAt(d, c + (i - 1) * CREATOR_LEN)]]

(* A bool: 0 or 1, anything else fails. *)
ReadBool(d, p, f) ==
  IF p.cur + 1 > Len(d) \/ d[p.cur + 1] \notin {0, 1} THEN Fail(p)
  ELSE [p EXCEPT !.cur = p.cur + 1, !.val[f] = (d[p.cur + 1] = 1)]

\* TokenStandard::try_from
TokenStandardValid(b) == b \in 0..5

\* the token standard byte taken without TokenStandard::try_from (mutant)
ReadTokenStandardUnchecked(d, p) ==
  IF p.cur + 1 > Len(d) THEN Fail(p)
  ELSE [p EXCEPT !.cur = p.cur + 1, !.val.token_standard = d[p.cur + 1]]

ReadTokenStandard(d, p) ==
  IF p.cur + 1 > Len(d) \/ ~TokenStandardValid(d[p.cur + 1]) THEN Fail(p)
  ELSE [p EXCEPT !.cur = p.cur + 1, !.val.token_standard = d[p.cur + 1]]

\* Collection::deserialize: verified is any nonzero byte
CollectionAt(d, c) == [verified |-> d[c + 1] # 0, key |-> Slice(d, c + 1, 32)]

\* UseMethod::from_u8
UseMethodValid(b) == b \in 0..2

\* Uses::deserialize
UsesAt(d, c) == [use_method |-> d[c + 1],
                 remaining |-> Slice(d, c + 1, 8),
                 total |-> Slice(d, c + 9, 8)]

(* CollectionDetails::deserialize: the variant is inferred from the bytes; *)
(* a zero u64 is V2 with those bytes as padding, anything else is V1.      *)
DetailsAt(d, c) ==
  LET size == Slice(d, c, 8)
  IN IF size = Zeros8 THEN [kind |-> "V2", padding |-> Slice(d, c, 8)]
                 ELSE [kind |-> "V1", size |-> size]

(* Width, check and decoder of each optional payload: Collection, Uses   *)
(* (its UseMethod must be valid), CollectionDetails and the rule_set      *)
(* Pubkey (Pubkey::try_from never fails on 32 bytes).                     *)
PayloadWidth(f) ==
  CASE f = "collection" -> COLLECTION_LEN
    [] f = "uses" -> USES_LEN
    [] f = "collection_details" -> DETAILS_LEN
    [] f = "rule_set" -> PUBKEY_LEN

PayloadAt(d, c, f) ==
  CASE f = "collection" -> CollectionAt(d, c)
    [] f = "uses" -> UsesAt(d, c)
    [] f = "collection_details" -> DetailsAt(d, c)
    [] f = "rule_set" -> Slice(d, c, 32)

PayloadValid(d, c, f) == f = "uses" => UseMethodValid(d[c + 1])

(* An optional payload: presence byte == 1 reads it, any other byte is     *)
(* None.                                                                   *)
ReadOption(d, p, f) ==
  LET w == PayloadWidth(f)
  IN IF p.cur + 1 > Len(d) THEN Fail(p)
     ELSE IF d[p.cur + 1] # 1 THEN [p EXCEPT !.cur = p.cur + 1, !.val[f] = NONE]
     ELSE IF p.cur + 1 + w > Len(d) \/ ~PayloadValid(d, p.cur + 1, f) THEN Fail(p)
     ELSE [p EXCEPT !.cur = p.cur + 1 + w, !.val[f] = PayloadAt(d, p.cur + 1, f)]

\* rule_set read as None when its presence byte is missing (mutant)
ReadRuleSetLenient(d, p) ==
  IF p.cur + 1 > Len(d) THEN [p EXCEPT !.val.rule_set = NONE]
  ELSE ReadOption(d, p, "rule_set")

ReadRuleSet(d, p) == ReadOption(d, p, "rule_set")

(* The fields in wire order. *)
Layout == <<"name", "symbol", "uri", "seller_fee_basis_points", "creators",
            "primary_sale_happened", "is_mutable", "token_standard",
            "collection", "uses", "collection_details", "rule_set">>

(* The parser of field f; a failed parse state passes through unchanged,   *)
(* as the early returns of deserialize do.                                 *)
ReadField(d, p, f) ==
  IF p.err # "" THEN p
  ELSE CASE f \in {"name", "symbol", "uri"} -> ReadString(d, p, f)
         [] f = "seller_fee_basis_points" -> ReadFee(d, p)
         [] f = "creators" -> ReadCreators(d, p)
         [] f \in {"primary_sale_happened", "is_mutable"} -> ReadBool(d, p, f)
         [] f = "token_standard" -> ReadTokenStandard(d, p)
         [] f \in {"collection", "uses", "collection_details"} -> ReadOption(d, p, f)
         [] f = "rule_set" -> ReadRuleSet(d, p)

(* The parse result: err is "" (Ok), "InvalidData", or "Abort" (the        *)
(* allocation failure); cur is the number of bytes read.                   *)
Deserialize(d) ==
  LET p0 == [err |-> "", cur |-> 0, val |-> [f \in Range(Layout) |-> NONE]]
      parse[i \in 0..Len(Layout)] ==
        IF i = 0 THEN p0 ELSE ReadField(d, parse[i - 1], Layout[i])
  IN parse[Len(Layout)]

-----------------------------------------------------------------------------
(* The value deserialize is expected to return for x: CollectionDetails    *)
(* goes through its content-inferred variant, every other field is kept.   *)
Canon(x) ==
  LET d == x.collection_details
  IN [x EXCEPT !.collection_details =
        IF d = NONE THEN NONE ELSE DetailsAt(DetailsEnc(d), 0)]

=============================================================================
