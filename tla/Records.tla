------------------------------- MODULE Records -------------------------------
(***************************************************************************)
(* The fixed-size authority records of mpl-metadata: UseAuthorityRecord    *)
(* (uses.rs) and CollectionAuthorityRecord (collection.rs), loaded through *)
(* the TokenMetadataAccount trait (token_metadata_account.rs).             *)
(*                                                                         *)
(* The state is one account: its bytes, its owner, the record last written *)
(* into it and the result of the last typed load.  The account handed to   *)
(* the program may have been resized or corrupted since it was written, or *)
(* be owned by another program, at most MAX_EDITS edits per write.         *)
(***************************************************************************)
EXTENDS Integers, Sequences, Bytes

CONSTANTS
  NONE,          \* Option::None, and "no load yet"
  ID,            \* the token-metadata program id
  Owners,        \* owners an account handed to the program may have
  Recs,          \* records the program writes
  Sizes,         \* account lengths a resize may produce
  TamperBytes,   \* byte values an overwrite may store
  MAX_EDITS      \* bound on resizes and overwrites after one write

VARIABLES
  data,      \* the account bytes
  owner,     \* the account owner
  written,   \* the record last written into the account
  edits,     \* resizes and overwrites since that write
  res        \* result of the last typed load, or NONE

vars == <<data, owner, written, edits, res>>

USE_AUTHORITY_RECORD_SIZE == 18
COLLECTION_AUTHORITY_RECORD_SIZE == 35

(* Key discriminants used here (key.rs declaration order). *)
Uninitialized == 0
UseAuthorityRecordKey == 8
CollectionAuthorityRecordKey == 9

RecordTypes == {"UseAuthorityRecord", "CollectionAuthorityRecord"}

(* TokenMetadataAccount::key() and ::size() of each record type. *)
KeyOf(t) == IF t = "UseAuthorityRecord" THEN UseAuthorityRecordKey
            ELSE CollectionAuthorityRecordKey
SizeOf(t) == IF t = "UseAuthorityRecord" THEN USE_AUTHORITY_RECORD_SIZE
             ELSE COLLECTION_AUTHORITY_RECORD_SIZE

(* Key::try_from(u8) succeeds on exactly the 15 declared discriminants. *)
KeyTryFrom(b) == b \in 0..14

(***************************************************************************)
(* TokenMetadataAccount helpers                                            *)
(***************************************************************************)
IsCorrectAccountType(d, data_type, data_size) ==
  /\ Len(d) > 0
  /\ KeyTryFrom(d[1])
  /\ d[1] = data_type \/ d[1] = Uninitialized
  /\ Len(d) = data_size \/ data_size = 0

(* Mutant of PadLength: the padding is one byte short. *)
PadLengthShort(size, buf) ==
  IF size = 0 \/ size < Len(buf) THEN [err |-> "", buf |-> buf]
  ELSE [err |-> "", buf |-> buf \o [i \in 1..size - Len(buf) - 1 |-> 0]]

(* pad_length: zero-fill buf up to size(); checked_sub fails when buf is    *)
(* already longer.  A size of 0 means variable length: buf is unchanged.    *)
PadLength(size, buf) ==
  CASE size = 0         -> [err |-> "", buf |-> buf]
    [] size < Len(buf)  -> [err |-> "NumericalOverflowError", buf |-> buf]
    [] OTHER            -> [err |-> "",
                            buf |-> buf \o [i \in 1..size - Len(buf) |-> 0]]

Err(e) == [err |-> e, val |-> NONE]
Ok(v)  == [err |-> "", val |-> v]

(* A decoded record: one record shape for both types, the fields the other *)
(* type lacks held at a fixed filler.                                      *)
Rec(t, uses, bump, ua) ==
  [type |-> t, allowed_uses |-> uses, bump |-> bump, update_authority |-> ua]

Zeros8 == <<0, 0, 0, 0, 0, 0, 0, 0>>

(* Default for UseAuthorityRecord: no uses, bump 255. *)
UarDefault == Rec("UseAuthorityRecord", Zeros8, 255, NONE)

(* Default for CollectionAuthorityRecord: bump 255, no update authority. *)
CarDefault == Rec("CollectionAuthorityRecord", Zeros8, 255, NONE)

(* Mutant of UarDeserialize: the exact-size check made a minimum. *)
UarDeserializeAtLeast(d) ==
  CASE Len(d) < USE_AUTHORITY_RECORD_SIZE -> Err("InvalidData")
    [] d[1] # UseAuthorityRecordKey       -> Err("DataTypeMismatch")
    [] OTHER -> Ok(Rec("UseAuthorityRecord", SubSeq(d, 2, 9), d[10], NONE))

(* UseAuthorityRecord::safe_deserialize *)
UarDeserialize(d) ==
  CASE Len(d) # USE_AUTHORITY_RECORD_SIZE -> Err("InvalidData")
    [] ~KeyTryFrom(d[1])                  -> Err("DataTypeMismatch")
    [] d[1] # UseAuthorityRecordKey       -> Err("DataTypeMismatch")
    [] OTHER -> Ok(Rec("UseAuthorityRecord", SubSeq(d, 2, 9), d[10], NONE))

(* CollectionAuthorityRecord::safe_deserialize: the update_authority       *)
(* presence byte is strict (0 or 1).  The check data.len() < 35 inside the  *)
(* Some branch cannot fail after the length check.                         *)
CarDeserialize(d) ==
  CASE Len(d) # COLLECTION_AUTHORITY_RECORD_SIZE -> Err("InvalidData")
    [] ~KeyTryFrom(d[1])                         -> Err("DataTypeMismatch")
    [] d[1] # CollectionAuthorityRecordKey       -> Err("DataTypeMismatch")
    [] d[3] = 0 -> Ok(Rec("CollectionAuthorityRecord", Zeros8, d[2], NONE))
    [] d[3] = 1 /\ Len(d) < 3 + 32 -> Err("InvalidData")
    [] d[3] = 1 -> Ok(Rec("CollectionAuthorityRecord", Zeros8, d[2],
                          SubSeq(d, 4, 35)))
    [] OTHER    -> Err("InvalidData")

SafeDeserialize(t, d) ==
  IF t = "UseAuthorityRecord" THEN UarDeserialize(d) ELSE CarDeserialize(d)

(* Mutant of FromAccountInfo: the decode error is passed on unmapped. *)
FromAccountInfoUnmapped(t, d, o) ==
  LET r == SafeDeserialize(t, d)
  IN CASE r.err # "" -> r
       [] o # ID     -> Err("IncorrectOwner")
       [] OTHER      -> r

(* TokenMetadataAccount::from_account_info (token_metadata_account.rs, the *)
(* copy of the trait CollectionAuthorityRecord implements): decode first, any decode error  *)
(* becomes DataTypeMismatch, then assert_owned_by.                          *)
FromAccountInfo(t, d, o) ==
  LET r == SafeDeserialize(t, d)
  IN CASE r.err # "" -> Err("DataTypeMismatch")
       [] o # ID     -> Err("IncorrectOwner")
       [] OTHER      -> r

(***************************************************************************)
(* uses.rs declares its own copy of the TokenMetadataAccount trait, and    *)
(* UseAuthorityRecord implements that copy: its default methods are these. *)
(***************************************************************************)
UarIsCorrectAccountType(d, data_type, data_size) ==
  /\ Len(d) > 0
  /\ KeyTryFrom(d[1])
  /\ d[1] = data_type \/ d[1] = Uninitialized
  /\ Len(d) = data_size \/ data_size = 0

UarPadLength(size, buf) ==
  CASE size = 0         -> [err |-> "", buf |-> buf]
    [] size < Len(buf)  -> [err |-> "NumericalOverflowError", buf |-> buf]
    [] OTHER            -> [err |-> "",
                            buf |-> buf \o [i \in 1..size - Len(buf) |-> 0]]

UarFromAccountInfo(d, o) ==
  LET r == UarDeserialize(d)
  IN CASE r.err # "" -> Err("DataTypeMismatch")
       [] o # ID     -> Err("IncorrectOwner")
       [] OTHER      -> r

(* The trait methods each record type reaches. *)
TypeCheck(t, d) ==
  IF t = "UseAuthorityRecord"
  THEN UarIsCorrectAccountType(d, KeyOf(t), SizeOf(t))
  ELSE IsCorrectAccountType(d, KeyOf(t), SizeOf(t))

Pad(t, buf) ==
  IF t = "UseAuthorityRecord" THEN UarPadLength(SizeOf(t), buf)
  ELSE PadLength(SizeOf(t), buf)

(* UseAuthorityRecord::from_bytes: safe_deserialize, any error mapped to   *)
(* DataTypeMismatch; no owner check.                                       *)
UarFromBytes(d) ==
  LET r == UarDeserialize(d)
  IN IF r.err # "" THEN Err("DataTypeMismatch") ELSE r

(* CollectionAuthorityRecord::from_bytes: the same over its decoder. *)
CarFromBytes(d) ==
  LET r == CarDeserialize(d)
  IN IF r.err # "" THEN Err("DataTypeMismatch") ELSE r

(* The bytes the program writes for a record: its Borsh encoding (key,     *)
(* then fields in declaration order, an Option as a presence byte and its   *)
(* payload), zero-filled by pad_length to the record size.                 *)
RecordEnc(r) ==
  IF r.type = "UseAuthorityRecord"
  THEN <<UseAuthorityRecordKey>> \o r.allowed_uses \o <<r.bump>>
  ELSE <<CollectionAuthorityRecordKey, r.bump>>
       \o (IF r.update_authority = NONE THEN <<0>>
           ELSE <<1>> \o r.update_authority)

(***************************************************************************)
(* Actions                                                                 *)
(***************************************************************************)
Init ==
  /\ owner \in Owners
  /\ written \in Recs
  /\ data = Pad(written.type, RecordEnc(written)).buf
  /\ edits = 0
  /\ res = NONE

(* The program writes record r into an account it owns. *)
Write(r) ==
  LET p == Pad(r.type, RecordEnc(r))
  IN /\ owner = ID
     /\ p.err = ""
     /\ data' = p.buf
     /\ written' = r
     /\ edits' = 0
     /\ res' = NONE
     /\ UNCHANGED owner

(* The account is reallocated to n bytes (zero-extended or truncated). *)
Resize(n) ==
  /\ edits < MAX_EDITS
  /\ n # Len(data)
  /\ data' = IF n < Len(data) THEN SubSeq(data, 1, n)
             ELSE data \o [i \in 1..n - Len(data) |-> 0]
  /\ edits' = edits + 1
  /\ res' = NONE
  /\ UNCHANGED <<owner, written>>

(* Byte i of the account is changed to v. *)
Overwrite(i, v) ==
  /\ edits < MAX_EDITS
  /\ data[i] # v
  /\ data' = [data EXCEPT ![i] = v]
  /\ edits' = edits + 1
  /\ res' = NONE
  /\ UNCHANGED <<owner, written>>

(* The program loads the account as a record of type t. *)
Load(t) ==
  /\ LET r == IF t = "UseAuthorityRecord" THEN UarFromAccountInfo(data, owner)
              ELSE FromAccountInfo(t, data, owner)
     IN res' = [op |-> t, via |-> "account", err |-> r.err, val |-> r.val]
  /\ UNCHANGED <<data, owner, written, edits>>

(* The program decodes the account bytes as a record of type t with        *)
(* from_bytes, which takes bytes and so cannot see the owner.              *)
LoadBytes(t) ==
  /\ LET r == IF t = "UseAuthorityRecord" THEN UarFromBytes(data)
              ELSE CarFromBytes(data)
     IN res' = [op |-> t, via |-> "bytes", err |-> r.err, val |-> r.val]
  /\ UNCHANGED <<data, owner, written, edits>>

Next ==
  \/ \E r \in Recs : Write(r)
  \/ \E n \in Sizes : Resize(n)
  \/ \E i \in 1..Len(data), v \in TamperBytes : Overwrite(i, v)
  \/ \E t \in RecordTypes : Load(t)
  \/ \E t \in RecordTypes : LoadBytes(t)

Spec == Init /\ [][Next]_vars

-----------------------------------------------------------------------------
TypeOK ==
  /\ data \in Seq(Byte)
  /\ owner \in Owners
  /\ edits \in 0..MAX_EDITS
  /\ res = NONE \/ /\ res.op \in RecordTypes
                   /\ res.via \in {"account", "bytes"}
                   /\ res.err \in {"", "DataTypeMismatch", "IncorrectOwner"}
                   /\ res.err = "" => /\ res.val.type = res.op
                                      /\ res.val.bump \in Byte

(* A typed load succeeds only on bytes that pass is_correct_account_type   *)
(* for the requested type and its exact size (safe_deserialize is never    *)
(* weaker than the type check, whatever resizes and byte changes the       *)
(* account went through), and, through from_account_info, only on an      *)
(* account the program owns.                                               *)
LoadSound ==
  (res # NONE /\ res.err = "") =>
    /\ res.via = "account" => owner = ID
    /\ TypeCheck(res.op, data)

(* A record the program wrote (Borsh encoding padded by pad_length) loads  *)
(* back as the same record when the account is untouched, by              *)
(* from_account_info on an account the program owns and by from_bytes on  *)
(* any, and loading it as the other record type fails.                    *)
WrittenLoadsBack ==
  (res # NONE /\ edits = 0 /\ (owner = ID \/ res.via = "bytes")) =>
    IF res.op = written.type THEN res.err = "" /\ res.val = written
    ELSE res.err # ""

=============================================================================
