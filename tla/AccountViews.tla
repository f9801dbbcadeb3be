----------------------------- MODULE AccountViews -----------------------------
(***************************************************************************)
(* The zero-copy views over an account: TokenMetadata::from_account_info   *)
(* and ::from_account_info_unchecked (metadata program, state/             *)
(* token_metadata.rs), MetadataAccount::from_account_info (mpl-metadata,   *)
(* accounts/mod.rs), the owned-copy loader Metadata::from_account_info and *)
(* the one mutable borrow of account data in the repository, the copy in  *)
(* Metadata::save (both state/metadata.rs).                                *)
(*                                                                         *)
(* A view is a reference into the account bytes that lives until the      *)
(* handler drops it.  The checked loaders hold a shared borrow for as long *)
(* as the view lives (Ref); the unchecked one holds none.  The account     *)
(* bytes are abstracted to a version counter that a successful write       *)
(* steps, so a view is current when it was made at the current version.    *)
(*                                                                         *)
(* The borrow rules are pinocchio's AccountInfo (not in this repository):  *)
(* try_borrow_data fails while the data is mutably borrowed, and           *)
(* try_borrow_mut_data fails while it is borrowed at all (spec section 5). *)
(* Mutable borrows here end inside the step that takes them, so a shared   *)
(* borrow never meets one.                                                 *)
(***************************************************************************)
EXTENDS Integers, Bags, BagsExt

CONSTANTS
  NONE,          \* no load yet
  ID,            \* crate::ID of the program that owns its accounts
  Owners,        \* owners an account handed to the program may have
  Lens,          \* data lengths an account handed to the program may have
  MAX_VIEWS,     \* bound on views alive at once
  MAX_WRITES     \* bound on writes to the account

VARIABLES
  len,       \* account_info.data_len()
  owner,     \* account_info.owner()
  version,   \* writes so far: the contents a view made now would show
  views,     \* bag of live views [loader, version, checked]
  res        \* result of the last load or write, or NONE

vars == <<len, owner, version, views, res>>

(* size_of::<TokenMetadata>(): repr(C) of byte arrays only, so no padding: *)
(* two addresses, name, symbol, uri and 32 key/value pairs of 32 + 32.     *)
TOKEN_METADATA_LEN == 32 + 32 + 32 + 32 + 200 + 32 * (32 + 32)

(* MetadataAccount::LEN *)
METADATA_ACCOUNT_LEN == 679

(* The loaders that return a view over the bytes, and all loaders. *)
ViewLoaders == {"TokenMetadata", "TokenMetadataUnchecked", "MetadataAccount"}
Loaders == ViewLoaders \cup {"Metadata"}

LenOf(l) == IF l = "MetadataAccount" THEN METADATA_ACCOUNT_LEN
            ELSE TOKEN_METADATA_LEN

View(l, checked) == [loader |-> l, version |-> version, checked |-> checked]

(* Shared borrows held: one per live view of a checked loader. *)
SharedBorrows ==
  BagCardinality([v \in {w \in BagToSet(views) : w.checked} |-> views[v]])

Fail(op, e) == /\ res' = [op |-> op, err |-> e]
               /\ UNCHANGED <<version, views>>

(* A view is made: the result is Ok and the view joins the live ones. *)
Grant(op, checked) ==
  /\ BagCardinality(views) < MAX_VIEWS
  /\ views' = BagAdd(views, View(op, checked))
  /\ res' = [op |-> op, err |-> ""]
  /\ UNCHANGED version

(***************************************************************************)
(* Loaders                                                                 *)
(***************************************************************************)
Init ==
  /\ len \in Lens
  /\ owner \in Owners
  /\ version = 0
  /\ views = EmptyBag
  /\ res = NONE

(* Mutant of TmFromAccountInfo: the data borrowed unchecked, as the        *)
(* unchecked loader does, so the view holds no borrow.                     *)
TmFromAccountInfoNoBorrow ==
  /\ CASE len # TOKEN_METADATA_LEN -> Fail("TokenMetadata", "InvalidAccountData")
       [] owner # ID -> Fail("TokenMetadata", "InvalidAccountOwner")
       [] OTHER      -> Grant("TokenMetadata", FALSE)
  /\ UNCHANGED <<len, owner>>

(* TokenMetadata::from_account_info: length, then owner, then              *)
(* try_borrow_data, which cannot fail here (no mutable borrow outlives its *)
(* step); the Ref keeps the borrow until the view is dropped.              *)
TmFromAccountInfo ==
  /\ CASE len # TOKEN_METADATA_LEN -> Fail("TokenMetadata", "InvalidAccountData")
       [] owner # ID -> Fail("TokenMetadata", "InvalidAccountOwner")
       [] OTHER      -> Grant("TokenMetadata", TRUE)
  /\ UNCHANGED <<len, owner>>

(* TokenMetadata::from_account_info_unchecked: the same checks, the owner  *)
(* one reporting InvalidAccountData, then borrow_data_unchecked.           *)
TmFromAccountInfoUnchecked ==
  /\ CASE len # TOKEN_METADATA_LEN ->
            Fail("TokenMetadataUnchecked", "InvalidAccountData")
       [] owner # ID -> Fail("TokenMetadataUnchecked", "InvalidAccountData")
       [] OTHER      -> Grant("TokenMetadataUnchecked", FALSE)
  /\ UNCHANGED <<len, owner>>

(* Mutant of MaFromAccountInfo: the owner check reports IllegalOwner. *)
MaFromAccountInfoIllegalOwner ==
  /\ CASE len # METADATA_ACCOUNT_LEN -> Fail("MetadataAccount", "InvalidAccountData")
       [] owner # ID -> Fail("MetadataAccount", "IllegalOwner")
       [] OTHER      -> Grant("MetadataAccount", TRUE)
  /\ UNCHANGED <<len, owner>>

(* MetadataAccount::from_account_info: len != 679 and a foreign owner both *)
(* give InvalidAccountData; then a Ref over the data.                      *)
MaFromAccountInfo ==
  /\ CASE len # METADATA_ACCOUNT_LEN -> Fail("MetadataAccount", "InvalidAccountData")
       [] owner # ID -> Fail("MetadataAccount", "InvalidAccountData")
       [] OTHER      -> Grant("MetadataAccount", TRUE)
  /\ UNCHANGED <<len, owner>>

(* Metadata::from_account_info: try_borrow_data (cannot fail here), then   *)
(* Metadata::deserialize of the bytes, any error mapped to                 *)
(* InvalidAccountData.  The contents are abstracted, so the decode may     *)
(* succeed or fail.  The result is an owned copy: the borrow ends with the *)
(* call and no view stays.  There is no length or owner check.             *)
MdFromAccountInfo ==
  /\ \E decoded \in BOOLEAN :
       IF decoded THEN res' = [op |-> "Metadata", err |-> ""]
       ELSE res' = [op |-> "Metadata", err |-> "InvalidAccountData"]
  /\ UNCHANGED <<len, owner, version, views>>

(* The handler drops view v; a checked one releases its shared borrow. *)
DropView(v) ==
  /\ BagIn(v, views)
  /\ views' = BagRemove(views, v)
  /\ UNCHANGED <<len, owner, version, res>>

(* Metadata::save's try_borrow_mut_data()?.copy_from_slice: it fails with  *)
(* AccountBorrowFailed while any shared borrow is held, else overwrites    *)
(* the data and releases the borrow.  The buffer length matching the       *)
(* account is Metadata's concern; here the write keeps the length.         *)
Save ==
  /\ version < MAX_WRITES
  /\ IF SharedBorrows > 0
     THEN Fail("Save", "AccountBorrowFailed")
     ELSE /\ version' = version + 1
          /\ res' = [op |-> "Save", err |-> ""]
          /\ UNCHANGED views
  /\ UNCHANGED <<len, owner>>

Next ==
  \/ TmFromAccountInfo
  \/ TmFromAccountInfoUnchecked
  \/ MaFromAccountInfo
  \/ MdFromAccountInfo
  \/ \E v \in BagToSet(views) : DropView(v)
  \/ Save

Spec == Init /\ [][Next]_vars

-----------------------------------------------------------------------------
TypeOK ==
  /\ len \in Lens
  /\ owner \in Owners
  /\ version \in 0..MAX_WRITES
  /\ IsABag(views) /\ BagCardinality(views) \in 0..MAX_VIEWS
  /\ res = NONE \/ res.err \in {"", "InvalidAccountData",
                                "InvalidAccountOwner", "AccountBorrowFailed"}

(* A view from a loader that returns a Ref (TokenMetadata and              *)
(* MetadataAccount from_account_info) shows the account as it is for as    *)
(* long as the view lives: its shared borrow makes every write in between  *)
(* (Metadata::save) fail with AccountBorrowFailed.                         *)
ViewsCurrent ==
  \A v \in BagToSet(views) :
    v.loader \in {"TokenMetadata", "MetadataAccount"} => v.version = version

(* A view loader rejects an account of the wrong length before it looks at *)
(* the owner.                                                              *)
LengthRejected(l) == len # LenOf(l)

(* Spec section 4.1: a fixed-layout view loader fails with               *)
(* InvalidAccountOwner or IncorrectOwner when the account's owner is not  *)
(* the program; here for an account of the length the loader expects, so *)
(* the owner check decides.  The three view loaders of token_metadata.rs  *)
(* and accounts/mod.rs.                                                   *)
OwnerMismatchReported ==
  (res # NONE /\ res.op \in ViewLoaders /\ owner # ID /\ ~LengthRejected(res.op)) =>
    res.err \in {"InvalidAccountOwner", "IncorrectOwner"}

=============================================================================
