------------------------------ MODULE MC_Records ------------------------------
(***************************************************************************)
(* Model-checking instance of Records.  The records are the two Default    *)
(* values (bump 255, no uses, no update authority) and one record of each   *)
(* type with every field nonzero.  Accounts are owned by the program or by  *)
(* another program; a resize makes an account of either record size or     *)
(* empty.                                                                  *)
(***************************************************************************)
EXTENDS Records

(* An owner other than the program. *)
CONSTANT OtherOwner

MCRecs ==
  { UarDefault,
    Rec("UseAuthorityRecord", LeBytes(5, 8), 1, NONE),
    CarDefault,
    Rec("CollectionAuthorityRecord", Zeros8, 1, Address(7)) }

MCSizes == {0, USE_AUTHORITY_RECORD_SIZE, COLLECTION_AUTHORITY_RECORD_SIZE}

=============================================================================
