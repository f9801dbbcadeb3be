---------------------------- MODULE MC_LoadErrors ----------------------------
(***************************************************************************)
(* Model-checking instance of LoadErrors.  The account is 679 bytes (a     *)
(* MetadataAccount), size_of::<TokenMetadata>() bytes, or one byte short   *)
(* of 679; it is owned by the program or by another one.  The error side   *)
(* is the instance of MC_ProgramErrorCodes.                                *)
(***************************************************************************)
EXTENDS LoadErrors

CONSTANT OtherOwner

MCOwners == {ID, OtherOwner}

MCLens == {METADATA_ACCOUNT_LEN - 1, METADATA_ACCOUNT_LEN, TOKEN_METADATA_LEN}

MCCustomCodes == {0, 1, 2, 26, 27}

(* Upper halves 0 to 27: success or custom, the 25 builtins (2..26), and  *)
(* one past the table.                                                     *)
MCCodes == {[hi |-> hi, lo |-> lo] : hi \in 0..27, lo \in {0, 1, 27}}

=============================================================================
