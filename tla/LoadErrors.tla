------------------------------ MODULE LoadErrors ------------------------------
(***************************************************************************)
(* The view loaders of AccountViews composed with the u64 encoding of      *)
(* ProgramErrorCodes: a handler whose load failed returns that error with  *)
(* `?`, and the entrypoint hands u64::from(error) to the runtime.  Any     *)
(* other error a handler may return, and any code a caller may be handed,  *)
(* stay the steps of ProgramErrorCodes.                                    *)
(***************************************************************************)
EXTENDS AccountViews

CONSTANTS CustomCodes, MetadataErrorCodes, Codes

VARIABLES err, code, op

PE == INSTANCE ProgramErrorCodes

viewVars == <<len, owner, version, views, res>>
errVars == <<err, code, op>>

LInit == Init /\ PE!Init

(* The handler propagates the failed load's ProgramError. *)
ReturnLoadError ==
  /\ res # NONE /\ res.err # ""
  /\ PE!Return(PE!Builtin(res.err))
  /\ UNCHANGED viewVars

LNext ==
  \/ Next /\ UNCHANGED errVars
  \/ PE!Next /\ UNCHANGED viewVars
  \/ ReturnLoadError

LSpec == LInit /\ [][LNext]_<<viewVars, errVars>>

-----------------------------------------------------------------------------
(* No error a handler returns, a failed load's included, reaches the       *)
(* runtime as 0, the success code (From<ProgramError> for u64).            *)
ErrorNeverSuccess == PE!ErrorNeverSuccess

(* A caller decoding the code of a returned error gets the error back:     *)
(* for a failed load, the loader's own error (InvalidAccountData,          *)
(* InvalidAccountOwner or AccountBorrowFailed) survives the u64 round trip. *)
ReturnRoundTrip == PE!ReturnRoundTrip

=============================================================================
