-------------------------- MODULE ProgramErrorCodes --------------------------
(***************************************************************************)
(* The mapping between ProgramError and the u64 a program returns to the   *)
(* runtime (sdk/src/program_error.rs).  A u64 is held as its two 32-bit    *)
(* halves [hi, lo]: builtin errors occupy the upper half (to_builtin!      *)
(* shifts by 32), custom errors the lower half, and 0 means success.       *)
(*                                                                         *)
(* The state is the error last seen and its u64 code: either a program     *)
(* returned an error, which was encoded, or a caller was handed a code,    *)
(* which was decoded.                                                      *)
(***************************************************************************)
EXTENDS Integers, Sequences

CONSTANTS
  CustomCodes,   \* u32 payloads of ProgramError::Custom
  MetadataErrorCodes, \* discriminants of MetadataError (0..200)
  Codes          \* u64 codes, as [hi, lo], a caller may be handed

VARIABLES
  err,    \* the ProgramError
  code,   \* its u64 code
  op      \* "Return" (err encoded to code) or "Receive" (code decoded to err)

vars == <<err, code, op>>

(* The builtin variants in declaration order; to_builtin!(i + 1) is the    *)
(* code of the i-th one, to_builtin!(1) being CUSTOM_ZERO.                 *)
Builtins ==
  <<"InvalidArgument", "InvalidInstructionData", "InvalidAccountData",
    "AccountDataTooSmall", "InsufficientFunds", "IncorrectProgramId",
    "MissingRequiredSignature", "AccountAlreadyInitialized",
    "UninitializedAccount", "NotEnoughAccountKeys", "AccountBorrowFailed",
    "MaxSeedLengthExceeded", "InvalidSeeds", "BorshIoError",
    "AccountNotRentExempt", "UnsupportedSysvar", "IllegalOwner",
    "MaxAccountsDataAllocationsExceeded", "InvalidRealloc",
    "MaxInstructionTraceLengthExceeded",
    "BuiltinProgramsMustConsumeComputeUnits", "InvalidAccountOwner",
    "ArithmeticOverflow", "Immutable", "IncorrectAuthority">>

U64(hi, lo) == [hi |-> hi, lo |-> lo]

(* to_builtin!(n): n << 32. *)
ToBuiltin(n) == U64(n, 0)

CUSTOM_ZERO == ToBuiltin(1)

Custom(c) == [kind |-> "Custom", code |-> c]
Builtin(v) == [kind |-> v, code |-> 0]

ProgramErrors(cs) ==
  {Builtin(Builtins[i]) : i \in DOMAIN Builtins} \cup {Custom(c) : c \in cs}

(* From<MetadataError> for ProgramError: Custom(e as u32).  The first     *)
(* variant, InstructionUnpackError, is 0.                                  *)
FromMetadataError(n) == Custom(n)

(* The index of variant v in Builtins. *)
BuiltinIndex(v) == CHOOSE i \in DOMAIN Builtins : Builtins[i] = v

(* Mutant of ToU64: Custom(0) is encoded as 0 like any other custom code. *)
ToU64NoCustomZero(e) ==
  IF e.kind = "Custom" THEN U64(0, e.code)
  ELSE ToBuiltin(BuiltinIndex(e.kind) + 1)

(* From<ProgramError> for u64.  Custom(0) cannot be encoded as 0, which    *)
(* means success, so it gets CUSTOM_ZERO.                                  *)
ToU64(e) ==
  CASE e.kind = "Custom" /\ e.code = 0 -> CUSTOM_ZERO
    [] e.kind = "Custom"               -> U64(0, e.code)
    [] OTHER                           -> ToBuiltin(BuiltinIndex(e.kind) + 1)

(* Mutant of FromU64: the builtin table read one slot off. *)
FromU64Shifted(x) ==
  CASE x = CUSTOM_ZERO                          -> Custom(0)
    [] x.lo = 0 /\ x.hi \in DOMAIN Builtins     -> Builtin(Builtins[x.hi])
    [] OTHER                                    -> Custom(x.lo)

(* From<u64> for ProgramError: a builtin code gives its variant, anything  *)
(* else is Custom of its lower 32 bits (error as u32).                     *)
FromU64(x) ==
  CASE x = CUSTOM_ZERO                          -> Custom(0)
    [] x.lo = 0 /\ x.hi - 1 \in DOMAIN Builtins -> Builtin(Builtins[x.hi - 1])
    [] OTHER                                    -> Custom(x.lo)

(***************************************************************************)
(* Actions                                                                 *)
(***************************************************************************)
Init ==
  /\ err \in ProgramErrors(CustomCodes)
  /\ code = ToU64(err)
  /\ op = "Return"

(* A program returns error e; the entrypoint hands u64::from(e) to the     *)
(* runtime.                                                                *)
Return(e) ==
  /\ err' = e
  /\ code' = ToU64(e)
  /\ op' = "Return"

(* A caller is handed code x and converts it with ProgramError::from. *)
Receive(x) ==
  /\ code' = x
  /\ err' = FromU64(x)
  /\ op' = "Receive"

Next ==
  \/ \E e \in ProgramErrors(CustomCodes) : Return(e)
  \/ \E n \in MetadataErrorCodes : Return(FromMetadataError(n))
  \/ \E x \in Codes : Receive(x)

Spec == Init /\ [][Next]_vars

-----------------------------------------------------------------------------
(* An error a program returns never reaches the runtime as 0, the success  *)
(* code: every variant, Custom(0) included, encodes to a nonzero u64.      *)
ErrorNeverSuccess == op = "Return" => code # U64(0, 0)

(* A caller that decodes the code a program returned gets back the same    *)
(* ProgramError: the two match tables of program_error.rs are inverse on   *)
(* every code From<ProgramError> produces.                                 *)
ReturnRoundTrip == op = "Return" => FromU64(code) = err

=============================================================================
