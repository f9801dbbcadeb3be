----------------------------- MODULE Instructions -----------------------------
(***************************************************************************)
(* The instruction builders: each one lays out an instruction payload and  *)
(* passes it to invoke_signed (a cross-program invocation).  The payload   *)
(* bytes are the only state these builders control, so the state is the   *)
(* set of instructions passed to invoke_signed so far, with the arguments  *)
(* each was built from.                                                     *)
(*                                                                         *)
(* InitializeMint2 builds its payload in an array of MaybeUninit bytes and *)
(* hands all 67 to the runtime; bytes it never writes hold whatever was on *)
(* the stack.  Such a byte is a nondeterministic choice from UninitBytes.  *)
(* The 32 bytes of an unwritten address are taken to share one value.      *)
(***************************************************************************)
EXTENDS Integers, Sequences, FiniteSets, Bytes

CONSTANTS
  NONE,          \* Option::None
  METADATA_ID,   \* crate::ID of mpl-metadata
  TOKEN_ID,      \* crate::ID of the token program
  SYSTEM_ID,     \* crate::ID of the system program
  Strs,          \* name, symbol and uri arguments of Create (byte strings)
  Fees,          \* seller_fee_basis_points arguments
  Decimals,      \* decimals arguments of InitializeMint2
  Keys,          \* address arguments, as the byte every address byte holds
  UninitBytes,   \* values an unwritten stack byte may hold
  MAX_SENDS      \* bound on the distinct instructions the history records

VARIABLE sent    \* the set of [program, ix, args, data] passed to invoke_signed

vars == <<sent>>

(* Sends instruction ix with arguments args and payload data to program p. *)
(* The history keeps at most MAX_SENDS distinct instructions; sending one  *)
(* it already holds is always possible.                                    *)
Send(p, ix, args, data) ==
  LET m == [program |-> p, ix |-> ix, args |-> args, data |-> data]
  IN /\ m \in sent \/ Cardinality(sent) < MAX_SENDS
     /\ sent' = sent \cup {m}

(***************************************************************************)
(* Payload layouts                                                         *)
(***************************************************************************)
(* Create: opcode 0, then the raw bytes of name, symbol and uri, then the  *)
(* fee as u16 little-endian.                                               *)
CreateData(name, symbol, uri, fee) ==
  <<0>> \o name \o symbol \o uri \o LeBytes(fee, 2)

TransferData == <<1>>

UpdateNonceData == <<12>>

(* InitializeMint2: [0] = 20, [1] = decimals, [2..34] = mint_authority,    *)
(* [34] = freeze_authority flag, [35..67] = freeze_authority.  With no     *)
(* freeze authority the flag is written 0 and bytes 35..67 stay unwritten, *)
(* holding u.                                                              *)
(* Mutant of Mint2Data: the 0 flag of the None case is not written. *)
Mint2DataNoFlag(decimals, ma, fa, u) ==
  <<20, decimals>> \o Address(ma)
  \o (IF fa = NONE THEN <<u>> \o Address(u) ELSE <<1>> \o Address(fa))

Mint2Data(decimals, ma, fa, u) ==
  <<20, decimals>> \o Address(ma)
  \o (IF fa = NONE THEN <<0>> \o Address(u) ELSE <<1>> \o Address(fa))

(***************************************************************************)
(* Builders: one action per invoke_signed                                  *)
(***************************************************************************)
Init == sent = {}

CreateInvoke(name, symbol, uri, fee) ==
  Send(METADATA_ID, "Create",
       [name |-> name, symbol |-> symbol, uri |-> uri, fee |-> fee],
       CreateData(name, symbol, uri, fee))

TransferInvoke ==
  Send(METADATA_ID, "TransferMetadata", [none |-> NONE], TransferData)

UpdateNonceInvoke ==
  Send(SYSTEM_ID, "UpdateNonceAccount", [none |-> NONE], UpdateNonceData)

InitializeMint2Invoke(decimals, ma, fa) ==
  \E u \in UninitBytes :
    Send(TOKEN_ID, "InitializeMint2",
         [decimals |-> decimals, mint_authority |-> ma,
          freeze_authority |-> fa],
         Mint2Data(decimals, ma, fa, u))

Next ==
  \/ \E n, s, u \in Strs, f \in Fees : CreateInvoke(n, s, u, f)
  \/ TransferInvoke
  \/ UpdateNonceInvoke
  \/ \E d \in Decimals, ma \in Keys, fa \in Keys \cup {NONE} :
       InitializeMint2Invoke(d, ma, fa)

Spec == Init /\ [][Next]_vars

-----------------------------------------------------------------------------
(* How the token program unpacks InitializeMint2 (the receiver, not in     *)
(* this repository): decimals, a 32-byte address, then COption<Pubkey>     *)
(* whose tag 0 means None whatever follows and 1 means the next 32 bytes.  *)
Mint2Unpack(d) ==
  [decimals |-> d[2],
   mint_authority |-> SubSeq(d, 3, 34),
   freeze_authority |-> CASE d[35] = 0 -> NONE
                          [] d[35] = 1 -> SubSeq(d, 36, 67)
                          [] OTHER     -> "InvalidInstructionData"]

(* The token program recovers every argument of InitializeMint2 from the   *)
(* payload, whatever the unwritten bytes hold: the flag byte is always     *)
(* written, and the unwritten tail sits behind a 0 flag.                   *)
Mint2Decodes ==
  \A s \in sent : s.ix = "InitializeMint2" =>
    Mint2Unpack(s.data) =
      [decimals |-> s.args.decimals,
       mint_authority |-> Address(s.args.mint_authority),
       freeze_authority |-> IF s.args.freeze_authority = NONE THEN NONE
                            ELSE Address(s.args.freeze_authority)]

(* Spec section 6: a payload is an opcode followed by the fields in the    *)
(* encodings of section 4.2, which a receiver can take apart again.  So    *)
(* two instructions to one program with the same payload were built from   *)
(* the same arguments, whatever the unwritten bytes hold.                  *)
PayloadInjective ==
  \A s, t \in sent :
    (s.program = t.program /\ s.data = t.data) => s.args = t.args

=============================================================================
