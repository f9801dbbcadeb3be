-------------------------------- MODULE Bytes --------------------------------
(***************************************************************************)
(* Byte-level primitives shared by the codecs of the metadata programs.    *)
(* A byte is an integer in 0..255 and a byte string is a sequence of       *)
(* bytes; a Rust &str is a byte string that is valid UTF-8.               *)
(***************************************************************************)
EXTENDS Integers, Sequences

Byte == 0..255

(***************************************************************************)
(* core::str::from_utf8 / String::from_utf8 acceptance: well-formed UTF-8  *)
(* as Rust checks it (no overlong forms, no surrogates, nothing above      *)
(* U+10FFFF).  Cont(b) is a continuation byte 0x80..0xBF.                  *)
(***************************************************************************)
Cont(b) == b \in 128..191

\* number of bytes of the character a lead byte b starts, 0 if none
Width(b) == CASE b \in 0..127   -> 1
              [] b \in 194..223 -> 2
              [] b \in 224..239 -> 3
              [] b \in 240..244 -> 4
              [] OTHER           -> 0

\* bytes allowed right after lead byte b
SecondRange(b) == CASE b = 224 -> 160..191
                    [] b = 237 -> 128..159
                    [] b = 240 -> 144..191
                    [] b = 244 -> 128..143
                    [] OTHER   -> 128..191

(* Continuation bytes cannot start a character, so the split of s into    *)
(* characters is forced: s is valid iff every byte that is not a           *)
(* continuation starts a complete, well-formed character and every         *)
(* continuation byte lies inside the character of a lead before it.        *)
Utf8Valid(s) ==
  LET n == Len(s)
  IN /\ \A i \in 1..n :
          ~Cont(s[i]) =>
            /\ Width(s[i]) > 0
            /\ i + Width(s[i]) - 1 <= n
            /\ Width(s[i]) >= 2 => s[i + 1] \in SecondRange(s[i])
            /\ \A j \in i + 1 .. i + Width(s[i]) - 1 : Cont(s[j])
     /\ \A i \in 1..n :
          Cont(s[i]) =>
            \E j \in 1..i - 1 : ~Cont(s[j]) /\ j + Width(s[j]) - 1 >= i

(***************************************************************************)
(* n.to_le_bytes() for an unsigned integer of w bytes, and its inverse     *)
(* uN::from_le_bytes.  The value is reduced modulo 2^(8w), the width the   *)
(* Rust cast `as uN` gives it.                                             *)
(***************************************************************************)
LeBytes(n, w) ==
  LET q[i \in 1..w] == IF i = 1 THEN n ELSE q[i - 1] \div 256
  IN [i \in 1..w |-> q[i] % 256]

LeValue(s) == LET v[i \in 0..Len(s)] == IF i = 0 THEN 0
                                       ELSE v[i - 1] + s[i] * 2 ^ (8 * (i - 1))
              IN v[Len(s)]

(* A u32 read from 4 little-endian bytes, saturated at 2^16.  TLC's        *)
(* integers are 32-bit, so a full u32 does not fit; every u32 the decoders *)
(* read is a length that is only compared with a buffer length or a heap   *)
(* size, both below 2^16 in every model, so saturating keeps each          *)
(* comparison's outcome.                                                   *)
U32Sat(s) == IF s[3] = 0 /\ s[4] = 0 THEN s[1] + 256 * s[2] ELSE 65536

(* A 32-byte address (Pubkey) whose bytes are all a. *)
Address(a) == [i \in 1..32 |-> a]

=============================================================================
