---------------------------- MODULE CredentialParser ----------------------------
(***************************************************************************)
(* parse_bbs_credential (src/lib.rs): a credential is a signature of       *)
(* SigLen bytes followed by messages, each behind a four-digit big-endian  *)
(* length.  The function walks an offset over the credential and returns   *)
(* the messages, an error, or - when a slice is malformed - panics.        *)
(*                                                                         *)
(* Digits are in base Base (256 in the program) and machine integers wrap  *)
(* at UsizeMod, so that a 32-bit build is UsizeMod = Base^4 and a 64-bit   *)
(* build UsizeMod >= 2 * Base^4.                                           *)
(***************************************************************************)
EXTENDS Naturals, Sequences

CONSTANTS
    Base,         \* number of values of a byte
    SigLen,       \* SIG_LEN
    UsizeMod,     \* 2^(width of usize)
    Credentials   \* the inputs: sequences of bytes that fit in memory

U32Mod == Base * Base * Base * Base
IsizeMax == UsizeMod \div 2 - 1     \* no slice is longer than isize::MAX bytes

ASSUME BaseAssumption == Base \in Nat /\ Base >= 2
ASSUME SigLenAssumption == SigLen \in Nat /\ SigLen >= 1
ASSUME UsizeAssumption == UsizeMod \in Nat /\ UsizeMod >= U32Mod
ASSUME CredentialsAssumption ==
    /\ Credentials \subseteq Seq(0 .. Base - 1)
    /\ \A c \in Credentials : Len(c) <= IsizeMax

VARIABLES
    cred,      \* credential_bytes
    offset,    \* the loop's offset
    messages,  \* the messages pushed so far, as slices of cred
    status     \* where the function is, or how it ended

vars == <<cred, offset, messages, status>>

-----------------------------------------------------------------------------
(* Machine arithmetic and decoding. *)

\* Seeded bug: from_le_bytes.
U32AtLittleEndian(c, at) ==
    ((c[at + 4] * Base + c[at + 3]) * Base + c[at + 2]) * Base + c[at + 1]

\* u32::from_be_bytes of the four bytes that start at offset at.
U32At(c, at) ==
    ((c[at + 1] * Base + c[at + 2]) * Base + c[at + 3]) * Base + c[at + 4]

\* Seeded bug: the sums are taken in u32.
PlusU32(a, b) == (a + b) % U32Mod

\* usize addition in a release build, which wraps.
Plus(a, b) == (a + b) % UsizeMod

\* The message slices are [from, to): zero-based, as in the code.
Slices == [from : Nat, to : Nat]

-----------------------------------------------------------------------------
Init ==
    /\ cred \in Credentials
    /\ offset = 0
    /\ messages = <<>>
    /\ status = "start"

\* The empty and the too-short check come before anything is decoded.
TooShort ==
    /\ status = "start"
    /\ Len(cred) < SigLen
    /\ status' = "Err"
    /\ UNCHANGED <<cred, offset, messages>>

\* BBSplusSignature::from_bytes decides whether the first SigLen bytes are a
\* signature; either answer is possible.
BadSignature ==
    /\ status = "start"
    /\ Len(cred) >= SigLen
    /\ status' = "Err"
    /\ UNCHANGED <<cred, offset, messages>>

GoodSignature ==
    /\ status = "start"
    /\ Len(cred) >= SigLen
    /\ status' = "loop"
    /\ offset' = SigLen
    /\ UNCHANGED <<cred, messages>>

InLoop == status = "loop" /\ offset < Len(cred)
HasLength == Plus(offset, 4) <= Len(cred)
DataStart == Plus(offset, 4)
DataEnd == Plus(DataStart, U32At(cred, offset))

\* while offset < credential_bytes.len() is over.
Finish ==
    /\ status = "loop"
    /\ ~(offset < Len(cred))
    /\ status' = "Ok"
    /\ UNCHANGED <<cred, offset, messages>>

\* Seeded bug: the truncated prefix is skipped over with "continue".
TruncatedLengthSpins == InLoop /\ ~HasLength /\ UNCHANGED vars

TruncatedLength ==
    /\ InLoop
    /\ ~HasLength
    /\ status' = "Err"
    /\ UNCHANGED <<cred, offset, messages>>

\* Seeded bug: the offset is advanced before the bound is checked.
TruncatedDataAdvances ==
    /\ InLoop
    /\ HasLength
    /\ DataEnd > Len(cred)
    /\ status' = "Err"
    /\ offset' = DataEnd
    /\ UNCHANGED <<cred, messages>>

\* Seeded bug: ">=" rejects a message that ends with the credential.
TruncatedDataOffByOne ==
    /\ InLoop
    /\ HasLength
    /\ DataEnd >= Len(cred)
    /\ status' = "Err"
    /\ offset' = DataStart
    /\ UNCHANGED <<cred, messages>>

TruncatedData ==
    /\ InLoop
    /\ HasLength
    /\ DataEnd > Len(cred)
    /\ status' = "Err"
    /\ offset' = DataStart
    /\ UNCHANGED <<cred, messages>>

\* credential_bytes[a..b] with a > b panics.
BadSlice ==
    /\ InLoop
    /\ HasLength
    /\ DataEnd <= Len(cred)
    /\ DataStart > DataEnd
    /\ status' = "Panic"
    /\ offset' = DataStart
    /\ UNCHANGED <<cred, messages>>

\* Seeded bug: the slice starts at the prefix.
TakeMessageWithPrefix ==
    /\ InLoop
    /\ HasLength
    /\ DataEnd <= Len(cred)
    /\ DataStart <= DataEnd
    /\ messages' = Append(messages, [from |-> offset, to |-> DataEnd])
    /\ offset' = DataEnd
    /\ UNCHANGED <<cred, status>>

\* Seeded bug: an unchecked slice, so a wrapped length is taken at its word.
TakeMessageUnchecked ==
    /\ InLoop
    /\ HasLength
    /\ DataEnd <= Len(cred)
    /\ messages' = Append(messages, [from |-> DataStart, to |-> DataEnd])
    /\ offset' = DataEnd
    /\ UNCHANGED <<cred, status>>

TakeMessage ==
    /\ InLoop
    /\ HasLength
    /\ DataEnd <= Len(cred)
    /\ DataStart <= DataEnd
    /\ messages' = Append(messages, [from |-> DataStart, to |-> DataEnd])
    /\ offset' = DataEnd
    /\ UNCHANGED <<cred, status>>

Next ==
    \/ TooShort \/ BadSignature \/ GoodSignature
    \/ Finish \/ TruncatedLength \/ TruncatedData \/ BadSlice \/ TakeMessage

Spec == Init /\ [][Next]_vars /\ WF_vars(Next)

-----------------------------------------------------------------------------
(* Properties. *)

\* Type invariant; the offset never leaves the credential, on an error path
\* either (the message of line 830 subtracts it from the length).
TypeOK ==
    /\ cred \in Credentials
    /\ offset \in 0 .. Len(cred)
    /\ messages \in Seq(Slices)
    /\ status \in {"start", "loop", "Ok", "Err", "Panic"}

\* Where the i-th message's length prefix must start.
PrefixStart(i) == IF i = 1 THEN SigLen ELSE messages[i - 1].to

\* The messages tile the credential: each one starts right after its own
\* four-byte prefix, has the length the prefix says, ends inside the
\* credential, and the next prefix starts where it ends.
Tiles ==
    \A i \in DOMAIN messages :
        /\ messages[i].from = PrefixStart(i) + 4
        /\ messages[i].to = messages[i].from + U32At(cred, PrefixStart(i))
        /\ messages[i].to <= Len(cred)

\* The offset is where the next prefix starts for as long as the loop runs,
\* and the whole credential is consumed when the parse succeeds: no trailing
\* byte is ever ignored (lines 815-839).
Consumed ==
    /\ status \in {"loop", "Ok"} => offset = PrefixStart(Len(messages) + 1)
    /\ status = "Ok" => offset = Len(cred)

Tiling == Tiles /\ Consumed

\* Truncated or malformed input is an error, never a panic: the test at
\* lines 1264-1271 says "Test credential parsing rejects truncated input".
NoPanic == status # "Panic"

\* A turn of the loop ends it or moves the offset past the four bytes of a
\* prefix: no length, a wrapping one on a 32-bit build included, takes the
\* offset back, where the same bytes would be parsed again and again.
TurnsConsume ==
    [][InLoop => status' # "loop" \/ offset + 4 <= offset']_vars

Done == status \in {"Ok", "Err", "Panic"}

\* The parser answers on every credential: every turn of the loop consumes
\* at least the four bytes of a prefix.
Terminates == <>Done
=============================================================================
