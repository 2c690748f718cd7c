--------------------------- MODULE CredentialEncoding ---------------------------
(***************************************************************************)
(* The encoding that parse_bbs_credential inverts, as the test of lib.rs   *)
(* that builds a credential writes it down: each message behind its        *)
(* length.  It shares no arithmetic with the parser.                       *)
(***************************************************************************)
EXTENDS CredentialParser, SequencesExt

\* (len as u32).to_be_bytes(): of a longer length, the lowest four digits.
BigEndian(n) ==
    <<(n \div (Base * Base * Base)) % Base, (n \div (Base * Base)) % Base,
      (n \div Base) % Base, n % Base>>

Encode(message) == BigEndian(Len(message)) \o message

Bytes(slice) == SubSeq(cred, slice.from + 1, slice.to)

Encoded == FlattenSeq([i \in DOMAIN messages |-> Encode(Bytes(messages[i]))])

\* From position k on the credential is an encoding of messages, none of
\* them too long for its prefix.
EncodingFrom[k \in SigLen .. Len(cred)] ==
    \/ k = Len(cred)
    \/ \E n \in 0 .. Len(cred) - k - 4 :
         /\ n < U32Mod
         /\ SubSeq(cred, k + 1, k + 4) = BigEndian(n)
         /\ EncodingFrom[k + 4 + n]

WellFormed == EncodingFrom[SigLen]

\* Parsing inverts encoding: a successful parse returns exactly the messages
\* whose encoding is the credential's tail, and once the signature was accepted
\* an error (or a panic) means that no list of messages encodes to that tail.
RoundTrip ==
    /\ status = "Ok" => SubSeq(cred, SigLen + 1, Len(cred)) = Encoded
    /\ (status \in {"Err", "Panic"} /\ offset >= SigLen) => ~WellFormed
=============================================================================
