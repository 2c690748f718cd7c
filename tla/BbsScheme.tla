------------------------------- MODULE BbsScheme -------------------------------
(***************************************************************************)
(* The pseudonym functions of src/lib.rs on well-formed arguments, with    *)
(* ideal cryptography: a signature is the record of everything it was made *)
(* over, a random scalar is a name, and the sum of the two halves of a     *)
(* pseudonym secret is the set of the two.  What the functions do with     *)
(* malformed arguments is the subject of ApiCalls.                         *)
(*                                                                         *)
(* A Result is the set of the values it may hold, empty for Err.  A secret *)
(* key and its public key share a name.  `messages` stands for the header  *)
(* and the issuer's messages: both are signed, neither may change.         *)
(***************************************************************************)
EXTENDS Naturals, FiniteSets

\* PseudonymSecret addition: it does not matter which half is named first.
NymSecret(prover_nym, signer_nym) == {prover_nym, signer_nym}

\* One secret has one pseudonym in a scope, and shares it with no other secret.
Pseudonym(nym_secret, scope) == [secret |-> nym_secret, scope |-> scope]

bbs_commit_with_nym(committed, prover_nym, factor) ==
    [committed |-> committed, nym |-> prover_nym, factor |-> factor]

\* Nothing here compares the two keys: sk and pk may be of different pairs.
bbs_blind_sign_with_nym(sk, pk, commitment, entropy, messages) ==
    [sk |-> sk, pk |-> pk, commitment |-> commitment,
     entropy |-> entropy, messages |-> messages]

\* Seeded bug: the check does not cover the key the signature was made with.
ValidForAnyKey(sig, pk, messages, committed, nym_secret, factor) ==
    /\ sig.messages = messages
    /\ sig.commitment.committed = committed
    /\ sig.commitment.factor = factor
    /\ NymSecret(sig.commitment.nym, sig.entropy) = nym_secret

\* The signature equation: it holds for exactly what was signed and committed.
Valid(sig, pk, messages, committed, nym_secret, factor) ==
    /\ sig.sk = pk /\ sig.pk = pk
    /\ sig.messages = messages
    /\ sig.commitment.committed = committed
    /\ sig.commitment.factor = factor
    /\ NymSecret(sig.commitment.nym, sig.entropy) = nym_secret

\* Seeded bug: the signer's half is returned in place of the sum.
VerifyReturnsEntropy(pk, sig, messages, committed, prover_nym, entropy, factor) ==
    IF Valid(sig, pk, messages, committed, NymSecret(prover_nym, entropy), factor)
    THEN {NymSecret(entropy, entropy)} ELSE {}

bbs_verify_blind_sign_with_nym(pk, sig, messages, committed, prover_nym, entropy, factor) ==
    LET nym_secret == NymSecret(prover_nym, entropy)
    IN {s \in {nym_secret} : Valid(sig, pk, messages, committed, s, factor)}

\* What a presentation reveals: the messages at the disclosed indices.
Shown(messages, committed, disclosed) ==
    [messages |-> [i \in disclosed.messages |-> messages[i]],
     committed |-> [i \in disclosed.committed |-> committed[i]]]

\* The signature is not verified here: arguments that do not belong together
\* give a proof that no verifier accepts (or an Err, after which nothing is
\* sent).  An index out of range is always an Err.
bbs_proof_gen_with_nym(pk, sig, ph, nym_secret, scope, messages, committed, disclosed, factor) ==
    IF disclosed.messages \subseteq DOMAIN messages
       /\ disclosed.committed \subseteq DOMAIN committed
    THEN {[proof |-> [sound |-> Valid(sig, pk, messages, committed, nym_secret, factor),
                      pk |-> pk, ph |-> ph, pseudonym |-> Pseudonym(nym_secret, scope),
                      total |-> Cardinality(DOMAIN messages),
                      shown |-> Shown(messages, committed, disclosed)],
           pseudonym |-> Pseudonym(nym_secret, scope)]}
    ELSE {}

\* Seeded bug: the presentation header is left out of the challenge.
ProofVerifyAnyHeader(pk, proof, pseudonym, ph, scope, total, shown) ==
    /\ proof.sound
    /\ proof.pk = pk
    /\ proof.pseudonym = pseudonym /\ pseudonym.scope = scope
    /\ proof.total = total /\ proof.shown = shown

\* Seeded bug: the proof is not tied to the pseudonym it comes with.
ProofVerifyAnyPseudonym(pk, proof, pseudonym, ph, scope, total, shown) ==
    /\ proof.sound
    /\ proof.pk = pk /\ proof.ph = ph
    /\ pseudonym.scope = scope
    /\ proof.total = total /\ proof.shown = shown

\* Seeded bug: the pseudonym is compared but not recomputed for the scope.
ProofVerifyAnyScope(pk, proof, pseudonym, ph, scope, total, shown) ==
    /\ proof.sound
    /\ proof.pk = pk /\ proof.ph = ph
    /\ proof.pseudonym = pseudonym
    /\ proof.total = total /\ proof.shown = shown

\* Ok(true); a proof that does not verify is Ok(false), not an Err.
bbs_proof_verify_with_nym(pk, proof, pseudonym, ph, scope, total, shown) ==
    /\ proof.sound
    /\ proof.pk = pk /\ proof.ph = ph
    /\ proof.pseudonym = pseudonym /\ pseudonym.scope = scope
    /\ proof.total = total /\ proof.shown = shown
=============================================================================
