------------------------------ MODULE Enrollment ------------------------------
(***************************************************************************)
(* Holders, one issuer and verifiers that use the pseudonym functions of   *)
(* src/lib.rs in the roles its documentation gives them.  The order of the *)
(* calls and what each party keeps are those of the programs in examples/. *)
(*                                                                         *)
(* Between the parties lies a network that may lose, repeat, delay and mix *)
(* up what it carries: a message once sent stays in its set, may be        *)
(* received never, once or often, and by whoever waits for one of its      *)
(* kind, for nothing in it names a holder or an attempt.  Holders retry    *)
(* and lose their state; the two halves of the issuer's key are installed  *)
(* separately.                                                             *)
(***************************************************************************)
EXTENDS BbsScheme

CONSTANTS
    Holders,
    Nyms, Factors,     \* random scalars: each is drawn at most once
    Entropies,         \* the issuer's halves; the examples use a constant
    Keys,              \* the issuer's key pairs
    Profiles,          \* the message vectors the issuer signs
    CommittedVectors,  \* the message vectors holders commit to
    Disclosures,       \* the sets of indices that are revealed
    Requests,          \* [scope, ph] of the verifiers' requests
    MaxAnswers, MaxPresentations   \* bounds on what is sent

ASSUME HalvesAssumption == Nyms \cap Entropies = {}

VARIABLES
    drawn,          \* history: the nym secrets that each holder generated
    nym,            \* the nym secret the holder has now, or none
    pending,        \* the commitment of its last attempt, or none
    wallet,         \* its credential, or none
    issuer,         \* the keys the issuer signs with
    published,      \* the public keys holders and verifiers use
    commitments, answers, presentations,   \* the network
    accepted        \* history: what verifiers accepted

holder == <<drawn, nym, pending, wallet>>
keys == <<issuer, published>>
vars == <<holder, keys, commitments, answers, presentations, accepted>>

Init ==
    /\ drawn = [h \in Holders |-> {}]
    /\ nym = [h \in Holders |-> {}]
    /\ pending = [h \in Holders |-> {}]
    /\ wallet = [h \in Holders |-> {}]
    /\ \E k \in Keys : issuer = [sk |-> k, pk |-> k] /\ published = {k}
    /\ commitments = {} /\ answers = {} /\ presentations = {} /\ accepted = {}

-----------------------------------------------------------------------------
(* The holder enrolls. *)

bbs_generate_nym_secret(h) ==
    /\ nym[h] = {}
    /\ \E n \in Nyms :
         /\ \A g \in Holders : n \notin drawn[g]
         /\ drawn' = [drawn EXCEPT ![h] = @ \cup {n}]
         /\ nym' = [nym EXCEPT ![h] = {n}]
    /\ UNCHANGED <<pending, wallet, keys, commitments, answers, presentations, accepted>>

\* A retry, or a renewal, draws a new blind factor and forgets the last one.
Commit(h) ==
    /\ \E n \in nym[h], f \in Factors, v \in CommittedVectors :
         /\ \A c \in commitments : c.factor # f
         /\ pending' = [pending EXCEPT ![h] = {bbs_commit_with_nym(v, n, f)}]
         /\ commitments' = commitments \cup {bbs_commit_with_nym(v, n, f)}
    /\ UNCHANGED <<drawn, nym, wallet, keys, answers, presentations, accepted>>

\* The issuer answers any commitment, again and again, and keeps no record.
BlindSign ==
    /\ Cardinality(answers) < MaxAnswers
    /\ \E c \in commitments, e \in Entropies, m \in Profiles :
         answers' = answers \cup
           {[sig |-> bbs_blind_sign_with_nym(issuer.sk, issuer.pk, c, e, m),
             entropy |-> e, messages |-> m]}
    /\ UNCHANGED <<holder, keys, commitments, presentations, accepted>>

\* Seeded bug: the credential is stored without waiting for the verification.
ReceiveUnverified(h) ==
    /\ \E a, b \in answers, c \in pending[h], pk \in published :
         wallet' = [wallet EXCEPT ![h] =
           {[pk |-> pk, sig |-> a.sig, messages |-> b.messages,
             committed |-> c.committed, factor |-> c.factor,
             nym_secret |-> NymSecret(c.nym, b.entropy)]}]
    /\ pending' = [pending EXCEPT ![h] = {}]
    /\ UNCHANGED <<drawn, nym, keys, commitments, answers, presentations, accepted>>

\* Seeded bug: the credential is stored with the nym secret as its blind factor.
ReceiveSwapped(h) ==
    /\ \E a, b \in answers, c \in pending[h], pk \in published :
       \E s \in bbs_verify_blind_sign_with_nym(pk, a.sig, b.messages, c.committed,
                                              c.nym, b.entropy, c.factor) :
         wallet' = [wallet EXCEPT ![h] =
           {[pk |-> pk, sig |-> a.sig, messages |-> b.messages,
             committed |-> c.committed, factor |-> c.nym, nym_secret |-> s]}]
    /\ pending' = [pending EXCEPT ![h] = {}]
    /\ UNCHANGED <<drawn, nym, keys, commitments, answers, presentations, accepted>>

\* An answer that does not verify is dropped.  The signature and what it is
\* said to be over may come from two answers.
Receive(h) ==
    /\ \E a, b \in answers, c \in pending[h], pk \in published :
       \E s \in bbs_verify_blind_sign_with_nym(pk, a.sig, b.messages, c.committed,
                                              c.nym, b.entropy, c.factor) :
         wallet' = [wallet EXCEPT ![h] =
           {[pk |-> pk, sig |-> a.sig, messages |-> b.messages,
             committed |-> c.committed, factor |-> c.factor, nym_secret |-> s]}]
    /\ pending' = [pending EXCEPT ![h] = {}]
    /\ UNCHANGED <<drawn, nym, keys, commitments, answers, presentations, accepted>>

-----------------------------------------------------------------------------
(* Presenting a credential and verifying what is presented. *)

Present(h) ==
    /\ Cardinality(presentations) < MaxPresentations
    /\ \E c \in wallet[h], r \in Requests, d \in Disclosures :
       \E p \in bbs_proof_gen_with_nym(c.pk, c.sig, r.ph, c.nym_secret, r.scope,
                                      c.messages, c.committed, d, c.factor) :
         presentations' = presentations \cup
           {[proof |-> p.proof, pseudonym |-> p.pseudonym,
             total |-> Cardinality(DOMAIN c.messages),
             shown |-> Shown(c.messages, c.committed, d), by |-> h]}
    /\ UNCHANGED <<holder, keys, commitments, answers, accepted>>

\* The proof may arrive with the pseudonym and the messages of another one.
Verify ==
    /\ \E p, q \in presentations, r \in Requests, pk \in published :
         /\ bbs_proof_verify_with_nym(pk, p.proof, q.pseudonym, r.ph, r.scope,
                                      q.total, q.shown)
         /\ accepted' = accepted \cup
              {[request |-> r, pk |-> pk, pseudonym |-> q.pseudonym, shown |-> q.shown,
                by |-> p.by]}
    /\ UNCHANGED <<holder, keys, commitments, answers, presentations>>

-----------------------------------------------------------------------------
(* Faults: a holder starts over, a key is half installed. *)

Forget(h) ==
    /\ nym[h] # {}
    /\ nym' = [nym EXCEPT ![h] = {}]
    /\ pending' = [pending EXCEPT ![h] = {}]
    /\ wallet' = [wallet EXCEPT ![h] = {}]
    /\ UNCHANGED <<drawn, keys, commitments, answers, presentations, accepted>>

InstallSecretKey ==
    /\ \E k \in Keys \ {issuer.sk} : issuer' = [issuer EXCEPT !.sk = k]
    /\ UNCHANGED <<holder, published, commitments, answers, presentations, accepted>>

InstallPublicKey ==
    /\ \E k \in Keys \ {issuer.pk} :
         /\ issuer' = [issuer EXCEPT !.pk = k]
         /\ published' = published \cup {k}
    /\ UNCHANGED <<holder, commitments, answers, presentations, accepted>>

Next ==
    \/ \E h \in Holders :
         \/ bbs_generate_nym_secret(h) \/ Commit(h) \/ Receive(h)
         \/ Present(h) \/ Forget(h)
    \/ BlindSign \/ Verify \/ InstallSecretKey \/ InstallPublicKey

Spec == Init /\ [][Next]_vars

-----------------------------------------------------------------------------
(* Properties. *)

Commitments == [committed : CommittedVectors, nym : Nyms, factor : Factors]
Signatures ==
    [sk : Keys, pk : Keys, commitment : Commitments, entropy : Entropies, messages : Profiles]
Answers == [sig : Signatures, entropy : Entropies, messages : Profiles]
Credentials ==
    [pk : Keys, sig : Signatures, messages : Profiles, committed : CommittedVectors,
     factor : Factors, nym_secret : SUBSET (Nyms \cup Entropies)]

TypeOK ==
    /\ drawn \in [Holders -> SUBSET Nyms]
    /\ nym \in [Holders -> SUBSET Nyms]
    /\ pending \in [Holders -> SUBSET Commitments]
    /\ wallet \in [Holders -> SUBSET Credentials]
    /\ issuer \in [sk : Keys, pk : Keys]
    /\ published \subseteq Keys
    /\ commitments \subseteq Commitments
    /\ answers \subseteq Answers
    /\ \A p \in presentations : p.by \in Holders
    /\ \A e \in accepted : e.by \in Holders /\ e.request \in Requests

\* A credential in a wallet is one the issuer made, with both halves of one
\* published key, over a commitment of the nym secret that this holder has now
\* and over the very messages the holder took it to be over - although answers
\* to other attempts and of other holders, answers mixed with one another, and
\* signatures made with keys of two pairs all pass through the same network.
WalletGenuine ==
    \A h \in Holders : \A c \in wallet[h] :
        \E a \in answers, n \in nym[h] :
            /\ a.sig = c.sig /\ a.messages = c.messages
            /\ c.sig.sk = c.pk /\ c.sig.pk = c.pk /\ c.pk \in published
            /\ c.sig.commitment.nym = n /\ c.sig.commitment \in commitments
            /\ c.nym_secret = NymSecret(n, c.sig.entropy)

\* Whatever retries and late answers came before, what the holder kept together
\* belongs together: for every request and every choice of messages that the
\* credential has, bbs_proof_gen_with_nym gives a proof, and it verifies.  (Proof
\* generation does not check the signature; a wallet filled with parts of two
\* attempts would be noticed at the verifier only.  That an Err has no other
\* cause than an index out of range is taken of the ideal scheme.)
AlwaysPresentable ==
    \A h \in Holders : \A c \in wallet[h] : \A r \in Requests, d \in Disclosures :
        d.messages \subseteq DOMAIN c.messages /\ d.committed \subseteq DOMAIN c.committed =>
            \E p \in bbs_proof_gen_with_nym(c.pk, c.sig, r.ph, c.nym_secret, r.scope,
                                            c.messages, c.committed, d, c.factor) :
                bbs_proof_verify_with_nym(c.pk, p.proof, p.pseudonym, r.ph, r.scope,
                    Cardinality(DOMAIN c.messages), Shown(c.messages, c.committed, d))

\* The answer that fills a wallet is to the holder's latest attempt: one that
\* was overtaken by a retry or by starting over does nothing.
LatestAttemptOnly ==
    [][\A h \in Holders : \A c \in wallet'[h] \ wallet[h] :
          c.sig.commitment \in pending[h]]_vars

\* The attributes entered under a secret by a signature with one key pair.
Entered ==
    {[secret |-> NymSecret(a.sig.commitment.nym, a.sig.entropy), pk |-> a.sig.pk,
      messages |-> a.messages, committed |-> a.sig.commitment.committed] :
        a \in {b \in answers : b.sig.sk = b.sig.pk}}

Registry == INSTANCE PseudonymRegistry WITH members <- Entered, log <- accepted

\* What is accepted was made for that request and is true of somebody the
\* issuer entered; a proof, a pseudonym and messages of different
\* presentations, or an old presentation, are not taken for one.
Accountable ==
    \A e \in accepted :
        /\ \E m \in Entered : Registry!Speaks(e, m)
        /\ \E p \in presentations :
             /\ p.by = e.by /\ p.shown = e.shown /\ p.pseudonym = e.pseudonym
             /\ p.proof.ph = e.request.ph

\* Replay detection by pseudonym accuses nobody else: two accepted
\* presentations with one pseudonym are of one holder and in one scope, also
\* when the issuer gives every holder the same entropy.
NoFalseReplay ==
    \A e, f \in accepted :
        e.pseudonym = f.pseudonym => e.by = f.by /\ e.request.scope = f.request.scope

\* Issuing and verifying are steps of the registry, everything else is not seen.
RefinesRegistry == Registry!Spec

-----------------------------------------------------------------------------
(* The inductive invariant behind them. *)

\* A nym secret belongs to the one holder who drew it.
Owners ==
    /\ \A h \in Holders : nym[h] \subseteq drawn[h]
    /\ \A g, h \in Holders : g # h => drawn[g] \cap drawn[h] = {}

\* What is pending was sent, and with the holder's present secret.
PendingSent ==
    \A h \in Holders : \A c \in pending[h] : c \in commitments /\ c.nym \in nym[h]

\* A blind factor tells commitments apart.
FactorsFresh == \A c, d \in commitments : c.factor = d.factor => c = d

\* The issuer tells the truth about what it signed.
AnswersHonest ==
    \A a \in answers :
        /\ a.sig.commitment \in commitments
        /\ a.sig.entropy = a.entropy /\ a.sig.messages = a.messages

\* A credential verifies with all that is kept along with it.
WalletValid ==
    \A h \in Holders : \A c \in wallet[h] :
        Valid(c.sig, c.pk, c.messages, c.committed, c.nym_secret, c.factor)

\* A proof is about a member, by the holder whose secret is in its pseudonym.
PresentationsTrue ==
    \A p \in presentations :
        /\ p.pseudonym = p.proof.pseudonym /\ p.shown = p.proof.shown
        /\ \E r \in Requests :
             p.proof.ph = r.ph /\ p.pseudonym.scope = r.scope
        /\ \E m \in Entered :
             Registry!Speaks([pk |-> p.proof.pk, pseudonym |-> p.pseudonym,
                              request |-> [scope |-> p.pseudonym.scope],
                              shown |-> p.shown], m)
        /\ \E n \in drawn[p.by], x \in Entropies : p.pseudonym.secret = NymSecret(n, x)

AcceptedTrue ==
    \A e \in accepted :
        /\ e.pseudonym.scope = e.request.scope
        /\ \E n \in drawn[e.by], x \in Entropies : e.pseudonym.secret = NymSecret(n, x)

IInv ==
    /\ TypeOK
    /\ Owners
    /\ PendingSent
    /\ FactorsFresh
    /\ AnswersHonest
    /\ WalletGenuine
    /\ WalletValid
    /\ PresentationsTrue
    /\ Accountable
    /\ AcceptedTrue
=============================================================================
