---------------------------- MODULE EnrollmentProofs ----------------------------
(***************************************************************************)
(* For any number of holders, secrets, keys, answers and requests: what is *)
(* in a wallet is genuine and can be presented, what verifiers accept is   *)
(* true of its presenter, no holder is taken for another, and Enrollment   *)
(* implements PseudonymRegistry.  The invariant follows the data from      *)
(* commitment to answer to wallet to presentation to acceptance.           *)
(***************************************************************************)
EXTENDS Enrollment, TLAPS

-----------------------------------------------------------------------------
(* Facts about the scheme. *)

LEMMA HalvesDistinct ==
    ASSUME NEW m \in Nyms, NEW n \in Nyms, NEW x \in Entropies, NEW y \in Entropies,
           NymSecret(m, x) = NymSecret(n, y)
    PROVE  m = n
  BY HalvesAssumption DEF NymSecret

LEMMA VerifySound ==
    ASSUME NEW pk, NEW sig, NEW messages, NEW committed, NEW n, NEW x, NEW f,
           NEW s \in bbs_verify_blind_sign_with_nym(pk, sig, messages, committed, n, x, f)
    PROVE  /\ s = NymSecret(n, x)
           /\ Valid(sig, pk, messages, committed, s, f)
  BY DEF bbs_verify_blind_sign_with_nym

\* Whom the issuer has entered stays entered.
LEMMA EnteredGrows == answers \subseteq answers' => Entered \subseteq Entered'
  BY DEF Entered

LEMMA EnteredByAnswer ==
    ASSUME NEW a \in answers, a.sig.sk = a.sig.pk
    PROVE  [secret |-> NymSecret(a.sig.commitment.nym, a.sig.entropy), pk |-> a.sig.pk,
            messages |-> a.messages, committed |-> a.sig.commitment.committed] \in Entered
  BY DEF Entered

-----------------------------------------------------------------------------
(* Each group of conjuncts is kept by every action that does not touch its *)
(* variables.                                                              *)

Network == FactorsFresh /\ AnswersHonest
Wallets == WalletGenuine /\ WalletValid
Claims == PresentationsTrue /\ Accountable /\ AcceptedTrue

LEMMA NetworkKept ==
    Network /\ UNCHANGED <<commitments, answers>> => Network'
  BY DEF Network, FactorsFresh, AnswersHonest

LEMMA WalletsKept ==
    ASSUME Wallets, UNCHANGED <<nym, wallet>>,
           commitments \subseteq commitments', answers \subseteq answers',
           published \subseteq published'
    PROVE  Wallets'
  BY DEF Wallets, WalletGenuine, WalletValid

LEMMA ClaimsKept ==
    ASSUME Claims, UNCHANGED <<presentations, accepted>>, answers \subseteq answers',
           TypeOK, \A h \in Holders : drawn[h] \subseteq drawn'[h]
    PROVE  Claims'
  <1>1. Entered \subseteq Entered' BY EnteredGrows
  <1>2. PresentationsTrue'
    <2> SUFFICES ASSUME NEW p \in presentations
                 PROVE  (PresentationsTrue!(p))'
      BY DEF PresentationsTrue
    <2> QED BY <1>1 DEF Claims, PresentationsTrue, TypeOK, Registry!Speaks, Registry!PartOf
  <1>3. Accountable'
    BY <1>1 DEF Claims, Accountable, Registry!Speaks, Registry!PartOf
  <1>4. AcceptedTrue' BY DEF Claims, AcceptedTrue, TypeOK
  <1> QED BY <1>2, <1>3, <1>4 DEF Claims

LEMMA IInvParts ==
    IInv <=> TypeOK /\ Owners /\ PendingSent /\ Network /\ Wallets /\ Claims
  BY DEF IInv, Network, Wallets, Claims

-----------------------------------------------------------------------------
(* Initially, and for every action. *)

LEMMA InitIInv == Init => IInv
  BY DEF Init, IInv, TypeOK, Owners, PendingSent, FactorsFresh, AnswersHonest,
         WalletGenuine, WalletValid, PresentationsTrue, Accountable, AcceptedTrue

LEMMA GenerateIInv ==
    ASSUME IInv, NEW h \in Holders, bbs_generate_nym_secret(h)
    PROVE  IInv'
  <1> USE DEF bbs_generate_nym_secret, holder, keys
  <1>0. TypeOK /\ Owners /\ PendingSent /\ Network /\ Wallets /\ Claims BY IInvParts
  <1>1. PICK n \in Nyms : /\ \A g \in Holders : n \notin drawn[g]
                          /\ drawn' = [drawn EXCEPT ![h] = @ \cup {n}]
                          /\ nym' = [nym EXCEPT ![h] = {n}]
    OBVIOUS
  <1>2. TypeOK' BY <1>0, <1>1 DEF TypeOK
  <1>3. Owners' BY <1>0, <1>1 DEF Owners, TypeOK
  <1>4. PendingSent'
    <2> SUFFICES ASSUME NEW g \in Holders, NEW c \in pending[g]
                 PROVE  c \in commitments /\ c.nym \in nym'[g]
      BY DEF PendingSent
    <2> QED BY <1>0, <1>1 DEF PendingSent, TypeOK
  <1>5. Network' BY <1>0, NetworkKept
  <1>6. Wallets'
    <2> SUFFICES ASSUME NEW g \in Holders
                 PROVE  (WalletGenuine!(g))' /\ (WalletValid!(g))'
      BY DEF Wallets, WalletGenuine, WalletValid
    <2>1. nym[g] \subseteq nym'[g] BY <1>1, <1>0 DEF TypeOK
    <2> QED BY <1>0, <2>1 DEF Wallets, WalletGenuine, WalletValid
  <1>7. Claims' BY <1>0, <1>1, ClaimsKept DEF TypeOK
  <1> QED BY <1>2, <1>3, <1>4, <1>5, <1>6, <1>7 DEF IInv, Network, Wallets, Claims

LEMMA CommitIInv ==
    ASSUME IInv, NEW h \in Holders, Commit(h)
    PROVE  IInv'
  <1> USE DEF Commit, keys
  <1>0. TypeOK /\ Owners /\ PendingSent /\ Network /\ Wallets /\ Claims BY IInvParts
  <1>1. PICK n \in nym[h], f \in Factors, v \in CommittedVectors :
          /\ \A c \in commitments : c.factor # f
          /\ pending' = [pending EXCEPT ![h] = {bbs_commit_with_nym(v, n, f)}]
          /\ commitments' = commitments \cup {bbs_commit_with_nym(v, n, f)}
    OBVIOUS
  <1> DEFINE c0 == bbs_commit_with_nym(v, n, f)
  <1>2. c0 \in Commitments /\ c0.factor = f /\ c0.nym = n
    BY <1>0, <1>1 DEF bbs_commit_with_nym, Commitments, TypeOK
  <1> HIDE DEF c0
  <1>3. TypeOK' BY <1>0, <1>1, <1>2 DEF TypeOK, c0
  <1>4. Owners' BY <1>0 DEF Owners
  <1>5. PendingSent' BY <1>0, <1>1, <1>2 DEF PendingSent, TypeOK, c0
  <1>6. FactorsFresh' BY <1>0, <1>1, <1>2 DEF Network, FactorsFresh, c0
  <1>7. AnswersHonest' BY <1>0, <1>1 DEF Network, AnswersHonest
  <1>8. Wallets' BY <1>0, <1>1, WalletsKept
  <1>9. Claims' BY <1>0, ClaimsKept
  <1> QED BY <1>3, <1>4, <1>5, <1>6, <1>7, <1>8, <1>9 DEF IInv, Wallets, Claims

LEMMA BlindSignIInv == ASSUME IInv, BlindSign PROVE IInv'
  <1> USE DEF BlindSign, holder, keys
  <1>0. TypeOK /\ Owners /\ PendingSent /\ Network /\ Wallets /\ Claims BY IInvParts
  <1>1. PICK c \in commitments, e \in Entropies, m \in Profiles :
          answers' = answers \cup
            {[sig |-> bbs_blind_sign_with_nym(issuer.sk, issuer.pk, c, e, m),
              entropy |-> e, messages |-> m]}
    OBVIOUS
  <1>2. bbs_blind_sign_with_nym(issuer.sk, issuer.pk, c, e, m) \in Signatures
    BY <1>0, <1>1 DEF bbs_blind_sign_with_nym, Signatures, TypeOK
  <1>3. TypeOK' BY <1>0, <1>1, <1>2 DEF TypeOK, Answers
  <1>4. Owners' /\ PendingSent' BY <1>0 DEF Owners, PendingSent
  <1>5. FactorsFresh' BY <1>0 DEF Network, FactorsFresh
  <1>6. AnswersHonest'
    BY <1>0, <1>1 DEF Network, AnswersHonest, bbs_blind_sign_with_nym
  <1>7. Wallets' BY <1>0, <1>1, WalletsKept
  <1>8. Claims' BY <1>0, <1>1, ClaimsKept
  <1> QED BY <1>3, <1>4, <1>5, <1>6, <1>7, <1>8 DEF IInv, Wallets, Claims

\* What a holder stores is an answer to exactly what is pending.
LEMMA Received ==
    ASSUME IInv, NEW h \in Holders, Receive(h)
    PROVE  \E a \in answers, b \in answers, c \in pending[h], pk \in published :
             LET s == NymSecret(c.nym, b.entropy) IN
             /\ wallet' = [wallet EXCEPT ![h] =
                  {[pk |-> pk, sig |-> a.sig, messages |-> b.messages,
                    committed |-> c.committed, factor |-> c.factor, nym_secret |-> s]}]
             /\ Valid(a.sig, pk, b.messages, c.committed, s, c.factor)
             /\ a.sig.commitment = c
             /\ a.messages = b.messages
             /\ s = NymSecret(c.nym, a.sig.entropy)
             /\ c \in commitments /\ c.nym \in nym[h]
  <1>0. TypeOK /\ Owners /\ PendingSent /\ Network /\ Wallets /\ Claims BY IInvParts
  <1>1. PICK a \in answers, b \in answers, c \in pending[h], pk \in published :
        \E s \in bbs_verify_blind_sign_with_nym(pk, a.sig, b.messages, c.committed,
                                               c.nym, b.entropy, c.factor) :
          wallet' = [wallet EXCEPT ![h] =
            {[pk |-> pk, sig |-> a.sig, messages |-> b.messages,
              committed |-> c.committed, factor |-> c.factor, nym_secret |-> s]}]
    BY DEF Receive
  <1> DEFINE s == NymSecret(c.nym, b.entropy)
  <1>2. /\ wallet' = [wallet EXCEPT ![h] =
             {[pk |-> pk, sig |-> a.sig, messages |-> b.messages,
               committed |-> c.committed, factor |-> c.factor, nym_secret |-> s]}]
        /\ Valid(a.sig, pk, b.messages, c.committed, s, c.factor)
    <2>1. PICK t \in bbs_verify_blind_sign_with_nym(pk, a.sig, b.messages, c.committed,
                                                    c.nym, b.entropy, c.factor) :
            wallet' = [wallet EXCEPT ![h] =
              {[pk |-> pk, sig |-> a.sig, messages |-> b.messages,
                committed |-> c.committed, factor |-> c.factor, nym_secret |-> t]}]
      BY <1>1
    <2>2. t = s /\ Valid(a.sig, pk, b.messages, c.committed, t, c.factor)
      BY VerifySound
    <2> QED BY <2>1, <2>2
  <1>3. c \in commitments /\ c.nym \in nym[h] BY <1>0 DEF PendingSent
  <1>4. a.sig.commitment \in commitments /\ a.sig.messages = a.messages
    BY <1>0 DEF Network, AnswersHonest
  <1>5. a.sig.commitment = c
    BY <1>0, <1>2, <1>3, <1>4 DEF Network, FactorsFresh, Valid
  <1>6. s = NymSecret(c.nym, a.sig.entropy) BY <1>2, <1>5 DEF Valid
  <1>7. a.messages = b.messages BY <1>2, <1>4 DEF Valid
  <1> QED BY <1>2, <1>3, <1>5, <1>6, <1>7

LEMMA ReceiveIInv ==
    ASSUME IInv, NEW h \in Holders, Receive(h)
    PROVE  IInv'
  <1>0. TypeOK /\ Owners /\ PendingSent /\ Network /\ Wallets /\ Claims BY IInvParts
  <1>1. /\ pending' = [pending EXCEPT ![h] = {}]
        /\ UNCHANGED <<drawn, nym, keys, commitments, answers, presentations, accepted>>
    BY DEF Receive
  <1>2. PICK a \in answers, b \in answers, c \in pending[h], pk \in published :
             LET s == NymSecret(c.nym, b.entropy) IN
             /\ wallet' = [wallet EXCEPT ![h] =
                  {[pk |-> pk, sig |-> a.sig, messages |-> b.messages,
                    committed |-> c.committed, factor |-> c.factor, nym_secret |-> s]}]
             /\ Valid(a.sig, pk, b.messages, c.committed, s, c.factor)
             /\ a.sig.commitment = c
             /\ a.messages = b.messages
             /\ s = NymSecret(c.nym, a.sig.entropy)
             /\ c \in commitments /\ c.nym \in nym[h]
    BY Received
  <1> DEFINE s == NymSecret(c.nym, b.entropy)
             w == [pk |-> pk, sig |-> a.sig, messages |-> b.messages,
                   committed |-> c.committed, factor |-> c.factor, nym_secret |-> s]
  <1>3. wallet' = [wallet EXCEPT ![h] = {w}] BY <1>2
  <1>4. w \in Credentials
    BY <1>0, <1>2 DEF TypeOK, Credentials, Answers, Signatures, Commitments, NymSecret
  <1>5. TypeOK' BY <1>0, <1>1, <1>3, <1>4 DEF TypeOK, keys
  <1>6. Owners' BY <1>0, <1>1 DEF Owners
  <1>7. PendingSent' BY <1>0, <1>1 DEF PendingSent, TypeOK
  <1>8. Network' BY <1>0, <1>1, NetworkKept
  <1>9. WalletGenuine'
    <2>1. /\ w.sig = a.sig /\ w.pk = pk /\ w.sig.commitment = c
          /\ w.nym_secret = NymSecret(c.nym, w.sig.entropy)
          /\ w.sig.sk = pk /\ w.sig.pk = pk /\ w.messages = a.messages
      BY <1>2 DEF Valid
    <2>2. \E a1 \in answers, n \in nym[h] :
            /\ a1.sig = w.sig /\ a1.messages = w.messages
            /\ w.sig.sk = w.pk /\ w.sig.pk = w.pk /\ w.pk \in published
            /\ w.sig.commitment.nym = n /\ w.sig.commitment \in commitments
            /\ w.nym_secret = NymSecret(n, w.sig.entropy)
      BY <1>2, <2>1
    <2> HIDE DEF w
    <2> SUFFICES ASSUME NEW g \in Holders, NEW x \in wallet'[g]
                 PROVE  (WalletGenuine!(g)!(x))'
      BY DEF WalletGenuine
    <2>3. CASE g = h
      <3>1. x = w BY <1>0, <1>3, <2>3 DEF TypeOK
      <3> QED BY <1>1, <2>2, <2>3, <3>1 DEF keys
    <2>4. CASE g # h
      <3>1. x \in wallet[g] BY <1>0, <1>3, <2>4 DEF TypeOK
      <3> QED BY <1>0, <1>1, <3>1 DEF Wallets, WalletGenuine, keys
    <2> QED BY <2>3, <2>4
  <1>10. WalletValid'
    <2>1. Valid(w.sig, w.pk, w.messages, w.committed, w.nym_secret, w.factor) BY <1>2
    <2> HIDE DEF w
    <2> QED BY <1>0, <1>3, <2>1 DEF Wallets, WalletValid, TypeOK
  <1>11. Claims' BY <1>0, <1>1, ClaimsKept
  <1> QED BY <1>5, <1>6, <1>7, <1>8, <1>9, <1>10, <1>11 DEF IInv, Network, Claims

\* What is presented is about the member whose credential it was made from.
LEMMA Presented ==
    ASSUME IInv, NEW h \in Holders, Present(h)
    PROVE  \E q :
             /\ presentations' = presentations \cup {q}
             /\ q.by = h
             /\ q.pseudonym = q.proof.pseudonym /\ q.shown = q.proof.shown
             /\ \E r \in Requests : q.proof.ph = r.ph /\ q.pseudonym.scope = r.scope
             /\ \E m \in Entered :
                  Registry!Speaks([pk |-> q.proof.pk, pseudonym |-> q.pseudonym,
                                   request |-> [scope |-> q.pseudonym.scope],
                                   shown |-> q.shown], m)
             /\ \E n \in drawn[h], x \in Entropies : q.pseudonym.secret = NymSecret(n, x)
  <1>0. TypeOK /\ Owners /\ Wallets BY IInvParts
  <1>1. PICK c \in wallet[h], r \in Requests, d \in Disclosures :
        \E p \in bbs_proof_gen_with_nym(c.pk, c.sig, r.ph, c.nym_secret, r.scope,
                                       c.messages, c.committed, d, c.factor) :
          presentations' = presentations \cup
            {[proof |-> p.proof, pseudonym |-> p.pseudonym,
              total |-> Cardinality(DOMAIN c.messages),
              shown |-> Shown(c.messages, c.committed, d), by |-> h]}
    BY DEF Present
  <1> DEFINE sound == Valid(c.sig, c.pk, c.messages, c.committed, c.nym_secret, c.factor)
             total == Cardinality(DOMAIN c.messages)
             shown == Shown(c.messages, c.committed, d)
             psd == Pseudonym(c.nym_secret, r.scope)
             proof == [sound |-> sound, pk |-> c.pk, ph |-> r.ph, pseudonym |-> psd,
                       total |-> total, shown |-> shown]
             q == [proof |-> proof, pseudonym |-> psd, total |-> total,
                   shown |-> shown, by |-> h]
  <1>2. /\ d.messages \subseteq DOMAIN c.messages
        /\ d.committed \subseteq DOMAIN c.committed
        /\ presentations' = presentations \cup {q}
    <2> HIDE DEF sound, total, shown, psd
    <2>1. bbs_proof_gen_with_nym(c.pk, c.sig, r.ph, c.nym_secret, r.scope,
                                 c.messages, c.committed, d, c.factor)
          = IF d.messages \subseteq DOMAIN c.messages
               /\ d.committed \subseteq DOMAIN c.committed
            THEN {[proof |-> proof, pseudonym |-> psd]} ELSE {}
      BY DEF bbs_proof_gen_with_nym, sound, total, shown, psd
    <2>2. PICK p \in bbs_proof_gen_with_nym(c.pk, c.sig, r.ph, c.nym_secret, r.scope,
                                           c.messages, c.committed, d, c.factor) :
            presentations' = presentations \cup
              {[proof |-> p.proof, pseudonym |-> p.pseudonym, total |-> total,
                shown |-> shown, by |-> h]}
      BY <1>1 DEF total, shown
    <2> HIDE DEF proof
    <2>3. /\ d.messages \subseteq DOMAIN c.messages
          /\ d.committed \subseteq DOMAIN c.committed
          /\ p = [proof |-> proof, pseudonym |-> psd]
      BY <2>1, <2>2
    <2>4. p.proof = proof /\ p.pseudonym = psd BY <2>3
    <2> QED BY <2>2, <2>3, <2>4
  <1>3. PICK a \in answers, n \in nym[h] :
          /\ a.sig = c.sig /\ a.messages = c.messages
          /\ c.sig.sk = c.pk /\ c.sig.pk = c.pk
          /\ c.sig.commitment.nym = n
          /\ c.nym_secret = NymSecret(n, c.sig.entropy)
    BY <1>0 DEF Wallets, WalletGenuine
  <1>4. c.sig.commitment.committed = c.committed
    BY <1>0 DEF Wallets, WalletValid, Valid
  <1> DEFINE m == [secret |-> NymSecret(a.sig.commitment.nym, a.sig.entropy),
                   pk |-> a.sig.pk, messages |-> a.messages,
                   committed |-> a.sig.commitment.committed]
  <1>5. m \in Entered BY <1>3, EnteredByAnswer
  <1>6. /\ m.secret = c.nym_secret /\ m.pk = c.pk
        /\ m.messages = c.messages /\ m.committed = c.committed
    BY <1>3, <1>4
  <1>7. /\ Registry!PartOf(shown.messages, c.messages)
        /\ Registry!PartOf(shown.committed, c.committed)
    BY <1>2 DEF Shown, Registry!PartOf
  <1>8. psd.scope = r.scope /\ psd.secret = c.nym_secret
        /\ psd = [secret |-> c.nym_secret, scope |-> r.scope]
    BY DEF Pseudonym
  <1>9. /\ q.by = h /\ q.pseudonym = psd /\ q.shown = shown
        /\ q.proof.pseudonym = psd /\ q.proof.shown = shown
        /\ q.proof.ph = r.ph /\ q.proof.pk = c.pk
    <2> HIDE DEF sound, total, shown, psd
    <2> QED OBVIOUS
  <1> HIDE DEF q, psd, shown, m
  <1>10. Registry!Speaks([pk |-> q.proof.pk, pseudonym |-> q.pseudonym,
                          request |-> [scope |-> q.pseudonym.scope],
                          shown |-> q.shown], m)
    BY <1>6, <1>7, <1>8, <1>9 DEF Registry!Speaks
  <1>11. n \in drawn[h] /\ psd.secret = NymSecret(n, a.sig.entropy)
    BY <1>0, <1>3, <1>8 DEF Owners
  <1>12. a.sig.entropy \in Entropies BY <1>0 DEF TypeOK, Answers, Signatures
  <1> QED BY <1>2, <1>5, <1>8, <1>9, <1>10, <1>11, <1>12

LEMMA PresentIInv ==
    ASSUME IInv, NEW h \in Holders, Present(h)
    PROVE  IInv'
  <1>0. TypeOK /\ Owners /\ PendingSent /\ Network /\ Wallets /\ Claims BY IInvParts
  <1>1. UNCHANGED <<drawn, nym, pending, wallet, issuer, published, commitments,
                    answers, accepted>>
    BY DEF Present, holder, keys
  <1>4. PICK q :
             /\ presentations' = presentations \cup {q}
             /\ q.by = h
             /\ q.pseudonym = q.proof.pseudonym /\ q.shown = q.proof.shown
             /\ \E r \in Requests : q.proof.ph = r.ph /\ q.pseudonym.scope = r.scope
             /\ \E m \in Entered :
                  Registry!Speaks([pk |-> q.proof.pk, pseudonym |-> q.pseudonym,
                                   request |-> [scope |-> q.pseudonym.scope],
                                   shown |-> q.shown], m)
             /\ \E n \in drawn[h], x \in Entropies : q.pseudonym.secret = NymSecret(n, x)
    BY Presented
  <1>5. presentations' = presentations \cup {q} BY <1>4
  <1>6. TypeOK' BY <1>0, <1>1, <1>4, <1>5 DEF TypeOK
  <1>7. Owners' /\ PendingSent' BY <1>0, <1>1 DEF Owners, PendingSent
  <1>8. Network' BY <1>0, <1>1, NetworkKept
  <1>9. Wallets' BY <1>0, <1>1, WalletsKept
  <1>10. Entered' = Entered BY <1>1 DEF Entered
  <1>11. PresentationsTrue'
    <2> SUFFICES ASSUME NEW x \in presentations \cup {q}
                 PROVE  (PresentationsTrue!(x))'
      BY <1>5 DEF PresentationsTrue
    <2>1. CASE x \in presentations
      BY <1>0, <1>1, <1>10, <2>1
      DEF Claims, PresentationsTrue, Registry!Speaks, Registry!PartOf
    <2>2. CASE x = q
      BY <1>1, <1>4, <1>10, <2>2 DEF Registry!Speaks, Registry!PartOf
    <2> QED BY <2>1, <2>2
  <1>12. Accountable'
    BY <1>0, <1>1, <1>5, <1>10
    DEF Claims, Accountable, Registry!Speaks, Registry!PartOf
  <1>13. AcceptedTrue' BY <1>0, <1>1 DEF Claims, AcceptedTrue
  <1> QED BY <1>6, <1>7, <1>8, <1>9, <1>11, <1>12, <1>13
          DEF IInv, Network, Wallets, Claims

\* What is accepted is the presentation its proof is of.
LEMMA Taken ==
    ASSUME IInv, Verify
    PROVE  \E e :
             /\ accepted' = accepted \cup {e}
             /\ e.by \in Holders /\ e.request \in Requests
             /\ e.pseudonym.scope = e.request.scope
             /\ \E m \in Entered : Registry!Speaks(e, m)
             /\ \E p \in presentations :
                  /\ p.by = e.by /\ p.shown = e.shown /\ p.pseudonym = e.pseudonym
                  /\ p.proof.ph = e.request.ph
             /\ \E n \in drawn[e.by], x \in Entropies :
                  e.pseudonym.secret = NymSecret(n, x)
  <1>0. TypeOK /\ Claims BY IInvParts
  <1>1. PICK p \in presentations, q \in presentations, r \in Requests, pk \in published :
          /\ bbs_proof_verify_with_nym(pk, p.proof, q.pseudonym, r.ph, r.scope,
                                       q.total, q.shown)
          /\ accepted' = accepted \cup
               {[request |-> r, pk |-> pk, pseudonym |-> q.pseudonym, shown |-> q.shown,
                 by |-> p.by]}
    BY DEF Verify
  <1> DEFINE e == [request |-> r, pk |-> pk, pseudonym |-> q.pseudonym,
                   shown |-> q.shown, by |-> p.by]
  <1>2. /\ p.proof.pk = pk /\ p.proof.ph = r.ph
        /\ p.proof.pseudonym = q.pseudonym /\ q.pseudonym.scope = r.scope
        /\ p.proof.shown = q.shown
    BY <1>1 DEF bbs_proof_verify_with_nym
  <1>3. /\ p.pseudonym = q.pseudonym /\ p.shown = q.shown /\ p.by \in Holders
        /\ \E n \in drawn[p.by], x \in Entropies : p.pseudonym.secret = NymSecret(n, x)
    BY <1>0, <1>2 DEF Claims, PresentationsTrue, TypeOK
  <1>4. PICK m \in Entered :
          Registry!Speaks([pk |-> p.proof.pk, pseudonym |-> p.pseudonym,
                           request |-> [scope |-> p.pseudonym.scope],
                           shown |-> p.shown], m)
    BY <1>0 DEF Claims, PresentationsTrue
  <1>5. /\ pk = m.pk
        /\ q.pseudonym = [secret |-> m.secret, scope |-> r.scope]
        /\ Registry!PartOf(q.shown.messages, m.messages)
        /\ Registry!PartOf(q.shown.committed, m.committed)
    BY <1>2, <1>3, <1>4 DEF Registry!Speaks
  <1>6. Registry!Speaks(e, m) BY <1>5 DEF Registry!Speaks
  <1>7. /\ e.by = p.by /\ e.shown = q.shown /\ e.pseudonym = q.pseudonym
        /\ e.request = r
    OBVIOUS
  <1>8. accepted' = accepted \cup {e} BY <1>1
  <1> HIDE DEF e
  <1> QED BY <1>2, <1>3, <1>6, <1>7, <1>8

LEMMA VerifyIInv == ASSUME IInv, Verify PROVE IInv'
  <1>0. TypeOK /\ Owners /\ PendingSent /\ Network /\ Wallets /\ Claims BY IInvParts
  <1>1. UNCHANGED <<drawn, nym, pending, wallet, issuer, published, commitments,
                    answers, presentations>>
    BY DEF Verify, holder, keys
  <1>2. PICK e :
             /\ accepted' = accepted \cup {e}
             /\ e.by \in Holders /\ e.request \in Requests
             /\ e.pseudonym.scope = e.request.scope
             /\ \E m \in Entered : Registry!Speaks(e, m)
             /\ \E p \in presentations :
                  /\ p.by = e.by /\ p.shown = e.shown /\ p.pseudonym = e.pseudonym
                  /\ p.proof.ph = e.request.ph
             /\ \E n \in drawn[e.by], x \in Entropies :
                  e.pseudonym.secret = NymSecret(n, x)
    BY Taken
  <1>3. TypeOK' BY <1>0, <1>1, <1>2 DEF TypeOK
  <1>4. Owners' /\ PendingSent' BY <1>0, <1>1 DEF Owners, PendingSent
  <1>5. Network' BY <1>0, <1>1, NetworkKept
  <1>6. Wallets' BY <1>0, <1>1, WalletsKept
  <1>7. Entered' = Entered BY <1>1 DEF Entered
  <1>8. PresentationsTrue'
    BY <1>0, <1>1, <1>7
    DEF Claims, PresentationsTrue, Registry!Speaks, Registry!PartOf
  <1>9. Accountable'
    <2> SUFFICES ASSUME NEW x \in accepted \cup {e} PROVE (Accountable!(x))'
      BY <1>2 DEF Accountable
    <2>1. CASE x \in accepted
      BY <1>0, <1>1, <1>7, <2>1
      DEF Claims, Accountable, Registry!Speaks, Registry!PartOf
    <2>2. CASE x = e
      BY <1>1, <1>2, <1>7, <2>2 DEF Registry!Speaks, Registry!PartOf
    <2> QED BY <2>1, <2>2
  <1>10. AcceptedTrue' BY <1>0, <1>1, <1>2 DEF Claims, AcceptedTrue
  <1> QED BY <1>3, <1>4, <1>5, <1>6, <1>8, <1>9, <1>10
          DEF IInv, Network, Wallets, Claims

LEMMA ForgetIInv ==
    ASSUME IInv, NEW h \in Holders, Forget(h)
    PROVE  IInv'
  <1> USE DEF Forget, keys
  <1>0. TypeOK /\ Owners /\ PendingSent /\ Network /\ Wallets /\ Claims BY IInvParts
  <1>1. TypeOK' BY <1>0 DEF TypeOK
  <1>2. Owners' BY <1>0 DEF Owners, TypeOK
  <1>3. PendingSent' BY <1>0 DEF PendingSent, TypeOK
  <1>4. Network' BY <1>0, NetworkKept
  <1>5. Wallets' BY <1>0 DEF Wallets, WalletGenuine, WalletValid, TypeOK
  <1>6. Claims' BY <1>0, ClaimsKept
  <1> QED BY <1>1, <1>2, <1>3, <1>4, <1>5, <1>6 DEF IInv, Network, Wallets, Claims

LEMMA InstallIInv ==
    ASSUME IInv, InstallSecretKey \/ InstallPublicKey
    PROVE  IInv'
  <1>0. TypeOK /\ Owners /\ PendingSent /\ Network /\ Wallets /\ Claims BY IInvParts
  <1>1. /\ UNCHANGED <<drawn, nym, pending, wallet, commitments, answers,
                       presentations, accepted>>
        /\ issuer' \in [sk : Keys, pk : Keys]
        /\ published \subseteq published' /\ published' \subseteq Keys
    BY <1>0 DEF InstallSecretKey, InstallPublicKey, holder, TypeOK
  <1>2. TypeOK' BY <1>0, <1>1 DEF TypeOK
  <1>3. Owners' /\ PendingSent' BY <1>0, <1>1 DEF Owners, PendingSent
  <1>4. Network' BY <1>0, <1>1, NetworkKept
  <1>5. Wallets' BY <1>0, <1>1, WalletsKept
  <1>6. Claims' BY <1>0, <1>1, ClaimsKept
  <1> QED BY <1>2, <1>3, <1>4, <1>5, <1>6 DEF IInv, Network, Wallets, Claims

LEMMA NextIInv == IInv /\ [Next]_vars => IInv'
  <1> SUFFICES ASSUME IInv, [Next]_vars PROVE IInv' OBVIOUS
  <1>1. CASE UNCHANGED vars
    <2>0. TypeOK /\ Owners /\ PendingSent /\ Network /\ Wallets /\ Claims BY IInvParts
    <2>1. UNCHANGED <<drawn, nym, pending, wallet, issuer, published, commitments,
                      answers, presentations, accepted>>
      BY <1>1 DEF vars, holder, keys
    <2>2. TypeOK' BY <2>0, <2>1 DEF TypeOK
    <2>3. Owners' /\ PendingSent' BY <2>0, <2>1 DEF Owners, PendingSent
    <2>4. Network' BY <2>0, <2>1, NetworkKept
    <2>5. Wallets' BY <2>0, <2>1, WalletsKept
    <2>6. Claims' BY <2>0, <2>1, ClaimsKept
    <2> QED BY <2>2, <2>3, <2>4, <2>5, <2>6 DEF IInv, Network, Wallets, Claims
  <1>2. CASE Next
    BY <1>2, GenerateIInv, CommitIInv, ReceiveIInv, PresentIInv, ForgetIInv,
       BlindSignIInv, VerifyIInv, InstallIInv
    DEF Next
  <1> QED BY <1>1, <1>2

\* The inductive invariant holds of every run.
THEOREM InvariantHolds == Spec => []IInv
  BY InitIInv, NextIInv, PTL DEF Spec

-----------------------------------------------------------------------------
(* What follows from it. *)

\* Every party keeps and sends records of the kinds it should.
THEOREM TypeCorrect == Spec => []TypeOK
  <1>1. IInv => TypeOK BY DEF IInv
  <1> QED BY <1>1, InvariantHolds, PTL

\* Only genuine answers to the holder's own commitments enter its wallet.
THEOREM WalletsGenuine == Spec => []WalletGenuine
  <1>1. IInv => WalletGenuine BY DEF IInv
  <1> QED BY <1>1, InvariantHolds, PTL

\* For every request and every choice of messages that it has, a credential in a
\* wallet gives a proof that verifies.
THEOREM Presentable == Spec => []AlwaysPresentable
  <1>1. IInv => AlwaysPresentable
    <2> SUFFICES ASSUME IInv, NEW h \in Holders, NEW c \in wallet[h],
                        NEW r \in Requests, NEW d \in Disclosures,
                        d.messages \subseteq DOMAIN c.messages,
                        d.committed \subseteq DOMAIN c.committed
                 PROVE  \E p \in bbs_proof_gen_with_nym(c.pk, c.sig, r.ph, c.nym_secret,
                                   r.scope, c.messages, c.committed, d, c.factor) :
                          bbs_proof_verify_with_nym(c.pk, p.proof, p.pseudonym, r.ph,
                            r.scope, Cardinality(DOMAIN c.messages),
                            Shown(c.messages, c.committed, d))
      BY DEF AlwaysPresentable
    <2> DEFINE sound == Valid(c.sig, c.pk, c.messages, c.committed, c.nym_secret, c.factor)
               total == Cardinality(DOMAIN c.messages)
               shown == Shown(c.messages, c.committed, d)
               psd == Pseudonym(c.nym_secret, r.scope)
               proof == [sound |-> sound, pk |-> c.pk, ph |-> r.ph,
                         pseudonym |-> psd, total |-> total, shown |-> shown]
               p == [proof |-> proof, pseudonym |-> psd]
    <2>1. sound BY DEF IInv, WalletValid
    <2>2. psd.scope = r.scope BY DEF Pseudonym
    <2>3. p \in bbs_proof_gen_with_nym(c.pk, c.sig, r.ph, c.nym_secret, r.scope,
                                       c.messages, c.committed, d, c.factor)
      BY DEF bbs_proof_gen_with_nym
    <2> HIDE DEF sound, total, shown, psd
    <2>4. bbs_proof_verify_with_nym(c.pk, p.proof, p.pseudonym, r.ph, r.scope, total, shown)
      BY <2>1, <2>2 DEF bbs_proof_verify_with_nym
    <2> HIDE DEF p
    <2> QED BY <2>3, <2>4 DEF total, shown
  <1> QED BY <1>1, InvariantHolds, PTL

\* Only the answer to the latest attempt fills a wallet.
THEOREM LatestAttempt == Spec => LatestAttemptOnly
  <1>1. ASSUME IInv, [Next]_vars, NEW h \in Holders, NEW c \in wallet'[h] \ wallet[h]
        PROVE  c.sig.commitment \in pending[h]
    <2>0. wallet \in [Holders -> SUBSET Credentials] BY <1>1 DEF IInv, TypeOK
    <2>1. ASSUME NEW g \in Holders, Receive(g) PROVE c.sig.commitment \in pending[h]
      <3>1. PICK a \in answers, b \in answers, d \in pending[g], pk \in published :
               LET s == NymSecret(d.nym, b.entropy) IN
               /\ wallet' = [wallet EXCEPT ![g] =
                    {[pk |-> pk, sig |-> a.sig, messages |-> b.messages,
                      committed |-> d.committed, factor |-> d.factor, nym_secret |-> s]}]
               /\ a.sig.commitment = d
        BY <1>1, <2>1, Received
      <3>2. g = h BY <1>1, <2>0, <3>1
      <3>3. c.sig = a.sig BY <1>1, <2>0, <3>1, <3>2
      <3> QED BY <3>1, <3>2, <3>3
    <2>2. ASSUME NEW g \in Holders, Forget(g) PROVE FALSE
      BY <1>1, <2>0, <2>2 DEF Forget
    <2>3. CASE UNCHANGED wallet BY <1>1, <2>3
    <2> QED BY <1>1, <2>1, <2>2, <2>3
        DEF Next, vars, holder, bbs_generate_nym_secret, Commit, BlindSign, Present,
            Verify, InstallSecretKey, InstallPublicKey
  <1>2. IInv /\ [Next]_vars =>
          [\A h \in Holders : \A c \in wallet'[h] \ wallet[h] :
             c.sig.commitment \in pending[h]]_vars
    BY <1>1
  <1> QED BY <1>2, InvariantHolds, PTL DEF Spec, LatestAttemptOnly

\* Verifiers accept what was made for the request and is true of a member.
THEOREM AccountableHolds == Spec => []Accountable
  <1>1. IInv => Accountable BY DEF IInv
  <1> QED BY <1>1, InvariantHolds, PTL

\* One pseudonym is one holder's, in one scope.
THEOREM NobodyMistaken == Spec => []NoFalseReplay
  <1>1. IInv => NoFalseReplay
    <2> SUFFICES ASSUME IInv, NEW e \in accepted, NEW f \in accepted,
                        e.pseudonym = f.pseudonym
                 PROVE  e.by = f.by /\ e.request.scope = f.request.scope
      BY DEF NoFalseReplay
    <2>0. /\ drawn \in [Holders -> SUBSET Nyms]
          /\ e.by \in Holders /\ f.by \in Holders
      BY DEF IInv, TypeOK
    <2>1. PICK m \in drawn[e.by], x \in Entropies : e.pseudonym.secret = NymSecret(m, x)
      BY DEF IInv, AcceptedTrue
    <2>2. PICK n \in drawn[f.by], y \in Entropies : f.pseudonym.secret = NymSecret(n, y)
      BY DEF IInv, AcceptedTrue
    <2>3. m = n BY <2>0, <2>1, <2>2, HalvesDistinct
    <2>4. e.by = f.by BY <2>0, <2>1, <2>2, <2>3 DEF IInv, Owners
    <2>5. e.request.scope = f.request.scope BY DEF IInv, AcceptedTrue
    <2> QED BY <2>4, <2>5
  <1> QED BY <1>1, InvariantHolds, PTL

-----------------------------------------------------------------------------
(* The refinement of PseudonymRegistry. *)

LEMMA EnrollmentStep == IInv /\ [Next]_vars => [Registry!Next]_(Registry!vars)
  <1> SUFFICES ASSUME IInv, [Next]_vars PROVE [Registry!Next]_(Registry!vars)
    OBVIOUS
  <1>1. CASE BlindSign
    <2>1. PICK c \in commitments, e \in Entropies, m \in Profiles :
            answers' = answers \cup
              {[sig |-> bbs_blind_sign_with_nym(issuer.sk, issuer.pk, c, e, m),
                entropy |-> e, messages |-> m]}
      BY <1>1 DEF BlindSign
    <2> DEFINE sig == bbs_blind_sign_with_nym(issuer.sk, issuer.pk, c, e, m)
               a == [sig |-> sig, entropy |-> e, messages |-> m]
               who == [secret |-> NymSecret(sig.commitment.nym, sig.entropy),
                       pk |-> sig.pk, messages |-> m,
                       committed |-> sig.commitment.committed]
    <2>2. a.sig = sig /\ a.messages = m /\ answers' = answers \cup {a} BY <2>1
    <2> HIDE DEF a, sig
    <2>3. CASE sig.sk = sig.pk
      <3>1. Entered' = Entered \cup {who} BY <2>2, <2>3 DEF Entered
      <3>2. UNCHANGED accepted BY <1>1 DEF BlindSign
      <3>3. who \in Entered' BY <3>1
      <3> HIDE DEF who
      <3> QED BY <3>1, <3>2, <3>3 DEF Registry!Next, Registry!Enter
    <2>4. CASE sig.sk # sig.pk
      <3>1. Entered' = Entered BY <2>2, <2>4 DEF Entered
      <3> QED BY <1>1, <3>1 DEF BlindSign, Registry!vars
    <2> QED BY <2>3, <2>4
  <1>2. CASE Verify
    <2>1. Entered' = Entered BY <1>2 DEF Verify, Entered
    <2>2. PICK e : /\ accepted' = accepted \cup {e}
                   /\ \E m \in Entered : Registry!Speaks(e, m)
      BY <1>2, Taken
    <2>3. Registry!Accept(e) BY <2>1, <2>2 DEF Registry!Accept
    <2> QED BY <2>2, <2>3 DEF Registry!Next
  <1>3. CASE UNCHANGED <<answers, accepted>>
    BY <1>3 DEF Registry!vars, Entered
  <1> QED BY <1>1, <1>2, <1>3
      DEF Next, vars, holder, keys, bbs_generate_nym_secret, Commit, Receive, Present,
          Forget, InstallSecretKey, InstallPublicKey

\* Holders, issuer and verifiers together keep the promise of the registry.
THEOREM RegistryRefined == Spec => RefinesRegistry
  <1>1. Init => Registry!Init BY DEF Init, Registry!Init, Entered
  <1> QED BY <1>1, EnrollmentStep, InvariantHolds, PTL
          DEF Spec, RefinesRegistry, Registry!Spec
=============================================================================
