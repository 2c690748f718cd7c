-------------------------------- MODULE ApiCalls --------------------------------
(***************************************************************************)
(* One call of a function of the scheme API (src/lib.rs), made with the    *)
(* same arguments through UniFFI and through the C layer: which arguments  *)
(* are looked at in which order, and what each caller is told.             *)
(*                                                                         *)
(* Of an argument it matters only whether it is what the call needs        *)
(* ("good"), well-formed but not what the other arguments are about        *)
(* ("other"), of the right length but no encoding ("noise"), of another    *)
(* length ("short"), or null or empty ("missing").                         *)
(***************************************************************************)
EXTENDS Naturals, Sequences, FiniteSets, FfiFunctions

CONSTANT MaxFaults   \* how many arguments of one call are not good

ASSUME FaultAssumption == MaxFaults \in Nat

VARIABLES
    op,      \* the function, as the C layer declares it
    arg,     \* the condition of each argument
    works,   \* the primitive of zkryptium says yes, given arguments it can read
    call     \* where the call is, through each interface

vars == <<op, arg, works, call>>

-----------------------------------------------------------------------------
(* The functions of lib.rs: their checks, in order, and their error.       *)

Decodable == {"good", "other"}
RightLength == Decodable \cup {"noise"}

\* try_into a fixed array, or a comparison of lengths.
Length(a) == [arg |-> a, passes |-> RightLength]
\* from_bytes, which for slices includes the length.
Parse(a) == [arg |-> a, passes |-> Decodable]

Fn(checks, variant) == [checks |-> checks, variant |-> variant]

bbs_generate_keypair == Fn(<<>>, "KeyGenerationFailed")
bbs_sign == Fn(<<Parse("sk"), Parse("pk")>>, "SigningFailed")
\* Seeded bug: the signature is left to the primitive.
VerifyUnparsed == Fn(<<Parse("pk"), Length("sig")>>, "VerificationFailed")
bbs_verify == Fn(<<Parse("pk"), Length("sig"), Parse("sig")>>, "VerificationFailed")
bbs_proof_gen == Fn(<<Parse("pk")>>, "ProofGenFailed")
bbs_proof_verify == Fn(<<Parse("pk"), Parse("proof")>>, "ProofVerifyFailed")
bbs_generate_nym_secret == Fn(<<>>, "none")
bbs_commit_with_nym ==
    Fn(<<Length("prover_nym"), Parse("prover_nym")>>, "CommitmentFailed")
bbs_blind_sign_with_nym ==
    Fn(<<Parse("sk"), Parse("pk"), Length("signer_nym"), Parse("signer_nym")>>,
       "SigningFailed")
bbs_verify_blind_sign_with_nym ==
    Fn(<<Parse("pk"), Length("blind_sig"), Parse("blind_sig"),
         Length("prover_nym"), Parse("prover_nym"),
         Length("signer_nym"), Parse("signer_nym"),
         Length("blind_factor"), Parse("blind_factor")>>, "VerificationFailed")
bbs_proof_gen_with_nym ==
    Fn(<<Parse("pk"), Length("nym_secret"), Parse("nym_secret"),
         Length("blind_factor"), Parse("blind_factor")>>, "ProofGenFailed")
bbs_proof_verify_with_nym ==
    Fn(<<Parse("pk"), Parse("proof"), Parse("pseudonym")>>, "ProofVerifyFailed")

Library ==
    [generate_keypair |-> bbs_generate_keypair, sign |-> bbs_sign, verify |-> bbs_verify,
     proof_gen |-> bbs_proof_gen, proof_verify |-> bbs_proof_verify,
     generate_nym_secret |-> bbs_generate_nym_secret,
     commit_with_nym |-> bbs_commit_with_nym,
     blind_sign_with_nym |-> bbs_blind_sign_with_nym,
     verify_blind_sign_with_nym |-> bbs_verify_blind_sign_with_nym,
     proof_gen_with_nym |-> bbs_proof_gen_with_nym,
     proof_verify_with_nym |-> bbs_proof_verify_with_nym]

\* The code of each variant of FfiError that a library function returns.
CodeOf ==
    [KeyGenerationFailed |-> "KeygenFailed", SigningFailed |-> "SignFailed",
     VerificationFailed |-> "VerifyFailed", ProofGenFailed |-> "ProofGenFailed",
     ProofVerifyFailed |-> "ProofVerifyFailed", CommitmentFailed |-> "CommitmentFailed"]

-----------------------------------------------------------------------------
(* Arguments. *)

\* The arguments that have an encoding; the others are any bytes or indices.
Encoded ==
    {"sk", "pk", "sig", "proof", "commitment", "prover_nym", "signer_nym", "blind_sig",
     "blind_factor", "nym_secret", "pseudonym"}

Params(o) == o.required \cup o.optional

Faults(a) ==
    IF a \in Encoded THEN {"other", "noise", "short", "missing"} ELSE {"other", "missing"}

Missing == {a \in op.required : arg[a] = "missing"}

Checks == Library[op.name].checks

\* What the primitive gets as bytes, and decodes itself.
Raw == {a \in Params(op) \cap Encoded : \A k \in DOMAIN Checks : Checks[k].arg # a}

\* A commitment may be absent.
Readable ==
    \A a \in Raw : arg[a] \in Decodable \/ (a = "commitment" /\ arg[a] = "missing")

Interfaces == {"UniFFI", "C"}

Begin == [pc |-> "enter", next |-> 1, code |-> "none", yes |-> FALSE]
Done(code, yes) == [pc |-> "done", next |-> 0, code |-> code, yes |-> yes]

\* How interface i names an error of the library.
ErrorCode(i) == IF i = "C" THEN op.err ELSE Library[op.name].variant

Init ==
    /\ op \in Functions
    /\ \E F \in SUBSET Params(op) :
         /\ Cardinality(F) <= MaxFaults
         /\ \E fault \in [F -> UNION {Faults(a) : a \in F}] :
              /\ \A a \in F : fault[a] \in Faults(a)
              /\ arg = [a \in Params(op) |-> IF a \in F THEN fault[a] ELSE "good"]
    /\ works \in BOOLEAN
    \* A verification says yes to what belongs together and to nothing else;
    \* an empty input may be just what was signed.
    /\ op.answers /\ works => \A a \in Params(op) : arg[a] # "other"
    /\ op.answers /\ ~works => \E a \in Params(op) : arg[a] # "good"
    /\ op \in Infallible => works
    /\ call = [i \in Interfaces |-> Begin]

-----------------------------------------------------------------------------
(* The steps of a call through interface i. *)

Finish(i, code, yes) == call' = [call EXCEPT ![i] = Done(code, yes)]

\* The C layer asks for its required inputs; UniFFI passes everything on.
RejectMissing(i) ==
    /\ call[i].pc = "enter"
    /\ i = "C" /\ Missing # {}
    /\ Finish(i, "InvalidInput", FALSE)
    /\ UNCHANGED <<op, arg, works>>

\* Seeded bug: an input that the library requires is not asked for.
EnterLibraryUnasked(i) ==
    /\ call[i].pc = "enter"
    /\ call' = [call EXCEPT ![i].pc = "checks"]
    /\ UNCHANGED <<op, arg, works>>

\* A missing optional input becomes an empty Vec.
EnterLibrary(i) ==
    /\ call[i].pc = "enter"
    /\ i = "C" => Missing = {}
    /\ call' = [call EXCEPT ![i].pc = "checks"]
    /\ UNCHANGED <<op, arg, works>>

Checking(i) == call[i].pc = "checks" /\ call[i].next <= Len(Checks)

Passes(i) == arg[Checks[call[i].next].arg] \in Checks[call[i].next].passes

\* Seeded bug: a passed check skips the one after it.
CheckPassesTwice(i) ==
    /\ Checking(i)
    /\ Passes(i)
    /\ call' = [call EXCEPT ![i].next = @ + 2]
    /\ UNCHANGED <<op, arg, works>>

CheckPasses(i) ==
    /\ Checking(i)
    /\ Passes(i)
    /\ call' = [call EXCEPT ![i].next = @ + 1]
    /\ UNCHANGED <<op, arg, works>>

\* Every check has the function's own error, wrong lengths included.
CheckFails(i) ==
    /\ Checking(i)
    /\ ~Passes(i)
    /\ Finish(i, ErrorCode(i), FALSE)
    /\ UNCHANGED <<op, arg, works>>

Checked(i) == call[i].pc = "checks" /\ call[i].next > Len(Checks)

\* What does not verify is an answer.
Answer(i) ==
    /\ Checked(i)
    /\ op.answers
    /\ Finish(i, "Ok", works)
    /\ UNCHANGED <<op, arg, works>>

Compute(i) ==
    /\ Checked(i)
    /\ ~op.answers
    /\ Finish(i, IF works /\ Readable THEN "Ok" ELSE ErrorCode(i), FALSE)
    /\ UNCHANGED <<op, arg, works>>

Next ==
    \E i \in Interfaces :
        \/ RejectMissing(i) \/ EnterLibrary(i) \/ CheckPasses(i) \/ CheckFails(i)
        \/ Answer(i) \/ Compute(i)

Spec == Init /\ [][Next]_vars

-----------------------------------------------------------------------------
(* Properties. *)

Variants == {Library[o.name].variant : o \in Functions}

TypeOK ==
    /\ op \in Functions
    /\ DOMAIN arg = Params(op)
    /\ \A a \in Params(op) : arg[a] \in Faults(a) \cup {"good"}
    /\ works \in BOOLEAN
    /\ call \in [Interfaces ->
                   [pc : {"enter", "checks", "done"}, next : Nat,
                    code : Codes \cup Variants \cup {"none"}, yes : BOOLEAN]]
    /\ \A i \in Interfaces : call[i].next <= Len(Checks) + 1

EmptyScope == "scope" \in Params(op) /\ arg["scope"] = "missing"

\* An encoded argument that is null or of the wrong length; only the commitment
\* may be left out.
IllSized ==
    \E a \in Params(op) \cap Encoded :
        arg[a] = "short" \/ (arg[a] = "missing" /\ a # "commitment")

\* Two programs that make the same call, one through each interface, see the
\* same success and the same verdict - except with an empty scope, on which they
\* always part: what UniFFI does then, the C layer never does.  A failure has the
\* code of the library's error, where no argument is missing or ill-sized (for
\* those the documentation promises another code, see IllSizedIsInvalidInput).
SameSuccess ==
    (\A i \in Interfaces : call[i].pc = "done") =>
        LET c == call["C"]  u == call["UniFFI"] IN
        /\ c.code = "Ok" => u.code = "Ok" /\ c.yes = u.yes
        /\ u.code = "Ok" => (c.code = "Ok" <=> ~EmptyScope)
        /\ u.code # "Ok" /\ Missing = {} /\ ~IllSized => c.code = CodeOf[u.code]

\* src/c_ffi.rs:40: "Invalid input parameters (null pointer, wrong length, etc.)"
\* is what InvalidInput says.
IllSizedIsInvalidInput ==
    call["C"].pc = "done" /\ IllSized => call["C"].code = "InvalidInput"

\* A verification gives a verdict exactly when everything it was given can be
\* decoded: what is malformed is an error and never just "false", and a verdict
\* is "true" only if signature, key, header and messages belong together.
VerdictIffWellFormed ==
    \A i \in Interfaces :
        op.answers /\ call[i].pc = "done" =>
            /\ call[i].code = "Ok" <=>
                 /\ \A a \in Params(op) \cap Encoded : arg[a] \in Decodable
                 /\ i = "C" => ~EmptyScope
            /\ call[i].yes => \A a \in Params(op) : arg[a] # "other"

-----------------------------------------------------------------------------
(* The inductive invariant: what a caller is told is a function of the     *)
(* arguments, namely Outcome.                                              *)

Rejected == \E k \in DOMAIN Checks : arg[Checks[k].arg] \notin Checks[k].passes

Outcome(i) ==
    IF i = "C" /\ Missing # {} THEN Done("InvalidInput", FALSE)
    ELSE IF Rejected THEN Done(ErrorCode(i), FALSE)
    ELSE IF op.answers THEN Done("Ok", works)
    ELSE Done(IF works /\ Readable THEN "Ok" ELSE ErrorCode(i), FALSE)

InProgress(i) ==
    /\ call[i].pc = "enter" => call[i] = Begin
    /\ call[i].pc = "checks" =>
         /\ i = "C" => Missing = {}
         /\ call[i].next # 0 /\ call[i].code = "none" /\ ~call[i].yes
         /\ \A k \in DOMAIN Checks :
              k < call[i].next => arg[Checks[k].arg] \in Checks[k].passes
    /\ call[i].pc = "done" => call[i] = Outcome(i)

IInv ==
    /\ TypeOK
    /\ op.answers /\ works => \A a \in Params(op) : arg[a] # "other"
    /\ op \in Infallible => works
    /\ \A i \in Interfaces : InProgress(i)
=============================================================================
