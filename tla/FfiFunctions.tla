------------------------------ MODULE FfiFunctions ------------------------------
(***************************************************************************)
(* The extern "C" functions of src/c_ffi.rs that call the library: the     *)
(* kind of each out buffer, the inputs that must not be null or empty, the *)
(* ones that may, whether the answer goes to valid_out, and the code       *)
(* returned for a library error.                                           *)
(***************************************************************************)

Op(name, outs, required, optional, answers, err) ==
    [name |-> name, outs |-> outs, required |-> required, optional |-> optional,
     answers |-> answers, err |-> err]

bbs_ffi_generate_keypair ==
    Op("generate_keypair", {"sk", "pk"}, {}, {}, FALSE, "KeygenFailed")
bbs_ffi_sign ==
    Op("sign", {"sig"}, {"sk", "pk"}, {"header", "msgs"}, FALSE, "SignFailed")
\* Seeded bug: the header is asked for like the key and the signature.
VerifyNeedsHeader ==
    Op("verify", {}, {"pk", "sig", "header"}, {"msgs"}, TRUE, "VerifyFailed")
bbs_ffi_verify ==
    Op("verify", {}, {"pk", "sig"}, {"header", "msgs"}, TRUE, "VerifyFailed")
bbs_ffi_proof_gen ==
    Op("proof_gen", {"proof"}, {"pk", "sig"},
       {"header", "ph", "msgs", "disclosed_indices"}, FALSE, "ProofGenFailed")
bbs_ffi_proof_verify ==
    Op("proof_verify", {}, {"pk", "proof"},
       {"header", "ph", "disclosed_msgs", "disclosed_indices"}, TRUE, "ProofVerifyFailed")
bbs_ffi_generate_nym_secret ==
    Op("generate_nym_secret", {"secret"}, {}, {}, FALSE, "KeygenFailed")
bbs_ffi_commit_with_nym ==
    Op("commit_with_nym", {"commitment", "blind_factor"}, {"prover_nym"},
       {"committed_msgs"}, FALSE, "CommitmentFailed")
bbs_ffi_blind_sign_with_nym ==
    Op("blind_sign_with_nym", {"sig"}, {"sk", "pk", "signer_nym"},
       {"commitment", "header", "msgs"}, FALSE, "SignFailed")
bbs_ffi_verify_blind_sign_with_nym ==
    Op("verify_blind_sign_with_nym", {"nym_secret"},
       {"pk", "blind_sig", "prover_nym", "signer_nym", "blind_factor"},
       {"header", "msgs", "committed_msgs"}, FALSE, "VerifyFailed")
bbs_ffi_proof_gen_with_nym ==
    Op("proof_gen_with_nym", {"proof", "pseudonym"},
       {"pk", "sig", "nym_secret", "scope"},
       {"header", "ph", "msgs", "committed_msgs", "disclosed_indices",
        "disclosed_commitment_indices", "blind_factor"}, FALSE, "ProofGenFailed")
bbs_ffi_proof_verify_with_nym ==
    Op("proof_verify_with_nym", {}, {"pk", "proof", "pseudonym", "scope"},
       {"header", "ph", "disclosed_msgs", "disclosed_committed_msgs",
        "disclosed_indices", "disclosed_commitment_indices"}, TRUE, "ProofVerifyFailed")

Functions ==
    {bbs_ffi_generate_keypair, bbs_ffi_sign, bbs_ffi_verify, bbs_ffi_proof_gen,
     bbs_ffi_proof_verify, bbs_ffi_generate_nym_secret, bbs_ffi_commit_with_nym,
     bbs_ffi_blind_sign_with_nym, bbs_ffi_verify_blind_sign_with_nym,
     bbs_ffi_proof_gen_with_nym, bbs_ffi_proof_verify_with_nym}

\* bbs_generate_nym_secret has no error path.
Infallible == {bbs_ffi_generate_nym_secret}

NoOp == Op("none", {}, {}, {}, FALSE, "Ok")

Kinds == UNION {op.outs : op \in Functions}
Codes == {"Ok", "InvalidInput"} \cup {op.err : op \in Functions}
=============================================================================
