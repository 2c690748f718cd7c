----------------------------- MODULE ApiCallsProofs -----------------------------
(***************************************************************************)
(* For any number of faulty arguments: what a caller is told is a function *)
(* of the arguments, both interfaces succeed alike, and a verification     *)
(* gives a verdict exactly on what it can decode.                          *)
(***************************************************************************)
EXTENDS ApiCalls, TLAPS

-----------------------------------------------------------------------------
(* Facts about the table of functions, found by going through it. *)

\* What is asked for: everything but the scope has an encoding, and a verifying
\* function decodes all that has one.
Asks(o, checks) ==
    /\ \E n \in Nat : DOMAIN checks = 1..n /\ Len(checks) = n
    /\ \A k \in DOMAIN checks :
         /\ checks[k].arg \in Params(o) \cap Encoded
         /\ checks[k].passes \in {Decodable, RightLength}
    /\ \A a \in o.required : a = "scope" \/ (a \in Encoded /\ a # "commitment")
    /\ "scope" \in o.optional => FALSE
    /\ o.answers => \A a \in Params(o) \cap Encoded :
                      \E k \in DOMAIN checks :
                        checks[k].arg = a /\ checks[k].passes = Decodable

\* What is told: the code of the C layer stands for the error of the library.
Tells(o, variant) ==
    /\ o.answers \in BOOLEAN
    /\ o.err \in Codes /\ o.err # "Ok" /\ o.err # "InvalidInput"
    /\ variant # "Ok"
    /\ o = bbs_ffi_generate_nym_secret \/ CodeOf[variant] = o.err

LEMMA FunctionsAsk ==
    ASSUME NEW o \in Functions
    PROVE  Asks(o, Library[o.name].checks)
  <1>1. CASE o = bbs_ffi_generate_keypair
    <2> DEFINE c == <<>>
    <2>1. Library[o.name].checks = c
      BY <1>1 DEF bbs_ffi_generate_keypair, bbs_generate_keypair, Op, Library, Fn
    <2>2. /\ DOMAIN c = 1..0 /\ Len(c) = 0
      BY DEF Parse, Length
    <2> HIDE DEF c
    <2>3. Asks(o, c) BY <1>1, <2>2 DEF Asks, bbs_ffi_generate_keypair, Op, Params, Encoded
    <2> QED BY <2>1, <2>3
  <1>2. CASE o = bbs_ffi_sign
    <2> DEFINE c == <<Parse("sk"), Parse("pk")>>
    <2>1. Library[o.name].checks = c
      BY <1>2 DEF bbs_ffi_sign, bbs_sign, Op, Library, Fn
    <2>2. /\ DOMAIN c = 1..2 /\ Len(c) = 2
          /\ c[1].arg = "sk" /\ c[1].passes = Decodable
          /\ c[2].arg = "pk" /\ c[2].passes = Decodable
      BY DEF Parse, Length
    <2> HIDE DEF c
    <2>3. Asks(o, c) BY <1>2, <2>2 DEF Asks, bbs_ffi_sign, Op, Params, Encoded
    <2> QED BY <2>1, <2>3
  <1>3. CASE o = bbs_ffi_verify
    <2> DEFINE c == <<Parse("pk"), Length("sig"), Parse("sig")>>
    <2>1. Library[o.name].checks = c
      BY <1>3 DEF bbs_ffi_verify, bbs_verify, Op, Library, Fn
    <2>2. /\ DOMAIN c = 1..3 /\ Len(c) = 3
          /\ c[1].arg = "pk" /\ c[1].passes = Decodable
          /\ c[2].arg = "sig" /\ c[2].passes = RightLength
          /\ c[3].arg = "sig" /\ c[3].passes = Decodable
      BY DEF Parse, Length
    <2> HIDE DEF c
    <2>3. Asks(o, c) BY <1>3, <2>2 DEF Asks, bbs_ffi_verify, Op, Params, Encoded
    <2> QED BY <2>1, <2>3
  <1>4. CASE o = bbs_ffi_proof_gen
    <2> DEFINE c == <<Parse("pk")>>
    <2>1. Library[o.name].checks = c
      BY <1>4 DEF bbs_ffi_proof_gen, bbs_proof_gen, Op, Library, Fn
    <2>2. /\ DOMAIN c = 1..1 /\ Len(c) = 1
          /\ c[1].arg = "pk" /\ c[1].passes = Decodable
      BY DEF Parse, Length
    <2> HIDE DEF c
    <2>3. Asks(o, c) BY <1>4, <2>2 DEF Asks, bbs_ffi_proof_gen, Op, Params, Encoded
    <2> QED BY <2>1, <2>3
  <1>5. CASE o = bbs_ffi_proof_verify
    <2> DEFINE c == <<Parse("pk"), Parse("proof")>>
    <2>1. Library[o.name].checks = c
      BY <1>5 DEF bbs_ffi_proof_verify, bbs_proof_verify, Op, Library, Fn
    <2>2. /\ DOMAIN c = 1..2 /\ Len(c) = 2
          /\ c[1].arg = "pk" /\ c[1].passes = Decodable
          /\ c[2].arg = "proof" /\ c[2].passes = Decodable
      BY DEF Parse, Length
    <2> HIDE DEF c
    <2>3. Asks(o, c) BY <1>5, <2>2 DEF Asks, bbs_ffi_proof_verify, Op, Params, Encoded
    <2> QED BY <2>1, <2>3
  <1>6. CASE o = bbs_ffi_generate_nym_secret
    <2> DEFINE c == <<>>
    <2>1. Library[o.name].checks = c
      BY <1>6 DEF bbs_ffi_generate_nym_secret, bbs_generate_nym_secret, Op, Library, Fn
    <2>2. /\ DOMAIN c = 1..0 /\ Len(c) = 0
      BY DEF Parse, Length
    <2> HIDE DEF c
    <2>3. Asks(o, c) BY <1>6, <2>2 DEF Asks, bbs_ffi_generate_nym_secret, Op, Params, Encoded
    <2> QED BY <2>1, <2>3
  <1>7. CASE o = bbs_ffi_commit_with_nym
    <2> DEFINE c == <<Length("prover_nym"), Parse("prover_nym")>>
    <2>1. Library[o.name].checks = c
      BY <1>7 DEF bbs_ffi_commit_with_nym, bbs_commit_with_nym, Op, Library, Fn
    <2>2. /\ DOMAIN c = 1..2 /\ Len(c) = 2
          /\ c[1].arg = "prover_nym" /\ c[1].passes = RightLength
          /\ c[2].arg = "prover_nym" /\ c[2].passes = Decodable
      BY DEF Parse, Length
    <2> HIDE DEF c
    <2>3. Asks(o, c) BY <1>7, <2>2 DEF Asks, bbs_ffi_commit_with_nym, Op, Params, Encoded
    <2> QED BY <2>1, <2>3
  <1>8. CASE o = bbs_ffi_blind_sign_with_nym
    <2> DEFINE c == <<Parse("sk"), Parse("pk"), Length("signer_nym"), Parse("signer_nym")>>
    <2>1. Library[o.name].checks = c
      BY <1>8 DEF bbs_ffi_blind_sign_with_nym, bbs_blind_sign_with_nym, Op, Library, Fn
    <2>2. /\ DOMAIN c = 1..4 /\ Len(c) = 4
          /\ c[1].arg = "sk" /\ c[1].passes = Decodable
          /\ c[2].arg = "pk" /\ c[2].passes = Decodable
          /\ c[3].arg = "signer_nym" /\ c[3].passes = RightLength
          /\ c[4].arg = "signer_nym" /\ c[4].passes = Decodable
      BY DEF Parse, Length
    <2> HIDE DEF c
    <2>3. Asks(o, c) BY <1>8, <2>2 DEF Asks, bbs_ffi_blind_sign_with_nym, Op, Params, Encoded
    <2> QED BY <2>1, <2>3
  <1>9. CASE o = bbs_ffi_verify_blind_sign_with_nym
    <2> DEFINE c == <<Parse("pk"), Length("blind_sig"), Parse("blind_sig"), Length("prover_nym"),
                       Parse("prover_nym"), Length("signer_nym"), Parse("signer_nym"), Length("blind_factor"),
                       Parse("blind_factor")>>
    <2>1. Library[o.name].checks = c
      BY <1>9
         DEF bbs_ffi_verify_blind_sign_with_nym, bbs_verify_blind_sign_with_nym, Op, Library, Fn
    <2>2. /\ DOMAIN c = 1..9 /\ Len(c) = 9
          /\ c[1].arg = "pk" /\ c[1].passes = Decodable
          /\ c[2].arg = "blind_sig" /\ c[2].passes = RightLength
          /\ c[3].arg = "blind_sig" /\ c[3].passes = Decodable
          /\ c[4].arg = "prover_nym" /\ c[4].passes = RightLength
          /\ c[5].arg = "prover_nym" /\ c[5].passes = Decodable
          /\ c[6].arg = "signer_nym" /\ c[6].passes = RightLength
          /\ c[7].arg = "signer_nym" /\ c[7].passes = Decodable
          /\ c[8].arg = "blind_factor" /\ c[8].passes = RightLength
          /\ c[9].arg = "blind_factor" /\ c[9].passes = Decodable
      BY DEF Parse, Length
    <2> HIDE DEF c
    <2>3. Asks(o, c) BY <1>9, <2>2
        DEF Asks, bbs_ffi_verify_blind_sign_with_nym, Op, Params, Encoded
    <2> QED BY <2>1, <2>3
  <1>10. CASE o = bbs_ffi_proof_gen_with_nym
    <2> DEFINE c == <<Parse("pk"), Length("nym_secret"), Parse("nym_secret"), Length("blind_factor"),
                       Parse("blind_factor")>>
    <2>1. Library[o.name].checks = c
      BY <1>10 DEF bbs_ffi_proof_gen_with_nym, bbs_proof_gen_with_nym, Op, Library, Fn
    <2>2. /\ DOMAIN c = 1..5 /\ Len(c) = 5
          /\ c[1].arg = "pk" /\ c[1].passes = Decodable
          /\ c[2].arg = "nym_secret" /\ c[2].passes = RightLength
          /\ c[3].arg = "nym_secret" /\ c[3].passes = Decodable
          /\ c[4].arg = "blind_factor" /\ c[4].passes = RightLength
          /\ c[5].arg = "blind_factor" /\ c[5].passes = Decodable
      BY DEF Parse, Length
    <2> HIDE DEF c
    <2>3. Asks(o, c) BY <1>10, <2>2 DEF Asks, bbs_ffi_proof_gen_with_nym, Op, Params, Encoded
    <2> QED BY <2>1, <2>3
  <1>11. CASE o = bbs_ffi_proof_verify_with_nym
    <2> DEFINE c == <<Parse("pk"), Parse("proof"), Parse("pseudonym")>>
    <2>1. Library[o.name].checks = c
      BY <1>11 DEF bbs_ffi_proof_verify_with_nym, bbs_proof_verify_with_nym, Op, Library, Fn
    <2>2. /\ DOMAIN c = 1..3 /\ Len(c) = 3
          /\ c[1].arg = "pk" /\ c[1].passes = Decodable
          /\ c[2].arg = "proof" /\ c[2].passes = Decodable
          /\ c[3].arg = "pseudonym" /\ c[3].passes = Decodable
      BY DEF Parse, Length
    <2> HIDE DEF c
    <2>3. Asks(o, c) BY <1>11, <2>2
        DEF Asks, bbs_ffi_proof_verify_with_nym, Op, Params, Encoded
    <2> QED BY <2>1, <2>3
  <1> QED BY <1>1, <1>2, <1>3, <1>4, <1>5, <1>6, <1>7, <1>8, <1>9, <1>10, <1>11 DEF Functions

LEMMA FunctionsTell ==
    ASSUME NEW o \in Functions
    PROVE  Tells(o, Library[o.name].variant)
  <1> USE DEF Tells, Op, Fn, Library, CodeOf
  <1>0. o.err \in Codes BY DEF Codes
  <1>1. CASE o = bbs_ffi_generate_keypair
    BY <1>0, <1>1 DEF bbs_ffi_generate_keypair, bbs_generate_keypair
  <1>2. CASE o = bbs_ffi_sign BY <1>0, <1>2 DEF bbs_ffi_sign, bbs_sign
  <1>3. CASE o = bbs_ffi_verify BY <1>0, <1>3 DEF bbs_ffi_verify, bbs_verify
  <1>4. CASE o = bbs_ffi_proof_gen BY <1>0, <1>4 DEF bbs_ffi_proof_gen, bbs_proof_gen
  <1>5. CASE o = bbs_ffi_proof_verify BY <1>0, <1>5 DEF bbs_ffi_proof_verify, bbs_proof_verify
  <1>6. CASE o = bbs_ffi_generate_nym_secret
    BY <1>0, <1>6 DEF bbs_ffi_generate_nym_secret, bbs_generate_nym_secret
  <1>7. CASE o = bbs_ffi_commit_with_nym
    BY <1>0, <1>7 DEF bbs_ffi_commit_with_nym, bbs_commit_with_nym
  <1>8. CASE o = bbs_ffi_blind_sign_with_nym
    BY <1>0, <1>8 DEF bbs_ffi_blind_sign_with_nym, bbs_blind_sign_with_nym
  <1>9. CASE o = bbs_ffi_verify_blind_sign_with_nym
    BY <1>0, <1>9 DEF bbs_ffi_verify_blind_sign_with_nym, bbs_verify_blind_sign_with_nym
  <1>10. CASE o = bbs_ffi_proof_gen_with_nym
    BY <1>0, <1>10 DEF bbs_ffi_proof_gen_with_nym, bbs_proof_gen_with_nym
  <1>11. CASE o = bbs_ffi_proof_verify_with_nym
    BY <1>0, <1>11 DEF bbs_ffi_proof_verify_with_nym, bbs_proof_verify_with_nym
  <1> QED BY <1>1, <1>2, <1>3, <1>4, <1>5, <1>6, <1>7, <1>8, <1>9, <1>10, <1>11 DEF Functions

\* bbs_generate_nym_secret takes nothing and so finds nothing to object to.
LEMMA InfallibleAsks ==
    ASSUME NEW o \in Infallible
    PROVE  /\ Params(o) = {} /\ ~o.answers
           /\ DOMAIN Library[o.name].checks = {}
  <1>1. o = bbs_ffi_generate_nym_secret BY DEF Infallible
  <1>2. Library[o.name].checks = <<>>
    BY <1>1 DEF bbs_ffi_generate_nym_secret, bbs_generate_nym_secret, Op, Library, Fn
  <1> QED BY <1>1, <1>2 DEF bbs_ffi_generate_nym_secret, Op, Params

-----------------------------------------------------------------------------
(* The inductive invariant. *)

CallType ==
    [pc : {"enter", "checks", "done"}, next : Nat,
     code : Codes \cup Variants \cup {"none"}, yes : BOOLEAN]

LEMMA ChecksFinite ==
    ASSUME op \in Functions
    PROVE  Len(Checks) \in Nat /\ DOMAIN Checks = 1..Len(Checks)
  BY FunctionsAsk DEF Asks, Checks

LEMMA ErrorCodes ==
    ASSUME op \in Functions, NEW i \in Interfaces
    PROVE  ErrorCode(i) \in Codes \cup Variants
  BY FunctionsTell DEF Tells, ErrorCode, Variants

LEMMA DoneType ==
    ASSUME op \in Functions, NEW i \in Interfaces, NEW yes \in BOOLEAN,
           NEW code \in {"Ok", "InvalidInput", ErrorCode(i)}
    PROVE  Done(code, yes) \in CallType
  <1>1. code \in Codes \cup Variants BY ErrorCodes DEF Codes
  <1> QED BY <1>1 DEF Done, CallType

LEMMA InitIInv == Init => IInv
  <1> SUFFICES ASSUME Init PROVE IInv OBVIOUS
  <1>1. op \in Functions /\ works \in BOOLEAN BY DEF Init
  <1>2. /\ DOMAIN arg = Params(op)
        /\ \A a \in Params(op) : arg[a] \in Faults(a) \cup {"good"}
    BY DEF Init
  <1>3. \A i \in Interfaces : call[i] = Begin BY DEF Init
  <1>4. call \in [Interfaces -> CallType] BY DEF Init, Begin, CallType
  <1>5. \A i \in Interfaces : call[i].next <= Len(Checks) + 1
    BY <1>1, <1>3, ChecksFinite DEF Begin
  <1>6. TypeOK BY <1>1, <1>2, <1>4, <1>5 DEF TypeOK, CallType
  <1>7. \A i \in Interfaces : InProgress(i) BY <1>3 DEF InProgress, Begin
  <1> QED BY <1>6, <1>7 DEF Init, IInv

\* The arguments decide the outcome, and no step changes them.
LEMMA OutcomeStays ==
    ASSUME UNCHANGED <<op, arg, works>>, NEW i \in Interfaces
    PROVE  /\ Checks' = Checks /\ Missing' = Missing
           /\ Outcome(i)' = Outcome(i)
  <1>1. op' = op /\ arg' = arg /\ works' = works OBVIOUS
  <1>2. Checks' = Checks /\ Missing' = Missing BY <1>1 DEF Checks, Missing
  <1>3. Rejected' = Rejected BY <1>1, <1>2 DEF Rejected
  <1>4. Raw' = Raw BY <1>1, <1>2 DEF Raw
  <1>5. Readable' = Readable BY <1>1, <1>4 DEF Readable
  <1>6. ErrorCode(i)' = ErrorCode(i) BY <1>1 DEF ErrorCode
  <1> QED BY <1>1, <1>2, <1>3, <1>5, <1>6 DEF Outcome

\* One interface takes a step; the other one does not notice.
LEMMA OneMoves ==
    ASSUME IInv, NEW i \in Interfaces, NEW c \in CallType,
           call' = [call EXCEPT ![i] = c], c.next <= Len(Checks) + 1,
           UNCHANGED <<op, arg, works>>, InProgress(i)'
    PROVE  IInv'
  <1>1. call \in [Interfaces -> CallType] BY DEF IInv, TypeOK, CallType
  <1>2. call' \in [Interfaces -> CallType] /\ call'[i] = c BY <1>1
  <1>3. \A j \in Interfaces \ {i} : call'[j] = call[j] BY <1>1
  <1>4. Checks' = Checks BY DEF Checks
  <1>5. TypeOK'
    <2>1. \A j \in Interfaces : call'[j].next <= Len(Checks') + 1
      BY <1>2, <1>3, <1>4 DEF IInv, TypeOK
    <2> QED BY <1>2, <2>1 DEF IInv, TypeOK, CallType
  <1>6. ASSUME NEW j \in Interfaces \ {i} PROVE InProgress(j)'
    <2>1. call'[j] = call[j] /\ InProgress(j) BY <1>3 DEF IInv
    <2>2. Checks' = Checks /\ Missing' = Missing /\ Outcome(j)' = Outcome(j) BY OutcomeStays
    <2> QED BY <2>1, <2>2 DEF InProgress
  <1> QED BY <1>5, <1>6 DEF IInv

LEMMA NextIInv == IInv /\ [Next]_vars => IInv'
  <1> SUFFICES ASSUME IInv, [Next]_vars PROVE IInv' OBVIOUS
  <1>0. /\ op \in Functions /\ works \in BOOLEAN
        /\ call \in [Interfaces -> CallType]
        /\ \A i \in Interfaces : InProgress(i) /\ call[i].next <= Len(Checks) + 1
    BY DEF IInv, TypeOK, CallType
  <1>l. Len(Checks) \in Nat /\ DOMAIN Checks = 1..Len(Checks) BY <1>0, ChecksFinite
  <1>1. ASSUME NEW i \in Interfaces, RejectMissing(i) PROVE IInv'
    <2> DEFINE c == Done("InvalidInput", FALSE)
    <2>1. call' = [call EXCEPT ![i] = c] /\ UNCHANGED <<op, arg, works>>
      BY <1>1 DEF RejectMissing, Finish
    <2>2. c \in CallType /\ c.next = 0 BY <1>0, DoneType DEF Done
    <2>3. call'[i] = c BY <1>0, <2>1
    <2>4. InProgress(i)'
      BY <1>1, <2>1, <2>3 DEF RejectMissing, InProgress, Outcome, Missing, Done
    <2> HIDE DEF c
    <2>5. c.next <= Len(Checks) + 1 BY <1>l, <2>2
    <2> QED BY <2>1, <2>2, <2>4, <2>5, OneMoves
  <1>2. ASSUME NEW i \in Interfaces, EnterLibrary(i) PROVE IInv'
    <2> DEFINE c == [call[i] EXCEPT !.pc = "checks"]
    <2>1. call' = [call EXCEPT ![i] = c] /\ UNCHANGED <<op, arg, works>>
      BY <1>0, <1>2 DEF EnterLibrary
    <2>2. c \in CallType /\ c.next <= Len(Checks) + 1 BY <1>0 DEF CallType
    <2>3. call'[i] = c /\ call[i] = Begin BY <1>0, <1>2, <2>1 DEF EnterLibrary, InProgress
    <2>4. InProgress(i)'
      BY <1>2, <1>l, <2>1, <2>3 DEF EnterLibrary, InProgress, Begin, Missing, Checks
    <2> HIDE DEF c
    <2> QED BY <2>1, <2>2, <2>4, OneMoves
  <1>3. ASSUME NEW i \in Interfaces, CheckPasses(i) PROVE IInv'
    <2> DEFINE c == [call[i] EXCEPT !.next = @ + 1]
    <2>1. call' = [call EXCEPT ![i] = c] /\ UNCHANGED <<op, arg, works>>
      BY <1>0, <1>3 DEF CheckPasses
    <2>2. c \in CallType /\ c.next <= Len(Checks) + 1
      BY <1>0, <1>3, <1>l DEF CallType, CheckPasses, Checking
    <2>3. call'[i] = c BY <1>0, <2>1
    <2>4. /\ call[i].pc = "checks" /\ call[i].next # 0 /\ call[i].code = "none" /\ ~call[i].yes
          /\ i = "C" => Missing = {}
          /\ \A k \in DOMAIN Checks :
               k < call[i].next => arg[Checks[k].arg] \in Checks[k].passes
      BY <1>0, <1>3 DEF CheckPasses, Checking, InProgress
    <2>5. arg[Checks[call[i].next].arg] \in Checks[call[i].next].passes
      BY <1>3 DEF CheckPasses, Passes
    <2>6. c.pc = "checks" /\ c.code = "none" /\ ~c.yes /\ c.next = call[i].next + 1
      BY <1>0, <2>4 DEF CallType
    <2>7. call[i].next \in Nat BY <1>0 DEF CallType
    <2>8. \A k \in DOMAIN Checks : k < c.next => arg[Checks[k].arg] \in Checks[k].passes
      BY <1>l, <2>4, <2>5, <2>6, <2>7
    <2> HIDE DEF c
    <2>9. c.next # 0 BY <2>6, <2>7
    <2>10. Checks' = Checks /\ Missing' = Missing BY <2>1, OutcomeStays
    <2>11. InProgress(i)'
      <3>1. call'[i].pc = "checks" BY <2>3, <2>6
      <3>2. i = "C" => Missing' = {} BY <2>4, <2>10
      <3>3. call'[i].next # 0 /\ call'[i].code = "none" /\ ~call'[i].yes BY <2>3, <2>6, <2>9
      <3>4. \A k \in DOMAIN Checks' :
              k < call'[i].next => arg'[Checks'[k].arg] \in Checks'[k].passes
        BY <2>1, <2>3, <2>8, <2>10
      <3> QED BY <3>1, <3>2, <3>3, <3>4 DEF InProgress
    <2> QED BY <2>1, <2>2, <2>11, OneMoves
  <1>4. ASSUME NEW i \in Interfaces, CheckFails(i) PROVE IInv'
    <2> DEFINE c == Done(ErrorCode(i), FALSE)
    <2>1. call' = [call EXCEPT ![i] = c] /\ UNCHANGED <<op, arg, works>>
      BY <1>4 DEF CheckFails, Finish
    <2>2. c \in CallType /\ c.next = 0 /\ c.pc = "done" BY <1>0, DoneType DEF Done
    <2>3. call'[i] = c BY <1>0, <2>1
    <2>4. Rejected
      <3>1. call[i].next \in DOMAIN Checks
        <4>1. call[i].next # 0 BY <1>0, <1>4 DEF CheckFails, Checking, InProgress
        <4> QED BY <1>0, <1>4, <1>l, <4>1 DEF CallType, CheckFails, Checking
      <3> QED BY <1>4, <3>1 DEF CheckFails, Passes, Rejected
    <2>5. i = "C" => Missing = {} BY <1>0, <1>4 DEF CheckFails, Checking, InProgress
    <2>6. Outcome(i) = c BY <2>4, <2>5 DEF Outcome
    <2> HIDE DEF c
    <2>7. InProgress(i)'
      <3>1. Outcome(i)' = Outcome(i) BY <2>1, OutcomeStays
      <3> QED BY <2>2, <2>3, <2>6, <3>1 DEF InProgress
    <2>8. c.next <= Len(Checks) + 1 BY <1>l, <2>2
    <2> QED BY <2>1, <2>2, <2>7, <2>8, OneMoves
  <1>5. ASSUME NEW i \in Interfaces, Answer(i) \/ Compute(i) PROVE IInv'
    <2> DEFINE c == IF op.answers THEN Done("Ok", works)
                    ELSE Done(IF works /\ Readable THEN "Ok" ELSE ErrorCode(i), FALSE)
    <2>1. call' = [call EXCEPT ![i] = c] /\ UNCHANGED <<op, arg, works>>
      BY <1>5 DEF Answer, Compute, Finish
    <2>2. c \in CallType /\ c.next = 0 /\ c.pc = "done" BY <1>0, DoneType DEF Done
    <2>3. call'[i] = c BY <1>0, <2>1
    <2>4. ~Rejected
      <3>1. /\ call[i].next \in Nat /\ call[i].next > Len(Checks)
            /\ \A k \in DOMAIN Checks :
                 k < call[i].next => arg[Checks[k].arg] \in Checks[k].passes
        BY <1>0, <1>5 DEF Answer, Compute, Checked, InProgress, CallType
      <3>2. \A k \in DOMAIN Checks : k < call[i].next BY <1>l, <3>1
      <3> QED BY <3>1, <3>2 DEF Rejected
    <2>5. i = "C" => Missing = {} BY <1>0, <1>5 DEF Answer, Compute, Checked, InProgress
    <2>6. Outcome(i) = c BY <2>4, <2>5 DEF Outcome
    <2> HIDE DEF c
    <2>7. InProgress(i)'
      <3>1. Outcome(i)' = Outcome(i) BY <2>1, OutcomeStays
      <3> QED BY <2>2, <2>3, <2>6, <3>1 DEF InProgress
    <2>8. c.next <= Len(Checks) + 1 BY <1>l, <2>2
    <2> QED BY <2>1, <2>2, <2>7, <2>8, OneMoves
  <1>6. CASE UNCHANGED vars
    BY <1>6 DEF vars, IInv, TypeOK, InProgress, Outcome, Rejected, Readable, Raw, Missing,
                ErrorCode, Checks
  <1> QED BY <1>1, <1>2, <1>3, <1>4, <1>5, <1>6 DEF Next

\* The invariant holds of every call, whatever is wrong with its arguments.
THEOREM InvariantHolds == Spec => []IInv
  BY InitIInv, NextIInv, PTL DEF Spec

\* The answers have the codes they may have, and no check is skipped.
THEOREM TypeCorrect == Spec => []TypeOK
  <1>1. IInv => TypeOK BY DEF IInv
  <1> QED BY <1>1, InvariantHolds, PTL

-----------------------------------------------------------------------------
(* What follows from it and from the table. *)

\* The library rejects what the C layer rejects, but for an empty scope.
LEMMA MissingRejected ==
    ASSUME op \in Functions, op.answers \in BOOLEAN,
           NEW a \in Missing, a # "scope"
    PROVE  Rejected \/ (~op.answers /\ ~Readable)
  <1>1. a \in Params(op) /\ a \in Encoded /\ a # "commitment" /\ arg[a] = "missing"
    BY FunctionsAsk DEF Asks, Missing, Params
  <1>2. arg[a] \notin Decodable /\ arg[a] \notin RightLength
    BY <1>1 DEF Decodable, RightLength
  <1>3. CASE \E k \in DOMAIN Checks : Checks[k].arg = a
    <2>1. PICK k \in DOMAIN Checks : Checks[k].arg = a BY <1>3
    <2>2. Checks[k].passes \in {Decodable, RightLength} BY FunctionsAsk DEF Asks, Checks
    <2> QED BY <1>2, <2>1, <2>2 DEF Rejected
  <1>4. CASE \A k \in DOMAIN Checks : Checks[k].arg # a
    <2>1. a \in Raw BY <1>1, <1>4 DEF Raw
    <2>2. ~op.answers BY <1>1, <1>4, FunctionsAsk DEF Asks, Checks
    <2> QED BY <1>1, <1>2, <2>1, <2>2 DEF Readable
  <1> QED BY <1>3, <1>4

\* The C layer asks for a scope wherever there is one.
LEMMA EmptyScopeMissing ==
    ASSUME op \in Functions, EmptyScope
    PROVE  Missing # {}
  <1>1. "scope" \in op.required BY FunctionsAsk DEF Asks, EmptyScope, Params
  <1> QED BY <1>1 DEF EmptyScope, Missing

\* Both interfaces report the same successes and verdicts, and part on an empty
\* scope alone; a failure of the primitive or of a decoding has one code.
THEOREM SameSuccesses == Spec => []SameSuccess
  <1>1. IInv => SameSuccess
    <2> DEFINE c == call["C"]  u == call["UniFFI"]
               variant == Library[op.name].variant
    <2> SUFFICES ASSUME IInv, \A i \in Interfaces : call[i].pc = "done"
                 PROVE  /\ c.code = "Ok" => u.code = "Ok" /\ c.yes = u.yes
                        /\ u.code = "Ok" => (c.code = "Ok" <=> ~EmptyScope)
                        /\ u.code # "Ok" /\ Missing = {} /\ ~IllSized => c.code = CodeOf[u.code]
      BY DEF SameSuccess
    <2>0. op \in Functions /\ works \in BOOLEAN BY DEF IInv, TypeOK
    <2>1. c = Outcome("C") /\ u = Outcome("UniFFI") BY DEF IInv, InProgress, Interfaces
    <2>2. /\ op.answers \in BOOLEAN /\ variant # "Ok"
          /\ op.err # "Ok" /\ op.err # "InvalidInput"
          /\ op \in Infallible \/ CodeOf[variant] = op.err
      BY <2>0, FunctionsTell DEF Tells, Infallible
    <2>3. ErrorCode("C") = op.err /\ ErrorCode("UniFFI") = variant BY DEF ErrorCode
    <2> HIDE DEF variant
    <2>4. u.code \in {"Ok", variant}
      BY <2>1, <2>3 DEF Outcome, Done
    <2>5. CASE Missing = {}
      <3>1. \/ c.code = "Ok" /\ u.code = "Ok" /\ c.yes = u.yes
            \/ c.code = op.err /\ u.code = variant
        BY <2>1, <2>3, <2>5 DEF Outcome, Done
      <3>2. op \in Infallible => u.code = "Ok"
        <4> SUFFICES ASSUME op \in Infallible PROVE u.code = "Ok" OBVIOUS
        <4>1. works /\ Params(op) = {} /\ ~op.answers /\ DOMAIN Checks = {}
          BY InfallibleAsks DEF IInv, Checks
        <4>2. ~Rejected /\ Readable BY <4>1 DEF Rejected, Readable, Raw
        <4> QED BY <2>1, <4>1, <4>2 DEF Outcome, Done
      <3>3. ~EmptyScope BY <2>0, <2>5, EmptyScopeMissing
      <3> QED BY <2>2, <3>1, <3>2, <3>3
    <2>6. CASE Missing # {}
      <3>1. c.code = "InvalidInput" BY <2>1, <2>6 DEF Outcome, Done
      <3>2. ASSUME u.code = "Ok" PROVE EmptyScope
        <4>1. ~Rejected /\ (op.answers \/ Readable)
          BY <2>1, <2>2, <2>3, <3>2 DEF Outcome, Done
        <4>2. \A a \in Missing : a = "scope" BY <2>0, <2>2, <4>1, MissingRejected
        <4>3. "scope" \in Missing BY <2>6, <4>2
        <4> QED BY <4>3 DEF EmptyScope, Missing, Params
      <3> QED BY <2>6, <3>1, <3>2
    <2> QED BY <2>5, <2>6
  <1> QED BY <1>1, InvariantHolds, PTL

\* A verification gives a verdict exactly on what it can decode.
THEOREM VerdictsWellFormed == Spec => []VerdictIffWellFormed
  <1>1. IInv => VerdictIffWellFormed
    <2> SUFFICES ASSUME IInv, NEW i \in Interfaces, op.answers, call[i].pc = "done"
                 PROVE  /\ call[i].code = "Ok" <=>
                             /\ \A a \in Params(op) \cap Encoded : arg[a] \in Decodable
                             /\ i = "C" => ~EmptyScope
                        /\ call[i].yes => \A a \in Params(op) : arg[a] # "other"
      BY DEF VerdictIffWellFormed
    <2> DEFINE decoded == \A a \in Params(op) \cap Encoded : arg[a] \in Decodable
    <2>0. op \in Functions /\ works \in BOOLEAN BY DEF IInv, TypeOK
    <2>1. call[i] = Outcome(i) BY DEF IInv, InProgress
    <2>2. op.err # "Ok" /\ Library[op.name].variant # "Ok" BY <2>0, FunctionsTell DEF Tells
    <2>3. ErrorCode(i) # "Ok" BY <2>2 DEF ErrorCode
    <2>4. call[i].code = "Ok" <=> ~Rejected /\ (i = "C" => Missing = {})
      BY <2>1, <2>3 DEF Outcome, Done
    <2>5. call[i].yes => works BY <2>1 DEF Outcome, Done
    <2>6. ~Rejected <=> decoded
      <3>1. ASSUME decoded PROVE ~Rejected
        <4> SUFFICES ASSUME NEW k \in DOMAIN Checks
                     PROVE  arg[Checks[k].arg] \in Checks[k].passes
          BY DEF Rejected
        <4>1. /\ Checks[k].arg \in Params(op) \cap Encoded
              /\ Checks[k].passes \in {Decodable, RightLength}
          BY <2>0, FunctionsAsk DEF Asks, Checks
        <4>2. arg[Checks[k].arg] \in Decodable BY <3>1, <4>1
        <4> QED BY <4>1, <4>2 DEF RightLength
      <3>2. ASSUME ~Rejected, NEW a \in Params(op) \cap Encoded PROVE arg[a] \in Decodable
        <4>1. PICK k \in DOMAIN Checks : Checks[k].arg = a /\ Checks[k].passes = Decodable
          BY <2>0, FunctionsAsk DEF Asks, Checks
        <4> QED BY <3>2, <4>1 DEF Rejected
      <3> QED BY <3>1, <3>2
    <2>7. ASSUME decoded PROVE Missing = {} <=> ~EmptyScope
      <3>1. \A a \in Missing : a = "scope"
        <4> SUFFICES ASSUME NEW a \in Missing PROVE a = "scope" OBVIOUS
        <4>1. a \in op.required /\ arg[a] = "missing" BY DEF Missing
        <4>2. a = "scope" \/ a \in Encoded BY <2>0, <4>1, FunctionsAsk DEF Asks
        <4> QED BY <2>7, <4>1, <4>2 DEF Params, Decodable
      <3>2. "scope" \in Params(op) => "scope" \in op.required
        BY <2>0, FunctionsAsk DEF Asks, Params
      <3> QED BY <3>1, <3>2 DEF EmptyScope, Missing, Params
    <2> QED BY <2>4, <2>5, <2>6, <2>7 DEF IInv
  <1> QED BY <1>1, InvariantHolds, PTL
=============================================================================
