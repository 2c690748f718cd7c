----------------------------- MODULE FfiCallsProofs -----------------------------
(***************************************************************************)
(* Proofs about the C layer, for every number of threads, structs, regions *)
(* and addresses, every Vec shape and every layout.                        *)
(***************************************************************************)
EXTENDS FfiCalls, TLAPS

LEMMA NoOpIsNoFunction == NoOp \notin Functions /\ NoOp.outs = {} /\ NoOp.answers = FALSE
  BY DEF NoOp, Op, Functions, bbs_ffi_generate_keypair, bbs_ffi_sign, bbs_ffi_verify,
         bbs_ffi_proof_gen, bbs_ffi_proof_verify, bbs_ffi_generate_nym_secret,
         bbs_ffi_commit_with_nym, bbs_ffi_blind_sign_with_nym,
         bbs_ffi_verify_blind_sign_with_nym, bbs_ffi_proof_gen_with_nym,
         bbs_ffi_proof_verify_with_nym

LEMMA FunctionFacts ==
    ASSUME NEW op \in Functions
    PROVE  op.outs \subseteq Kinds /\ op.err \in Codes /\ op.err # "Ok"
  <1>1. op.outs \subseteq Kinds BY DEF Kinds
  <1>2. op.err \in Codes BY DEF Codes
  <1>3. op.err # "Ok"
    BY DEF Op, Functions, bbs_ffi_generate_keypair, bbs_ffi_sign, bbs_ffi_verify,
           bbs_ffi_proof_gen, bbs_ffi_proof_verify, bbs_ffi_generate_nym_secret,
           bbs_ffi_commit_with_nym, bbs_ffi_blind_sign_with_nym,
           bbs_ffi_verify_blind_sign_with_nym, bbs_ffi_proof_gen_with_nym,
           bbs_ffi_proof_verify_with_nym
  <1> QED BY <1>1, <1>2, <1>3

-----------------------------------------------------------------------------
(* Type correctness. *)

CallOK(c) ==
    /\ c \in Calls
    /\ c.outs \in Injections(c.op.outs, Slots)
    /\ c.op = NoOp <=> c.pc = "idle"

LEMMA IdleOK ==
    ASSUME NEW code \in Codes
    PROVE  CallOK(Idle(code))
  <1>1. NoOuts \in [NoOp.outs -> Slots] BY NoOpIsNoFunction DEF NoOuts
  <1>2. NoOuts \in UNION {[op.outs -> Slots] : op \in Functions \cup {NoOp}}
    BY <1>1
  <1>3. Idle(code) \in Calls BY <1>2 DEF Idle, Calls
  <1>4. NoOuts \in Injections(NoOp.outs, Slots)
    BY <1>1, NoOpIsNoFunction DEF Injections
  <1> QED BY <1>3, <1>4 DEF Idle, CallOK

LEMMA EnteredOK ==
    ASSUME NEW op \in Functions, NEW V, V \subseteq Slots, NEW outs \in Injections(op.outs, V),
           NEW uses \in SUBSET Handles, NEW pc \in {"copy", "return"},
           NEW code \in Codes
    PROVE  CallOK([pc |-> pc, op |-> op, outs |-> outs, uses |-> uses,
                   code |-> code, yes |-> FALSE])
  <1>1. outs \in [op.outs -> Slots] /\ outs \in Injections(op.outs, Slots)
    BY DEF Injections
  <1>2. outs \in UNION {[o.outs -> Slots] : o \in Functions \cup {NoOp}} BY <1>1
  <1>3. op # NoOp BY NoOpIsNoFunction
  <1> QED BY <1>1, <1>2, <1>3 DEF CallOK, Calls

\* A change of one thread's record to a well-typed one.
LEMMA CallUpdate ==
    ASSUME TypeOK, NEW t \in Threads, NEW c, CallOK(c),
           call' = [call EXCEPT ![t] = c]
    PROVE  /\ call' \in [Threads -> Calls]
           /\ \A u \in Threads : /\ call'[u].outs \in Injections(call'[u].op.outs, Slots)
                                 /\ call'[u].op = NoOp <=> call'[u].pc = "idle"
  BY DEF TypeOK, CallOK

\* A change of some fields of a well-typed record that leaves op and outs alone.
LEMMA ProgressOK ==
    ASSUME TypeOK, NEW t \in Threads, NEW pc \in {"lib", "return"},
           call[t].pc # "idle", NEW uses \in SUBSET Handles, NEW code \in Codes,
           NEW yes \in BOOLEAN
    PROVE  CallOK([call[t] EXCEPT !.pc = pc, !.uses = uses, !.code = code, !.yes = yes])
  BY DEF TypeOK, Calls, CallOK

LEMMA OutsTyped ==
    ASSUME TypeOK, NEW t \in Threads
    PROVE  /\ call[t].op \in Functions \cup {NoOp}
           /\ call[t].outs \in [call[t].op.outs -> Slots]
           /\ \A j, k \in call[t].op.outs : call[t].outs[j] = call[t].outs[k] => j = k
           /\ Outs(t) \subseteq Slots
           /\ \A s \in Outs(t) : /\ KindOf(t, s) \in call[t].op.outs
                                 /\ call[t].outs[KindOf(t, s)] = s
                                 /\ KindOf(t, s) \in Kinds
  <1>1. /\ call[t].op \in Functions \cup {NoOp}
        /\ call[t].outs \in [call[t].op.outs -> Slots]
        /\ \A j, k \in call[t].op.outs : call[t].outs[j] = call[t].outs[k] => j = k
    BY DEF TypeOK, Calls, Injections
  <1>2. Outs(t) \subseteq Slots BY <1>1 DEF Outs
  <1>3. call[t].op.outs \subseteq Kinds BY <1>1, FunctionFacts, NoOpIsNoFunction
  <1>4. ASSUME NEW s \in Outs(t)
        PROVE  KindOf(t, s) \in call[t].op.outs /\ call[t].outs[KindOf(t, s)] = s
    BY <1>1 DEF Outs, KindOf
  <1> QED BY <1>1, <1>2, <1>3, <1>4

LEMMA InitType == Init => TypeOK
  <1> SUFFICES ASSUME Init PROVE TypeOK OBVIOUS
  <1>1. "Ok" \in Codes BY DEF Codes
  <1>2. CallOK(Idle("Ok")) BY <1>1, IdleOK
  <1>3. /\ call \in [Threads -> Calls]
        /\ \A t \in Threads : /\ call[t].outs \in Injections(call[t].op.outs, Slots)
                              /\ call[t].op = NoOp <=> call[t].pc = "idle"
    BY <1>2 DEF Init, CallOK
  <1>4. NoBlock \in Blocks /\ NullBuffer \in Buffers /\ NoRegion \in Regional
        /\ NoReceipt \in Receipt
    BY DEF NoBlock, Blocks, NullBuffer, Buffers, NoRegion, Regional, NoReceipt, Receipt
  <1> QED BY <1>3, <1>4 DEF Init, TypeOK

LEMMA DeallocateType ==
    ASSUME TypeOK, NEW a \in Addr, NEW size, NEW align, Deallocate(a, size, align)
    PROVE  heap' \in [Addr -> Blocks] /\ ub' \in BOOLEAN
  <1>1. NoBlock \in Blocks BY DEF NoBlock, Blocks
  <1>2. heap \in [Addr -> Blocks] /\ ub \in BOOLEAN BY DEF TypeOK
  <1>3. \/ heap' = [heap EXCEPT ![a] = NoBlock] /\ ub' = ub
        \/ ub' = TRUE /\ heap' = heap
    BY DEF Deallocate
  <1>4. heap' \in [Addr -> Blocks] BY <1>1, <1>2, <1>3
  <1>5. ub' \in BOOLEAN BY <1>2, <1>3
  <1> QED BY <1>4, <1>5

LEMMA EnterType ==
    ASSUME TypeOK, NEW t \in Threads, NEW op \in Functions,
           RejectNullOut(t) \/ RejectMissing(t, op) \/ Enter(t, op)
    PROVE  TypeOK'
  <1>1. "InvalidInput" \in Codes /\ "Ok" \in Codes BY DEF Codes
  <1>2. Vacant \subseteq Slots BY DEF Vacant
  <1>3. CASE RejectNullOut(t)
    <2> DEFINE c == [call[t] EXCEPT !.code = "InvalidInput"]
    <2>1. call' = [call EXCEPT ![t] = c] BY <1>3 DEF RejectNullOut
    <2>2. CallOK(c) BY <1>1 DEF TypeOK, Calls, CallOK
    <2> HIDE DEF c
    <2> QED BY <1>3, <2>1, <2>2, CallUpdate DEF RejectNullOut, TypeOK
  <1>4. ASSUME ForgetVerdict(t, op) PROVE accepted' \in [Threads -> BOOLEAN]
    BY <1>4 DEF ForgetVerdict, TypeOK
  <1>5. CASE RejectMissing(t, op)
    <2>1. PICK outs \in Injections(op.outs, Vacant) :
            call' = [call EXCEPT ![t] =
                       [pc |-> "return", op |-> op, outs |-> outs, uses |-> {},
                        code |-> "InvalidInput", yes |-> FALSE]]
      BY <1>5 DEF RejectMissing
    <2> DEFINE c == [pc |-> "return", op |-> op, outs |-> outs, uses |-> {},
                     code |-> "InvalidInput", yes |-> FALSE]
    <2>2. CallOK(c) BY <1>1, <1>2, EnteredOK
    <2>3. call' = [call EXCEPT ![t] = c] BY <2>1
    <2> HIDE DEF c
    <2> QED BY <1>4, <1>5, <2>2, <2>3, CallUpdate DEF RejectMissing, TypeOK
  <1>6. CASE Enter(t, op)
    <2>1. PICK outs \in Injections(op.outs, Vacant), uses \in SUBSET Lendable :
            call' = [call EXCEPT ![t] =
                       [pc |-> "copy", op |-> op, outs |-> outs, uses |-> uses,
                        code |-> "Ok", yes |-> FALSE]]
      BY <1>6 DEF Enter
    <2> DEFINE c == [pc |-> "copy", op |-> op, outs |-> outs, uses |-> uses,
                     code |-> "Ok", yes |-> FALSE]
    <2>2. uses \in SUBSET Handles BY DEF TypeOK, Lendable
    <2>3. CallOK(c) BY <1>1, <1>2, <2>2, EnteredOK
    <2>4. call' = [call EXCEPT ![t] = c] BY <2>1
    <2> HIDE DEF c
    <2> QED BY <1>4, <1>6, <2>3, <2>4, CallUpdate DEF Enter, TypeOK
  <1> QED BY <1>3, <1>5, <1>6

LEMMA LibType ==
    ASSUME TypeOK, NEW t \in Threads,
           CopyInputs(t) \/ LibOk(t) \/ LibAnswer(t) \/ LibErr(t)
    PROVE  TypeOK'
  <1>1. call[t] \in Calls BY DEF TypeOK
  <1>2. CASE CopyInputs(t)
    <2> DEFINE c == [call[t] EXCEPT !.pc = "lib", !.uses = {}, !.code = call[t].code,
                                    !.yes = call[t].yes]
    <2>1. call' = [call EXCEPT ![t] = c] BY <1>1, <1>2 DEF CopyInputs, Calls
    <2>2. CallOK(c)
      <3>1. call[t].code \in Codes /\ call[t].yes \in BOOLEAN BY <1>1 DEF Calls
      <3> QED BY <1>2, <3>1, ProgressOK DEF CopyInputs
    <2>3. ub' \in BOOLEAN BY <1>2 DEF CopyInputs, TypeOK
    <2> HIDE DEF c
    <2> QED BY <1>2, <2>1, <2>2, <2>3, CallUpdate DEF CopyInputs, TypeOK
  <1>3. CASE LibOk(t)
    <2> DEFINE c == [call[t] EXCEPT !.pc = "return", !.uses = call[t].uses,
                                    !.code = call[t].code, !.yes = call[t].yes]
    <2>1. call' = [call EXCEPT ![t] = c] BY <1>1, <1>3 DEF LibOk, Calls
    <2>2. CallOK(c)
      <3>1. call[t].code \in Codes /\ call[t].yes \in BOOLEAN
            /\ call[t].uses \in SUBSET Handles
        BY <1>1 DEF Calls
      <3> QED BY <1>3, <3>1, ProgressOK DEF LibOk
    <2>3. PICK at \in Injections(call[t].op.outs, FreeAddr), shape \in Shapes :
            /\ heap' = [a \in Addr |->
                          IF \E k \in call[t].op.outs : at[k] = a
                          THEN [size |-> shape.cap, align |-> 1,
                                kind |-> CHOOSE k \in call[t].op.outs : at[k] = a]
                          ELSE heap[a]]
            /\ vec' = [s \in Slots |->
                         IF s \in Outs(t)
                         THEN [data |-> at[KindOf(t, s)], len |-> shape.len, cap |-> shape.cap]
                         ELSE vec[s]]
      BY <1>3 DEF LibOk
    <2>4. shape.len \in Nat /\ shape.cap \in Nat BY ShapeAssumption
    <2>5. call[t].op.outs \subseteq Kinds BY OutsTyped, FunctionFacts, NoOpIsNoFunction
    <2>6. heap' \in [Addr -> Blocks]
      BY <2>3, <2>4, <2>5 DEF TypeOK, Blocks
    <2>7. \A s \in Outs(t) : at[KindOf(t, s)] \in Addr
      BY OutsTyped DEF Injections, FreeAddr
    <2>8. vec' \in [Slots -> Buffers]
      BY <2>3, <2>4, <2>7 DEF TypeOK, Buffers
    <2> HIDE DEF c
    <2> QED BY <1>3, <2>1, <2>2, <2>6, <2>8, CallUpdate DEF LibOk, TypeOK
  <1>4. CASE LibAnswer(t)
    <2>1. PICK yes \in BOOLEAN :
            /\ call' = [call EXCEPT ![t].pc = "return", ![t].yes = yes]
            /\ accepted' = [accepted EXCEPT ![t] = yes]
      BY <1>4 DEF LibAnswer
    <2> DEFINE c == [call[t] EXCEPT !.pc = "return", !.uses = call[t].uses,
                                    !.code = call[t].code, !.yes = yes]
    <2>2. call' = [call EXCEPT ![t] = c] BY <1>1, <2>1 DEF Calls
    <2>3. CallOK(c)
      <3>1. call[t].code \in Codes /\ call[t].uses \in SUBSET Handles BY <1>1 DEF Calls
      <3> QED BY <1>4, <3>1, ProgressOK DEF LibAnswer
    <2> HIDE DEF c
    <2> QED BY <1>4, <2>1, <2>2, <2>3, CallUpdate DEF LibAnswer, TypeOK
  <1>5. CASE LibErr(t)
    <2> DEFINE c == [call[t] EXCEPT !.pc = "return", !.uses = call[t].uses,
                                    !.code = call[t].op.err, !.yes = call[t].yes]
    <2>1. call' = [call EXCEPT ![t] = c] BY <1>1, <1>5 DEF LibErr, Calls
    <2>2. CallOK(c)
      <3>1. call[t].yes \in BOOLEAN /\ call[t].uses \in SUBSET Handles BY <1>1 DEF Calls
      <3>2. call[t].op \in Functions BY <1>5, <1>1 DEF LibErr, TypeOK, Calls
      <3>3. call[t].op.err \in Codes BY <3>2, FunctionFacts
      <3> QED BY <1>5, <3>1, <3>3, ProgressOK DEF LibErr
    <2> HIDE DEF c
    <2> QED BY <1>5, <2>1, <2>2, CallUpdate DEF LibErr, TypeOK
  <1> QED BY <1>2, <1>3, <1>4, <1>5

LEMMA ReturnType ==
    ASSUME TypeOK, NEW t \in Threads, WriteBuffers(t) \/ WriteNulls(t) \/ WriteAnswer(t)
    PROVE  TypeOK'
  <1>1. CallOK(Idle(call[t].code))
    <2>1. call[t].code \in Codes BY DEF TypeOK, Calls
    <2> QED BY <2>1, IdleOK
  <1>2. Outs(t) \subseteq Slots BY OutsTyped
  <1>3. NullBuffer \in Buffers BY DEF NullBuffer, Buffers
  <1>4. ASSUME HandOver(t)
        PROVE  /\ held' \in SUBSET Handles
               /\ receipt' \in [Slots -> Receipt]
               /\ call' = [call EXCEPT ![t] = Idle(call[t].code)]
    <2>1. held' \in SUBSET Handles BY <1>2, <1>4 DEF HandOver, TypeOK, Handles
    <2>2. call[t].code \in Codes BY DEF TypeOK, Calls
    <2>3. \A s \in Outs(t) : [code |-> call[t].code, kind |-> KindOf(t, s)] \in Receipt
      BY <2>2, OutsTyped DEF Receipt
    <2>4. receipt' \in [Slots -> Receipt] BY <1>4, <2>3 DEF HandOver, TypeOK
    <2> QED BY <1>4, <2>1, <2>4 DEF HandOver
  <1>5. CASE WriteBuffers(t)
    <2>1. slot' \in [Slots -> Buffers] /\ vec' \in [Slots -> Buffers]
      BY <1>3, <1>5 DEF WriteBuffers, TypeOK
    <2> QED BY <1>1, <1>4, <1>5, <2>1, CallUpdate DEF WriteBuffers, TypeOK
  <1>6. CASE WriteNulls(t)
    <2>1. slot' \in [Slots -> Buffers] BY <1>3, <1>6 DEF WriteNulls, TypeOK
    <2> QED BY <1>1, <1>4, <1>6, <2>1, CallUpdate DEF WriteNulls, TypeOK
  <1>7. CASE WriteAnswer(t)
    <2>1. valid' \in [Threads -> {0, 1}] BY <1>7 DEF WriteAnswer, TypeOK
    <2> QED BY <1>1, <1>7, <2>1, CallUpdate DEF WriteAnswer, TypeOK
  <1> QED BY <1>5, <1>6, <1>7

LEMMA MemoryType ==
    ASSUME TypeOK,
           \/ \E s \in Slots : bbs_ffi_free_buffer(s)
           \/ \E r \in Regions : bbs_ffi_alloc(r) \/ bbs_ffi_dealloc(r)
    PROVE  TypeOK'
  <1>1. ASSUME NEW s \in Slots, bbs_ffi_free_buffer(s) PROVE TypeOK'
    <2>1. heap' \in [Addr -> Blocks] /\ ub' \in BOOLEAN
      <3>1. CASE slot[s].data # Null /\ slot[s].cap > 0
        <4>1. slot[s].data \in Addr BY <3>1 DEF TypeOK, Buffers
        <4> QED BY <1>1, <3>1, <4>1, DeallocateType DEF bbs_ffi_free_buffer
      <3>2. CASE ~(slot[s].data # Null /\ slot[s].cap > 0)
        BY <1>1, <3>2 DEF bbs_ffi_free_buffer, TypeOK
      <3> QED BY <3>1, <3>2
    <2>2. receipt' \in [Slots -> Receipt]
      BY <1>1 DEF bbs_ffi_free_buffer, TypeOK, NoReceipt, Receipt
    <2> QED BY <1>1, <2>1, <2>2 DEF bbs_ffi_free_buffer, TypeOK
  <1>2. ASSUME NEW r \in Regions, bbs_ffi_alloc(r) PROVE TypeOK'
    <2>1. PICK layout \in Layouts, a \in FreeAddr \cup {Null} :
            /\ region' = [region EXCEPT ![r] =
                            [data |-> a, len |-> layout.len, align |-> layout.align]]
            /\ heap' = IF a = Null THEN heap
                       ELSE [heap EXCEPT ![a] =
                               [size |-> layout.len, align |-> layout.align,
                                kind |-> "region"]]
      BY <1>2 DEF bbs_ffi_alloc
    <2>2. layout.len \in Nat /\ layout.align \in Nat /\ a \in Addr \cup {Null}
      BY LayoutAssumption DEF FreeAddr
    <2>3. region' \in [Regions -> Regional] BY <2>1, <2>2 DEF TypeOK, Regional
    <2>4. heap' \in [Addr -> Blocks] BY <2>1, <2>2 DEF TypeOK, Blocks
    <2>5. held' \in SUBSET Handles BY <1>2 DEF bbs_ffi_alloc, TypeOK, Handles
    <2> QED BY <1>2, <2>3, <2>4, <2>5 DEF bbs_ffi_alloc, TypeOK
  <1>3. ASSUME NEW r \in Regions, bbs_ffi_dealloc(r) PROVE TypeOK'
    <2>1. heap' \in [Addr -> Blocks] /\ ub' \in BOOLEAN
      <3> DEFINE frees == /\ region[r].data # Null
                          /\ region[r].len > 0
                          /\ LayoutOk(region[r].len, region[r].align)
      <3>1. CASE frees
        <4>1. region[r].data \in Addr BY <3>1 DEF TypeOK, Regional
        <4> QED BY <1>3, <3>1, <4>1, DeallocateType DEF bbs_ffi_dealloc
      <3>2. CASE ~frees
        BY <1>3, <3>2 DEF bbs_ffi_dealloc, TypeOK
      <3> QED BY <3>1, <3>2
    <2> QED BY <1>3, <2>1 DEF bbs_ffi_dealloc, TypeOK
  <1> QED BY <1>1, <1>2, <1>3

LEMMA NextType == TypeOK /\ [Next]_vars => TypeOK'
  <1> SUFFICES ASSUME TypeOK, [Next]_vars PROVE TypeOK' OBVIOUS
  <1>1. CASE \E t \in Threads : RejectNullOut(t)
    <2>1. bbs_ffi_sign \in Functions BY DEF Functions
    <2> QED BY <1>1, <2>1, EnterType
  <1>2. CASE \E t \in Threads, op \in Functions : RejectMissing(t, op) \/ Enter(t, op)
    BY <1>2, EnterType
  <1>3. CASE \E t \in Threads : Step(t) BY <1>3, LibType, ReturnType DEF Step
  <1>4. CASE \/ \E s \in Slots : bbs_ffi_free_buffer(s)
             \/ \E r \in Regions : bbs_ffi_alloc(r) \/ bbs_ffi_dealloc(r)
    BY <1>4, MemoryType
  <1>5. CASE Close BY <1>5 DEF Close, TypeOK
  <1>6. CASE UNCHANGED vars BY <1>6 DEF vars, TypeOK
  <1> QED BY <1>1, <1>2, <1>3, <1>4, <1>5, <1>6 DEF Next, Stop

\* The types of FfiCalls, whatever the host does.
THEOREM TypeCorrect == Spec => []TypeOK
  BY InitType, NextType, PTL DEF Spec

-----------------------------------------------------------------------------
(* valid_out. *)

\* What FailClosed says of a thread that is in the middle of a call: a
\* verification has forgotten the last verdict, and once it is to return, the
\* code and the answer it carries are the new one.
Verdict(t) ==
    LET c == call[t] IN
    /\ ~c.op.answers => (valid[t] = 1 <=> accepted[t])
    /\ c.op.answers /\ c.pc \in {"copy", "lib"} => c.code = "Ok" /\ ~accepted[t]
    /\ c.op.answers /\ c.pc = "return" => (accepted[t] <=> c.code = "Ok" /\ c.yes)
    /\ c.op.answers => c.pc \in {"copy", "lib", "return"}

Verdicts == TypeOK /\ \A t \in Threads : Verdict(t)

\* Nothing a thread does disturbs the verdicts of the others.
LEMMA VerdictFrame ==
    ASSUME NEW t, Verdict(t), call'[t] = call[t], valid'[t] = valid[t],
           accepted'[t] = accepted[t]
    PROVE  Verdict(t)'
  BY DEF Verdict

LEMMA EnterVerdict ==
    ASSUME Verdicts, NEW t \in Threads, NEW op \in Functions,
           RejectNullOut(t) \/ RejectMissing(t, op) \/ Enter(t, op)
    PROVE  \A u \in Threads : Verdict(u)'
  <1>1. call \in [Threads -> Calls] /\ accepted \in [Threads -> BOOLEAN]
    BY DEF Verdicts, TypeOK
  <1>2. call[t].pc = "idle" BY DEF RejectNullOut, RejectMissing, Enter, Ready
  <1>3. call[t].op = NoOp BY <1>2 DEF Verdicts, TypeOK
  <1>4. ~call[t].op.answers BY <1>3, NoOpIsNoFunction
  <1>5. valid[t] = 1 <=> accepted[t] BY <1>4 DEF Verdicts, Verdict
  <1>6. Verdict(t)'
    <2>1. CASE RejectNullOut(t)
      <3>1. call'[t] = [call[t] EXCEPT !.code = "InvalidInput"]
        BY <1>1, <2>1 DEF RejectNullOut
      <3>2. call'[t].op = call[t].op BY <1>1, <3>1 DEF Calls
      <3> QED BY <1>4, <1>5, <2>1, <3>2 DEF RejectNullOut, Verdict
    <2>2. CASE RejectMissing(t, op)
      <3>1. /\ call'[t].op = op /\ call'[t].pc = "return"
            /\ call'[t].code = "InvalidInput"
        BY <1>1, <2>2 DEF RejectMissing
      <3>2. /\ accepted'[t] = IF op.answers THEN FALSE ELSE accepted[t]
            /\ valid' = valid
        BY <1>1, <2>2 DEF RejectMissing, ForgetVerdict
      <3> QED BY <1>5, <3>1, <3>2 DEF Verdict
    <2>3. CASE Enter(t, op)
      <3>1. call'[t].op = op /\ call'[t].pc = "copy" /\ call'[t].code = "Ok"
        BY <1>1, <2>3 DEF Enter
      <3>2. /\ accepted'[t] = IF op.answers THEN FALSE ELSE accepted[t]
            /\ valid' = valid
        BY <1>1, <2>3 DEF Enter, ForgetVerdict
      <3> QED BY <1>5, <3>1, <3>2 DEF Verdict
    <2> QED BY <2>1, <2>2, <2>3
  <1>7. ASSUME NEW u \in Threads, u # t PROVE Verdict(u)'
    <2>1. call'[u] = call[u] /\ valid'[u] = valid[u] /\ accepted'[u] = accepted[u]
      BY <1>1, <1>7 DEF RejectNullOut, RejectMissing, Enter, ForgetVerdict
    <2> QED BY <2>1, VerdictFrame DEF Verdicts
  <1> QED BY <1>6, <1>7

LEMMA LibVerdict ==
    ASSUME Verdicts, NEW t \in Threads,
           CopyInputs(t) \/ LibOk(t) \/ LibAnswer(t) \/ LibErr(t)
    PROVE  \A u \in Threads : Verdict(u)'
  <1>1. call \in [Threads -> Calls] /\ accepted \in [Threads -> BOOLEAN]
    BY DEF Verdicts, TypeOK
  <1>2. Verdict(t) BY DEF Verdicts
  <1>3. call[t] \in Calls BY <1>1
  <1>4. Verdict(t)'
    <2>1. CASE CopyInputs(t)
      <3>1. call'[t] = [call[t] EXCEPT !.pc = "lib", !.uses = {}]
        BY <1>1, <2>1 DEF CopyInputs
      <3>2. /\ call[t].pc = "copy" /\ call'[t].pc = "lib" /\ call'[t].op = call[t].op
            /\ call'[t].code = call[t].code
        BY <1>3, <2>1, <3>1 DEF CopyInputs, Calls
      <3> QED BY <1>2, <2>1, <3>2 DEF CopyInputs, Verdict
    <2>2. CASE LibOk(t)
      <3>1. call'[t] = [call[t] EXCEPT !.pc = "return"] BY <1>1, <2>2 DEF LibOk
      <3>2. call'[t].op = call[t].op BY <1>3, <3>1 DEF Calls
      <3> QED BY <1>2, <2>2, <3>2 DEF LibOk, Verdict
    <2>3. CASE LibAnswer(t)
      <3>1. PICK yes \in BOOLEAN :
              /\ call' = [call EXCEPT ![t].pc = "return", ![t].yes = yes]
              /\ accepted' = [accepted EXCEPT ![t] = yes]
        BY <2>3 DEF LibAnswer
      <3>2. call'[t] = [call[t] EXCEPT !.pc = "return", !.yes = yes] BY <1>1, <3>1
      <3>3. /\ call'[t].op = call[t].op /\ call'[t].code = call[t].code
            /\ call'[t].pc = "return" /\ call'[t].yes = yes
        BY <1>3, <3>2 DEF Calls
      <3>4. call[t].code = "Ok" /\ call[t].op.answers
        BY <1>2, <2>3 DEF LibAnswer, Verdict
      <3>5. accepted'[t] = yes BY <1>1, <3>1
      <3> QED BY <3>3, <3>4, <3>5 DEF Verdict
    <2>4. CASE LibErr(t)
      <3>1. call'[t] = [call[t] EXCEPT !.pc = "return", !.code = call[t].op.err]
        BY <1>1, <2>4 DEF LibErr
      <3>2. /\ call'[t].op = call[t].op /\ call'[t].code = call[t].op.err
            /\ call'[t].pc = "return"
        BY <1>3, <3>1 DEF Calls
      <3>3. call[t].op.err # "Ok"
        <4>1. call[t].op # NoOp BY <2>4 DEF Verdicts, TypeOK, LibErr
        <4> QED BY <1>3, <4>1, FunctionFacts DEF Calls
      <3> QED BY <1>2, <2>4, <3>2, <3>3 DEF LibErr, Verdict
    <2> QED BY <2>1, <2>2, <2>3, <2>4
  <1>5. ASSUME NEW u \in Threads, u # t PROVE Verdict(u)'
    <2>1. call'[u] = call[u] /\ valid'[u] = valid[u] /\ accepted'[u] = accepted[u]
      BY <1>1, <1>5 DEF CopyInputs, LibOk, LibAnswer, LibErr
    <2> QED BY <2>1, VerdictFrame DEF Verdicts
  <1> QED BY <1>4, <1>5

LEMMA ReturnVerdict ==
    ASSUME Verdicts, NEW t \in Threads, WriteBuffers(t) \/ WriteNulls(t) \/ WriteAnswer(t)
    PROVE  \A u \in Threads : Verdict(u)'
  <1>1. call \in [Threads -> Calls] /\ valid \in [Threads -> {0, 1}]
    BY DEF Verdicts, TypeOK
  <1>2. Verdict(t) BY DEF Verdicts
  <1>3. call' = [call EXCEPT ![t] = Idle(call[t].code)]
    BY DEF WriteBuffers, WriteNulls, WriteAnswer, HandOver
  <1>4. ~call'[t].op.answers BY <1>1, <1>3, NoOpIsNoFunction DEF Idle
  <1>5. valid'[t] = 1 <=> accepted'[t]
    <2>1. CASE WriteBuffers(t) \/ WriteNulls(t)
      BY <1>2, <2>1 DEF WriteBuffers, WriteNulls, Verdict
    <2>2. CASE WriteAnswer(t)
      <3>1. valid'[t] = IF call[t].code = "Ok" /\ call[t].yes THEN 1 ELSE 0
        BY <1>1, <2>2 DEF WriteAnswer
      <3>2. accepted[t] <=> call[t].code = "Ok" /\ call[t].yes
        BY <1>2, <2>2 DEF WriteAnswer, Verdict
      <3> QED BY <2>2, <3>1, <3>2 DEF WriteAnswer
    <2> QED BY <2>1, <2>2
  <1>6. Verdict(t)' BY <1>4, <1>5 DEF Verdict
  <1>7. ASSUME NEW u \in Threads, u # t PROVE Verdict(u)'
    <2>1. call'[u] = call[u] /\ valid'[u] = valid[u] /\ accepted'[u] = accepted[u]
      BY <1>1, <1>3, <1>7 DEF WriteBuffers, WriteNulls, WriteAnswer
    <2> QED BY <2>1, VerdictFrame DEF Verdicts
  <1> QED BY <1>6, <1>7

LEMMA InitVerdicts == Init => Verdicts
  <1> SUFFICES ASSUME Init, NEW t \in Threads PROVE Verdict(t)
    BY InitType DEF Verdicts
  <1>1. ~call[t].op.answers BY NoOpIsNoFunction DEF Init, Idle
  <1>2. valid[t] = 0 /\ accepted[t] = FALSE BY DEF Init
  <1> QED BY <1>1, <1>2 DEF Verdict

LEMMA NextVerdicts == Verdicts /\ [Next]_vars => Verdicts'
  <1> SUFFICES ASSUME Verdicts, [Next]_vars PROVE \A t \in Threads : Verdict(t)'
    BY NextType DEF Verdicts
  <1>1. CASE \E t \in Threads : RejectNullOut(t)
    <2>1. bbs_ffi_sign \in Functions BY DEF Functions
    <2> QED BY <1>1, <2>1, EnterVerdict
  <1>2. CASE \E t \in Threads, op \in Functions : RejectMissing(t, op) \/ Enter(t, op)
    BY <1>2, EnterVerdict
  <1>3. CASE \E t \in Threads : Step(t) BY <1>3, LibVerdict, ReturnVerdict DEF Step
  <1>4. CASE UNCHANGED <<call, valid, accepted>>
    BY <1>4, VerdictFrame DEF Verdicts
  <1>5. CASE \/ \E s \in Slots : bbs_ffi_free_buffer(s)
             \/ \E r \in Regions : bbs_ffi_alloc(r) \/ bbs_ffi_dealloc(r)
             \/ Close \/ UNCHANGED vars
    BY <1>4, <1>5 DEF bbs_ffi_free_buffer, bbs_ffi_alloc, bbs_ffi_dealloc, Close, vars
  <1> QED BY <1>1, <1>2, <1>3, <1>5 DEF Next, Stop

\* valid_out tells the latest verdict, whatever calls and failures came before.
THEOREM VerdictsFailClosed == Spec => []FailClosed
  <1>1. Verdicts => FailClosed
    <2> SUFFICES ASSUME Verdicts, NEW t \in Threads, call[t].pc = "idle"
                 PROVE  valid[t] = 1 <=> accepted[t]
      BY DEF FailClosed
    <2>1. call[t].op = NoOp BY DEF Verdicts, TypeOK
    <2>2. ~call[t].op.answers BY <2>1, NoOpIsNoFunction
    <2> QED BY <2>2 DEF Verdicts, Verdict
  <1> QED BY <1>1, InitVerdicts, NextVerdicts, PTL DEF Spec
=============================================================================
