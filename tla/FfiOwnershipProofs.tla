--------------------------- MODULE FfiOwnershipProofs ---------------------------
(***************************************************************************)
(* The ownership of memory by the C layer and its host: IInv is inductive, *)
(* and with it no undefined behaviour, exact ownership, receipts that tell *)
(* the truth, and the refinement of BufferOwnership.                       *)
(***************************************************************************)
EXTENDS FfiCallsProofs

-----------------------------------------------------------------------------
(* Ownership, spelled out over the state of FfiCalls. *)

Exactly ==
    /\ \A a \in Addr : heap[a] # NoBlock <=> \E h \in Handles : Owned(h) = a
    /\ \A g, h \in Handles : Owned(g) = Owned(h) /\ Owned(g) # Null => g = h

\* The ways in which memory changes hands in a step.
Acquired(H, at) ==
    /\ \A g, h \in H : at[g] = at[h] => g = h
    /\ \A h \in H : Owned(h) = Null /\ heap[at[h]] = NoBlock
    /\ \A h \in Handles : Owned(h)' = IF h \in H THEN at[h] ELSE Owned(h)
    /\ \A a \in Addr : IF \E h \in H : at[h] = a THEN heap'[a] # NoBlock
                      ELSE heap'[a] = heap[a]

Released(h) ==
    /\ Owned(h) \in Addr /\ Owned(h)' = Null
    /\ heap'[Owned(h)] = NoBlock
    /\ \A a \in Addr : a # Owned(h) => heap'[a] = heap[a]
    /\ \A g \in Handles : g # h => Owned(g)' = Owned(g)

Moves ==
    \/ UNCHANGED heap /\ \A h \in Handles : Owned(h)' = Owned(h)
    \/ \E H \in SUBSET Handles : \E at \in [H -> Addr] : Acquired(H, at)
    \/ \E h \in Handles : Released(h)

LEMMA OwnedType ==
    ASSUME TypeOK, NEW h \in Handles
    PROVE  Owned(h) \in Addr \cup {Null}
  BY DEF TypeOK, Owned, Handles, Buffers, Regional

LEMMA ExactIff == TypeOK => (Ownership!Exact <=> Exactly)
  <1> SUFFICES ASSUME TypeOK PROVE Ownership!Exact <=> Exactly OBVIOUS
  <1>1. \A h \in Handles : Owned(h) \in Addr \cup {Null} BY OwnedType
  <1>2. Null \notin Addr BY NullAssumption
  <1> QED BY <1>1, <1>2 DEF Ownership!Exact, Exactly, Live

\* Nothing is allocated or freed and nobody's property changes.
LEMMA SameOwners ==
    ASSUME Exactly, UNCHANGED heap, \A h \in Handles : Owned(h)' = Owned(h)
    PROVE  Exactly' /\ Moves
  BY DEF Exactly, Moves

\* Some handles that own nothing get the blocks at of their own.
LEMMA NewOwners ==
    ASSUME Exactly, NEW H \in SUBSET Handles, NEW at \in [H -> Addr], Acquired(H, at)
    PROVE  Exactly' /\ Moves
  <1> USE DEF Acquired
  <1>0. Null \notin Addr BY NullAssumption
  <1>1. ASSUME NEW a \in Addr
        PROVE  heap'[a] # NoBlock <=> \E h \in Handles : Owned(h)' = a
    <2>1. CASE \E h \in H : at[h] = a BY <2>1
    <2>2. CASE ~\E h \in H : at[h] = a
      <3>1. heap'[a] # NoBlock <=> \E h \in Handles : Owned(h) = a
        BY <2>2 DEF Exactly
      <3> QED BY <1>0, <2>2, <3>1
    <2> QED BY <2>1, <2>2
  <1>2. ASSUME NEW g \in Handles, NEW h \in Handles,
               Owned(g)' = Owned(h)', Owned(g)' # Null
        PROVE  g = h
    <2>1. CASE g \in H /\ h \in H BY <1>2, <2>1
    <2>2. CASE g \notin H /\ h \notin H BY <1>2, <2>2 DEF Exactly
    <2>3. ASSUME NEW i \in H, NEW j \in Handles, j \notin H, Owned(i)' = Owned(j)'
          PROVE  FALSE
      <3>1. at[i] \in Addr /\ heap[at[i]] = NoBlock /\ Owned(j) = at[i] BY <2>3
      <3> QED BY <3>1 DEF Exactly
    <2> QED BY <1>2, <2>1, <2>2, <2>3
  <1>3. Moves BY DEF Moves
  <1> QED BY <1>1, <1>2, <1>3 DEF Exactly

\* A handle gives its block back.
LEMMA LostOwner ==
    ASSUME Exactly, NEW h \in Handles, Released(h)
    PROVE  Exactly' /\ Moves
  <1> DEFINE a == Owned(h)
  <1> USE DEF Released
  <1>0. Null \notin Addr BY NullAssumption
  <1>1. ASSUME NEW b \in Addr
        PROVE  heap'[b] # NoBlock <=> \E g \in Handles : Owned(g)' = b
    <2>1. CASE b = a
      <3>1. \A g \in Handles : g # h => Owned(g) # a BY <1>0 DEF Exactly
      <3> QED BY <1>0, <2>1, <3>1
    <2>2. CASE b # a
      <3>1. heap'[b] # NoBlock <=> \E g \in Handles : Owned(g) = b
        BY <2>2 DEF Exactly
      <3> QED BY <1>0, <2>2, <3>1
    <2> QED BY <2>1, <2>2
  <1>2. \A f, g \in Handles : Owned(f)' = Owned(g)' /\ Owned(f)' # Null => f = g
    BY DEF Exactly
  <1>3. Moves BY DEF Moves
  <1> QED BY <1>1, <1>2, <1>3 DEF Exactly

\* A backed buffer or region is not affected by what happens elsewhere.
LEMMA BackedFrame ==
    ASSUME NEW b, NEW k, Backed(b, k), heap'[b.data] = heap[b.data]
    PROVE  Backed(b, k)'
  BY DEF Backed

LEMMA RegionFrame ==
    ASSUME NEW b, BackedRegion(b), heap'[b.data] = heap[b.data]
    PROVE  BackedRegion(b)'
  BY DEF BackedRegion

LEMMA BackedIsLive ==
    ASSUME NEW b \in Buffers, NEW k, Backed(b, k)
    PROVE  b.data \in Addr /\ heap[b.data] # NoBlock
  <1>1. b.cap # 0 /\ heap[b.data].size = b.cap BY DEF Backed, Buffers
  <1>2. NoBlock.size = 0 BY DEF NoBlock
  <1> QED BY <1>1, <1>2 DEF Backed

LEMMA RegionIsLive ==
    ASSUME NEW b \in Regional, BackedRegion(b)
    PROVE  b.data \in Addr /\ heap[b.data] # NoBlock
  <1>1. b.len # 0 /\ heap[b.data].size = b.len BY DEF BackedRegion, Regional
  <1>2. NoBlock.size = 0 BY DEF NoBlock
  <1> QED BY <1>1, <1>2 DEF BackedRegion

LEMMA OutsFrame ==
    ASSUME NEW t \in Threads, UNCHANGED call[t].outs
    PROVE  Outs(t)' = Outs(t) /\ \A s : KindOf(t, s)' = KindOf(t, s)
  BY DEF Outs, KindOf

LEMMA AnswersHaveNoOuts ==
    ASSUME NEW op \in Functions \cup {NoOp}
    PROVE  op.answers => op.outs = {}
  BY DEF Op, NoOp, Functions, bbs_ffi_generate_keypair, bbs_ffi_sign, bbs_ffi_verify,
         bbs_ffi_proof_gen, bbs_ffi_proof_verify, bbs_ffi_generate_nym_secret,
         bbs_ffi_commit_with_nym, bbs_ffi_blind_sign_with_nym,
         bbs_ffi_verify_blind_sign_with_nym, bbs_ffi_proof_gen_with_nym,
         bbs_ffi_proof_verify_with_nym

\* What IInv says of one handle.
LEMMA OwnedFacts ==
    ASSUME IInv
    PROVE  /\ \A s \in Slots : s \in held => Owned(s) = slot[s].data
           /\ \A s \in Slots : s \notin held => Owned(s) = vec[s].data
           /\ \A r \in Regions : Owned(r) = IF r \in held THEN region[r].data ELSE Null
           /\ \A s \in Slots : NullBuffer.data = Null
  BY HandleAssumption DEF Owned, NullBuffer

-----------------------------------------------------------------------------
LEMMA InitIInv == Init => IInv
  <1> SUFFICES ASSUME Init PROVE IInv OBVIOUS
  <1>1. TypeOK BY InitType
  <1>2. \A t \in Threads : Outs(t) = {} /\ call[t].uses = {} /\ call[t].pc = "idle"
    BY DEF Init, Outs, Idle, NoOuts
  <1>3. CallsApart BY <1>2 DEF Init, CallsApart
  <1>4. Results BY <1>2 DEF Init, Results, Pending
  <1>5. HeldSlots /\ HeldRegions BY DEF Init, HeldSlots, HeldRegions
  <1>6. \A h \in Handles : Owned(h) = Null BY DEF Init, Owned, Handles, NullBuffer
  <1>7. Exactly BY <1>6, NullAssumption DEF Init, Exactly
  <1> QED BY <1>1, <1>3, <1>4, <1>5, <1>7, ExactIff DEF IInv, NoUB, Init

\* The part of IInv that speaks of what the host holds, when it is not touched.
LEMMA HeldFrame ==
    ASSUME IInv, UNCHANGED <<heap, slot, region, held, receipt>>
    PROVE  HeldSlots' /\ HeldRegions'
  BY DEF IInv, HeldSlots, HeldRegions, Backed, BackedRegion

\* Steps that only change where a thread is in its call.
LEMMA CallStep ==
    ASSUME IInv, TypeOK', UNCHANGED <<heap, slot, region, vec, held, receipt, ub>>,
           CallsApart',
           NEW t \in Threads, ~Pending(t) \/ Outs(t) = {},
           \A u \in Threads : u # t => call'[u] = call[u],
           Pending(t)' => Outs(t)' = {}
    PROVE  IInv' /\ Moves
  <1>1. HeldSlots' /\ HeldRegions' BY HeldFrame
  <1>2. Exactly BY ExactIff DEF IInv
  <1>3. \A h \in Handles : Owned(h)' = Owned(h) BY DEF Owned
  <1>4. Exactly' /\ Moves BY <1>2, <1>3, SameOwners
  <1>5. Results'
    <2> SUFFICES ASSUME NEW s \in Slots
                 PROVE  \/ /\ vec[s] = NullBuffer
                           /\ \A u \in Threads : Pending(u)' => s \notin Outs(u)'
                        \/ \E u \in Threads : /\ Pending(u)' /\ s \in Outs(u)'
                                              /\ Backed(vec[s], KindOf(u, s)')
      BY DEF Results, Backed
    <2>1. \A u \in Threads : u # t =>
            /\ Pending(u)' <=> Pending(u)
            /\ Outs(u)' = Outs(u)
            /\ KindOf(u, s)' = KindOf(u, s)
      BY OutsFrame DEF Pending
    <2>2. CASE vec[s] = NullBuffer /\ \A u \in Threads : Pending(u) => s \notin Outs(u)
      BY <2>1, <2>2
    <2>3. CASE \E u \in Threads : Pending(u) /\ s \in Outs(u) /\ Backed(vec[s], KindOf(u, s))
      BY <2>1, <2>3
    <2> QED BY <2>2, <2>3 DEF IInv, Results
  <1>6. NoUB' BY DEF IInv, NoUB
  <1>7. (Ownership!Exact <=> Exactly)' BY <1>4, ExactIff, PTL
  <1> QED BY <1>1, <1>4, <1>5, <1>6, <1>7 DEF IInv
-----------------------------------------------------------------------------
(* The actions of a call. *)

\* What changing one thread's record to one with the outs of Vacant, or with
\* the outs it had, means for the separation of calls.
LEMMA ApartEnter ==
    ASSUME IInv, NEW t \in Threads, UNCHANGED <<slot, region, held>>,
           \A u \in Threads : u # t => call'[u] = call[u],
           Outs(t)' \subseteq Vacant,
           call'[t].uses \subseteq Lendable,
           call'[t].pc # "copy" => call'[t].uses = {},
           call'[t].pc \in {"copy", "lib"} => call'[t].code = "Ok"
    PROVE  CallsApart'
  <1>1. \A u \in Threads : u # t => Outs(u)' = Outs(u) BY OutsFrame
  <1>2. Lendable' = Lendable BY DEF Lendable, DataOf
  <1>3. \A s \in Vacant : s \notin held /\ \A u \in Threads : s \notin Outs(u)
    BY DEF Vacant
  <1> SUFFICES ASSUME NEW u \in Threads
               PROVE  /\ Outs(u)' \cap held = {}
                      /\ \A w \in Threads : w # u => Outs(w)' \cap Outs(u)' = {}
                      /\ call'[u].uses \subseteq Lendable
                      /\ call'[u].pc # "copy" => call'[u].uses = {}
                      /\ call'[u].pc \in {"copy", "lib"} => call'[u].code = "Ok"
    BY <1>2 DEF CallsApart
  <1>4. CallsApart BY DEF IInv
  <1>5. Outs(u)' \cap held = {} BY <1>1, <1>3, <1>4 DEF CallsApart
  <1>6. ASSUME NEW w \in Threads, w # u PROVE Outs(w)' \cap Outs(u)' = {}
    BY <1>1, <1>3, <1>4, <1>6 DEF CallsApart
  <1>7. /\ call'[u].uses \subseteq Lendable
        /\ call'[u].pc # "copy" => call'[u].uses = {}
        /\ call'[u].pc \in {"copy", "lib"} => call'[u].code = "Ok"
    BY <1>4 DEF CallsApart
  <1> QED BY <1>5, <1>6, <1>7

LEMMA ApartProgress ==
    ASSUME IInv, NEW t \in Threads, UNCHANGED <<slot, region, held>>,
           \A u \in Threads : u # t => call'[u] = call[u],
           UNCHANGED call[t].outs, call'[t].uses = {},
           call'[t].pc \in {"copy", "lib"} => call'[t].code = "Ok"
    PROVE  CallsApart'
  <1>1. \A u \in Threads : Outs(u)' = Outs(u) BY OutsFrame
  <1>2. Lendable' = Lendable BY DEF Lendable, DataOf
  <1>3. CallsApart BY DEF IInv
  <1> QED BY <1>1, <1>2, <1>3 DEF CallsApart

\* A thread that is not in a call has no outs.
LEMMA IdleFacts ==
    ASSUME TypeOK, NEW t \in Threads
    PROVE  call[t].pc = "idle" => Outs(t) = {} /\ ~Pending(t)
  <1> SUFFICES ASSUME call[t].pc = "idle" PROVE Outs(t) = {} /\ ~Pending(t) OBVIOUS
  <1>1. call[t].op = NoOp BY DEF TypeOK
  <1>2. DOMAIN call[t].outs = {} BY <1>1, OutsTyped, NoOpIsNoFunction
  <1> QED BY <1>2 DEF Outs, Pending

LEMMA EnterIInv ==
    ASSUME IInv, NEW t \in Threads, NEW op \in Functions,
           RejectNullOut(t) \/ RejectMissing(t, op) \/ Enter(t, op)
    PROVE  IInv' /\ Moves
  <1>1. TypeOK /\ TypeOK' BY EnterType DEF IInv
  <1>2. call[t].pc = "idle" /\ Outs(t) = {} /\ ~Pending(t)
    BY <1>1, IdleFacts DEF RejectNullOut, RejectMissing, Enter, Ready
  <1>3. call \in [Threads -> Calls] BY <1>1 DEF TypeOK
  <1>4. CASE RejectNullOut(t)
    <2>1. /\ \A u \in Threads : u # t => call'[u] = call[u]
          /\ call'[t].outs = call[t].outs /\ call'[t].uses = call[t].uses
          /\ call'[t].pc = "idle"
      BY <1>2, <1>3, <1>4 DEF RejectNullOut, Calls
    <2>2. call[t].uses = {} BY <1>2 DEF IInv, CallsApart
    <2>3. CallsApart' BY <1>4, <2>1, <2>2, ApartProgress DEF RejectNullOut
    <2>4. ~Pending(t)' BY <2>1 DEF Pending
    <2> QED BY <1>1, <1>2, <1>4, <2>1, <2>3, <2>4, CallStep DEF RejectNullOut
  <1>5. CASE RejectMissing(t, op)
    <2>1. PICK outs \in Injections(op.outs, Vacant) :
            call' = [call EXCEPT ![t] =
                       [pc |-> "return", op |-> op, outs |-> outs, uses |-> {},
                        code |-> "InvalidInput", yes |-> FALSE]]
      BY <1>5 DEF RejectMissing
    <2>2. /\ \A u \in Threads : u # t => call'[u] = call[u]
          /\ call'[t].outs = outs /\ call'[t].uses = {}
          /\ call'[t].pc = "return" /\ call'[t].code = "InvalidInput"
      BY <1>3, <2>1
    <2>3. Outs(t)' \subseteq Vacant BY <2>2 DEF Outs, Injections
    <2>4. CallsApart' BY <1>5, <2>2, <2>3, ApartEnter DEF RejectMissing
    <2>5. ~Pending(t)' BY <2>2 DEF Pending
    <2> QED BY <1>1, <1>2, <1>5, <2>2, <2>4, <2>5, CallStep DEF RejectMissing
  <1>6. CASE Enter(t, op)
    <2>1. PICK outs \in Injections(op.outs, Vacant), uses \in SUBSET Lendable :
            call' = [call EXCEPT ![t] =
                       [pc |-> "copy", op |-> op, outs |-> outs, uses |-> uses,
                        code |-> "Ok", yes |-> FALSE]]
      BY <1>6 DEF Enter
    <2>2. /\ \A u \in Threads : u # t => call'[u] = call[u]
          /\ call'[t].outs = outs /\ call'[t].uses = uses
          /\ call'[t].pc = "copy" /\ call'[t].code = "Ok"
      BY <1>3, <2>1
    <2>3. Outs(t)' \subseteq Vacant BY <2>2 DEF Outs, Injections
    <2>4. CallsApart' BY <1>6, <2>2, <2>3, ApartEnter DEF Enter
    <2>5. ~Pending(t)' BY <2>2 DEF Pending
    <2> QED BY <1>1, <1>2, <1>6, <2>2, <2>4, <2>5, CallStep DEF Enter
  <1> QED BY <1>4, <1>5, <1>6

\* Every handle that is lent to a call can be read.
LEMMA LentIsReadable ==
    ASSUME IInv, NEW h \in Lendable
    PROVE  Readable(h)
  <1>1. h \in held /\ h \in Handles /\ DataOf(h) # Null
    BY DEF Lendable, IInv, TypeOK
  <1>2. CASE h \in Slots
    <2>1. Backed(slot[h], receipt[h].kind)
      BY <1>1, <1>2 DEF IInv, HeldSlots, DataOf
    <2>2. slot[h] \in Buffers BY <1>2 DEF IInv, TypeOK
    <2>3. heap[slot[h].data].size = slot[h].cap BY <2>1 DEF Backed
    <2>4. slot[h].len <= slot[h].cap BY <2>1 DEF Backed
    <2>5. slot[h].data \in Addr /\ heap[slot[h].data] # NoBlock
      BY <2>1, <2>2, BackedIsLive
    <2> QED BY <1>2, <2>3, <2>4, <2>5 DEF Readable, DataOf, LenOf
  <1>3. CASE h \notin Slots
    <2>1. h \in Regions BY <1>1, <1>3 DEF Handles
    <2>2. BackedRegion(region[h]) BY <1>1, <1>3, <2>1 DEF IInv, HeldRegions, DataOf
    <2>3. region[h] \in Regional BY <2>1 DEF IInv, TypeOK
    <2>4. heap[region[h].data].size = region[h].len BY <2>2 DEF BackedRegion
    <2>5. region[h].data \in Addr /\ heap[region[h].data] # NoBlock
      BY <2>2, <2>3, RegionIsLive
    <2>6. region[h].len <= region[h].len BY <2>3 DEF Regional
    <2> QED BY <1>3, <2>4, <2>5, <2>6 DEF Readable, DataOf, LenOf
  <1> QED BY <1>2, <1>3

LEMMA LibIInv ==
    ASSUME IInv, NEW t \in Threads, CopyInputs(t) \/ LibAnswer(t) \/ LibErr(t)
    PROVE  IInv' /\ Moves
  <1>1. TypeOK /\ TypeOK' BY LibType DEF IInv
  <1>2. call \in [Threads -> Calls] BY <1>1 DEF TypeOK
  <1>3. ~Pending(t) BY DEF CopyInputs, LibAnswer, LibErr, Pending
  <1>4. CASE CopyInputs(t)
    <2>1. /\ \A u \in Threads : u # t => call'[u] = call[u]
          /\ call'[t].outs = call[t].outs /\ call'[t].uses = {}
          /\ call'[t].pc = "lib" /\ call'[t].code = call[t].code
      BY <1>2, <1>4 DEF CopyInputs, Calls
    <2>2. call[t].code = "Ok" BY <1>4 DEF CopyInputs, IInv, CallsApart
    <2>3. CallsApart' BY <1>4, <2>1, <2>2, ApartProgress DEF CopyInputs
    <2>4. ~Pending(t)' BY <2>1 DEF Pending
    <2>5. \A h \in call[t].uses : Readable(h) BY LentIsReadable DEF IInv, CallsApart
    <2>6. ub' = ub
      <3>1. ub' = (ub \/ \E h \in call[t].uses : ~Readable(h)) BY <1>4 DEF CopyInputs
      <3>2. ub = FALSE BY <1>1 DEF IInv, NoUB, TypeOK
      <3> QED BY <2>5, <3>1, <3>2, Zenon
    <2> QED BY <1>1, <1>3, <1>4, <2>1, <2>3, <2>4, <2>6, CallStep DEF CopyInputs
  <1>5. CASE LibAnswer(t)
    <2>1. PICK yes \in BOOLEAN :
            call' = [call EXCEPT ![t].pc = "return", ![t].yes = yes]
      BY <1>5 DEF LibAnswer
    <2>2. /\ \A u \in Threads : u # t => call'[u] = call[u]
          /\ call'[t].outs = call[t].outs /\ call'[t].uses = call[t].uses
          /\ call'[t].pc = "return"
      BY <1>2, <2>1 DEF Calls
    <2>3. call[t].uses = {} BY <1>5 DEF LibAnswer, IInv, CallsApart
    <2>4. CallsApart' BY <1>5, <2>2, <2>3, ApartProgress DEF LibAnswer
    <2>5. Outs(t)' = {}
      <3>1. call[t].op.outs = {} BY <1>1, <1>5, OutsTyped, AnswersHaveNoOuts DEF LibAnswer
      <3>2. DOMAIN call[t].outs = {} BY <1>1, <3>1, OutsTyped
      <3> QED BY <2>2, <3>2 DEF Outs
    <2> QED BY <1>1, <1>3, <1>5, <2>2, <2>4, <2>5, CallStep DEF LibAnswer
  <1>6. CASE LibErr(t)
    <2>1. /\ \A u \in Threads : u # t => call'[u] = call[u]
          /\ call'[t].outs = call[t].outs /\ call'[t].uses = call[t].uses
          /\ call'[t].pc = "return" /\ call'[t].code = call[t].op.err
      BY <1>2, <1>6 DEF LibErr, Calls
    <2>2. call[t].uses = {} BY <1>6 DEF LibErr, IInv, CallsApart
    <2>3. CallsApart' BY <1>6, <2>1, <2>2, ApartProgress DEF LibErr
    <2>4. call[t].op \in Functions BY <1>1, <1>2, <1>6 DEF LibErr, TypeOK, Calls
    <2>5. ~Pending(t)' BY <2>1, <2>4, FunctionFacts DEF Pending
    <2> QED BY <1>1, <1>3, <1>6, <2>1, <2>3, <2>5, CallStep DEF LibErr
  <1> QED BY <1>4, <1>5, <1>6

\* Blocks that are in use stay as they are when only free addresses are filled.
LEMMA FillFrame ==
    ASSUME IInv, \A a \in Addr : heap[a] # NoBlock => heap'[a] = heap[a]
    PROVE  /\ \A b \in Buffers : \A k : Backed(b, k) => Backed(b, k)'
           /\ \A b \in Regional : BackedRegion(b) => BackedRegion(b)'
  <1>1. ASSUME NEW b \in Buffers, NEW k, Backed(b, k) PROVE Backed(b, k)'
    <2>1. b.data \in Addr /\ heap[b.data] # NoBlock BY <1>1, BackedIsLive
    <2> QED BY <1>1, <2>1, BackedFrame
  <1>2. ASSUME NEW b \in Regional, BackedRegion(b) PROVE BackedRegion(b)'
    <2>1. b.data \in Addr /\ heap[b.data] # NoBlock BY <1>2, RegionIsLive
    <2> QED BY <1>2, <2>1, RegionFrame
  <1> QED BY <1>1, <1>2

\* A struct that is no out parameter of a pending call has no result waiting.
LEMMA NoResult ==
    ASSUME IInv, NEW s \in Slots, \A u \in Threads : Pending(u) => s \notin Outs(u)
    PROVE  vec[s] = NullBuffer
  BY DEF IInv, Results

LEMMA LibOkIInv ==
    ASSUME IInv, NEW t \in Threads, LibOk(t)
    PROVE  IInv' /\ Moves
  <1>1. TypeOK /\ TypeOK' BY LibType DEF IInv
  <1>2. call \in [Threads -> Calls] BY <1>1 DEF TypeOK
  <1> DEFINE outs == call[t].outs
             ks == call[t].op.outs
  <1>3. PICK at \in Injections(ks, FreeAddr), shape \in Shapes :
          /\ heap' = [a \in Addr |->
                        IF \E k \in ks : at[k] = a
                        THEN [size |-> shape.cap, align |-> 1,
                              kind |-> CHOOSE k \in ks : at[k] = a]
                        ELSE heap[a]]
          /\ vec' = [s \in Slots |->
                       IF s \in Outs(t)
                       THEN [data |-> at[KindOf(t, s)], len |-> shape.len, cap |-> shape.cap]
                       ELSE vec[s]]
    BY DEF LibOk
  <1>4. /\ \A u \in Threads : u # t => call'[u] = call[u]
        /\ call'[t].outs = outs /\ call'[t].uses = call[t].uses
        /\ call'[t].pc = "return" /\ call'[t].code = call[t].code
    BY <1>2 DEF LibOk, Calls
  <1>5. call[t].uses = {} /\ call[t].code = "Ok" /\ call[t].pc = "lib"
    BY DEF LibOk, IInv, CallsApart
  <1>6. CallsApart' BY <1>4, <1>5, ApartProgress DEF LibOk
  <1>7. /\ \A u \in Threads : Outs(u)' = Outs(u)
        /\ \A u \in Threads : \A s : KindOf(u, s)' = KindOf(u, s)
        /\ \A u \in Threads : u # t => (Pending(u)' <=> Pending(u))
        /\ Pending(t)' /\ ~Pending(t)
    BY <1>4, <1>5, OutsFrame DEF Pending
  <1>8. /\ at \in [ks -> Addr]
        /\ \A k \in ks : heap[at[k]] = NoBlock
        /\ \A j, k \in ks : at[j] = at[k] => j = k
    BY DEF Injections, FreeAddr
  <1>9. /\ shape.len \in Nat /\ shape.cap \in Nat /\ 1 <= shape.len /\ shape.len <= shape.cap
    BY ShapeAssumption
  <1>10. \A a \in Addr : heap[a] # NoBlock => heap'[a] = heap[a]
    BY <1>3, <1>8
  <1>11. \A s \in Outs(t) : KindOf(t, s) \in ks /\ outs[KindOf(t, s)] = s /\ s \in Slots
    BY <1>1, OutsTyped
  <1>12. \A s \in Outs(t) : /\ heap'[at[KindOf(t, s)]] =
                                 [size |-> shape.cap, align |-> 1, kind |-> KindOf(t, s)]
                            /\ at[KindOf(t, s)] \in Addr
    <2> SUFFICES ASSUME NEW s \in Outs(t)
                 PROVE  /\ heap'[at[KindOf(t, s)]] =
                              [size |-> shape.cap, align |-> 1, kind |-> KindOf(t, s)]
                        /\ at[KindOf(t, s)] \in Addr
      OBVIOUS
    <2>1. KindOf(t, s) \in ks BY <1>11
    <2>2. at[KindOf(t, s)] \in Addr BY <1>8, <2>1
    <2>3. (CHOOSE k \in ks : at[k] = at[KindOf(t, s)]) = KindOf(t, s)
      BY <1>8, <2>1
    <2> HIDE DEF ks
    <2> QED BY <1>3, <2>1, <2>2, <2>3
  <1>13. HeldSlots'
    <2> SUFFICES ASSUME NEW s \in Slots \cap held
                 PROVE  \/ receipt[s].code = "Ok" /\ Backed(slot[s], receipt[s].kind)'
                        \/ receipt[s].code # "Ok" /\ slot[s].data = Null
      BY DEF HeldSlots, LibOk, Backed
    <2>1. slot[s] \in Buffers BY <1>1 DEF TypeOK
    <2>2. slot'[s] = slot[s] /\ receipt'[s] = receipt[s] BY DEF LibOk
    <2>3. CASE receipt[s].code = "Ok" /\ Backed(slot[s], receipt[s].kind)
      BY <1>10, <2>1, <2>2, <2>3, FillFrame DEF Backed
    <2> QED BY <2>3 DEF IInv, HeldSlots
  <1>14. HeldRegions'
    <2> SUFFICES ASSUME NEW r \in Regions \cap held
                 PROVE  region[r].data = Null \/ BackedRegion(region[r])'
      BY DEF HeldRegions, LibOk, BackedRegion
    <2>1. region[r] \in Regional BY <1>1 DEF TypeOK
    <2>2. region'[r] = region[r] BY DEF LibOk
    <2>3. CASE BackedRegion(region[r])
      BY <1>10, <2>1, <2>2, <2>3, FillFrame DEF BackedRegion
    <2> QED BY <2>3 DEF IInv, HeldRegions
  <1>15. \A s \in Outs(t) : vec[s] = NullBuffer /\ s \notin held
    <2> SUFFICES ASSUME NEW s \in Outs(t) PROVE vec[s] = NullBuffer /\ s \notin held
      OBVIOUS
    <2>1. s \notin held /\ \A u \in Threads : u # t => s \notin Outs(u)
      BY DEF IInv, CallsApart
    <2> QED BY <1>7, <1>11, <2>1, NoResult
  <1>16. Results'
    <2> SUFFICES ASSUME NEW s \in Slots
                 PROVE  \/ /\ vec'[s] = NullBuffer
                           /\ \A u \in Threads : Pending(u)' => s \notin Outs(u)
                        \/ \E u \in Threads : /\ Pending(u)' /\ s \in Outs(u)
                                              /\ Backed(vec[s], KindOf(u, s))'
      BY <1>7 DEF Results
    <2>1. CASE s \in Outs(t)
      <3>1. vec'[s] = [data |-> at[KindOf(t, s)], len |-> shape.len, cap |-> shape.cap]
        BY <1>3, <2>1
      <3>2. KindOf(t, s)' = KindOf(t, s) BY <1>7
      <3>3. Backed(vec[s], KindOf(t, s))'
        BY <1>9, <1>12, <2>1, <3>1, <3>2 DEF Backed
      <3> QED BY <1>7, <2>1, <3>3
    <2>2. CASE s \notin Outs(t)
      <3>1. vec'[s] = vec[s] /\ vec[s] \in Buffers BY <1>1, <1>3, <2>2 DEF TypeOK
      <3>2. CASE /\ vec[s] = NullBuffer
                 /\ \A u \in Threads : Pending(u) => s \notin Outs(u)
        BY <1>7, <2>2, <3>1, <3>2
      <3>3. ASSUME NEW u \in Threads, Pending(u), s \in Outs(u), Backed(vec[s], KindOf(u, s))
            PROVE  Pending(u)' /\ s \in Outs(u) /\ Backed(vec[s], KindOf(u, s))'
        <4>1. u # t BY <1>7, <3>3
        <4>2. KindOf(u, s)' = KindOf(u, s) BY <1>7
        <4> QED BY <1>7, <1>10, <3>1, <3>3, <4>1, <4>2, FillFrame DEF Backed
      <3> QED BY <3>2, <3>3 DEF IInv, Results
    <2> QED BY <2>1, <2>2
  <1>17. Exactly' /\ Moves
    <2> DEFINE H == Outs(t)
               got == [s \in H |-> at[KindOf(t, s)]]
    <2>1. H \in SUBSET Handles BY <1>11 DEF Handles
    <2>2. got \in [H -> Addr] BY <1>12
    <2>3. \A g, h \in H : got[g] = got[h] => g = h
      BY <1>8, <1>11
    <2>4. \A h \in H : Owned(h) = Null /\ heap[got[h]] = NoBlock
      BY <1>8, <1>11, <1>15 DEF Owned, NullBuffer
    <2>5. \A h \in Handles : Owned(h)' = IF h \in H THEN got[h] ELSE Owned(h)
      <3> SUFFICES ASSUME NEW h \in Handles
                   PROVE  Owned(h)' = IF h \in H THEN got[h] ELSE Owned(h)
        OBVIOUS
      <3>1. held' = held /\ slot' = slot /\ region' = region BY DEF LibOk
      <3>2. CASE h \in H
        BY <1>3, <1>11, <1>15, <3>1, <3>2 DEF Owned
      <3>3. CASE h \notin H
        BY <1>3, <3>1, <3>3 DEF Owned
      <3> QED BY <3>2, <3>3
    <2>6. \A a \in Addr : IF \E h \in H : got[h] = a THEN heap'[a] # NoBlock
                          ELSE heap'[a] = heap[a]
      <3> SUFFICES ASSUME NEW a \in Addr
                   PROVE  IF \E h \in H : got[h] = a THEN heap'[a] # NoBlock
                          ELSE heap'[a] = heap[a]
        OBVIOUS
      <3>1. ASSUME NEW h \in H, got[h] = a PROVE heap'[a] # NoBlock
        <4>1. got[h] = at[KindOf(t, h)] OBVIOUS
        <4>2. heap'[a] = [size |-> shape.cap, align |-> 1, kind |-> KindOf(t, h)]
          BY <1>12, <3>1, <4>1
        <4>3. NoBlock.size = 0 BY DEF NoBlock
        <4> QED BY <1>9, <4>2, <4>3
      <3>2. ASSUME ~\E h \in H : got[h] = a PROVE heap'[a] = heap[a]
        <4>1. ASSUME NEW k \in ks, at[k] = a PROVE FALSE
          <5>1. outs[k] \in H /\ KindOf(t, outs[k]) = k
            BY <1>1, <1>11, OutsTyped DEF Outs
          <5> QED BY <3>2, <4>1, <5>1
        <4> QED BY <1>3, <4>1
      <3> QED BY <3>1, <3>2
    <2>7. Exactly BY <1>1, ExactIff DEF IInv
    <2> HIDE DEF H, got
    <2> QED BY <2>1, <2>2, <2>3, <2>4, <2>5, <2>6, <2>7, NewOwners DEF Acquired
  <1>18. NoUB' BY DEF LibOk, IInv, NoUB
  <1>19. Ownership!Exact' BY <1>1, <1>17, ExactIff, PTL
  <1> QED BY <1>1, <1>6, <1>13, <1>14, <1>16, <1>17, <1>18, <1>19 DEF IInv
-----------------------------------------------------------------------------
(* Returning. *)

\* The hand-over of the outs, which are not lent to anybody.
LEMMA ApartReturn ==
    ASSUME IInv, NEW t \in Threads, TypeOK', HandOver(t), UNCHANGED region,
           call[t].pc = "return",
           \A s \in Slots : s \notin Outs(t) => slot'[s] = slot[s]
    PROVE  /\ CallsApart'
           /\ \A u \in Threads : u # t => /\ Outs(u)' = Outs(u)
                                          /\ Pending(u)' <=> Pending(u)
                                          /\ \A s : KindOf(u, s)' = KindOf(u, s)
           /\ Outs(t)' = {} /\ ~Pending(t)'
  <1>1. call \in [Threads -> Calls] BY DEF IInv, TypeOK
  <1>2. /\ \A u \in Threads : u # t => call'[u] = call[u]
        /\ call'[t] = Idle(call[t].code)
        /\ held' = held \cup Outs(t)
    BY <1>1 DEF HandOver
  <1>3. \A u \in Threads : u # t => /\ Outs(u)' = Outs(u)
                                    /\ Pending(u)' <=> Pending(u)
                                    /\ \A s : KindOf(u, s)' = KindOf(u, s)
    BY <1>2, OutsFrame DEF Pending
  <1>4. Outs(t)' = {} /\ ~Pending(t)' /\ call'[t].uses = {} /\ call'[t].pc = "idle"
    BY <1>2 DEF Idle, NoOuts, Outs, Pending
  <1>5. CallsApart BY DEF IInv
  <1>6. Lendable \subseteq Lendable'
    <2> SUFFICES ASSUME NEW h \in Lendable PROVE h \in Lendable' OBVIOUS
    <2>1. h \in held /\ DataOf(h) # Null BY DEF Lendable
    <2>2. h \notin Outs(t) BY <1>5, <2>1 DEF CallsApart
    <2>3. DataOf(h)' = DataOf(h) BY <2>2 DEF DataOf
    <2> QED BY <1>2, <2>1, <2>3 DEF Lendable
  <1>7. CallsApart'
    <2> SUFFICES ASSUME NEW u \in Threads
                 PROVE  /\ Outs(u)' \cap held' = {}
                        /\ \A w \in Threads : w # u => Outs(w)' \cap Outs(u)' = {}
                        /\ call'[u].uses \subseteq Lendable'
                        /\ call'[u].pc # "copy" => call'[u].uses = {}
                        /\ call'[u].pc \in {"copy", "lib"} => call'[u].code = "Ok"
      BY DEF CallsApart
    <2>1. CASE u = t BY <1>4, <2>1
    <2>2. CASE u # t
      <3>1. Outs(u)' \cap held' = {} BY <1>2, <1>3, <1>5, <2>2 DEF CallsApart
      <3>2. ASSUME NEW w \in Threads, w # u PROVE Outs(w)' \cap Outs(u)' = {}
        BY <1>3, <1>4, <1>5, <2>2, <3>2 DEF CallsApart
      <3>3. /\ call'[u].uses \subseteq Lendable'
            /\ call'[u].pc # "copy" => call'[u].uses = {}
            /\ call'[u].pc \in {"copy", "lib"} => call'[u].code = "Ok"
        BY <1>2, <1>5, <1>6, <2>2 DEF CallsApart
      <3> QED BY <3>1, <3>2, <3>3
    <2> QED BY <2>1, <2>2
  <1> QED BY <1>3, <1>4, <1>7

LEMMA WriteIInv ==
    ASSUME IInv, NEW t \in Threads, WriteBuffers(t) \/ WriteNulls(t)
    PROVE  IInv' /\ Moves
  <1>1. TypeOK /\ TypeOK' BY ReturnType DEF IInv
  <1>2. Outs(t) \subseteq Slots BY <1>1, OutsTyped
  <1>3. /\ HandOver(t) /\ call[t].pc = "return"
        /\ UNCHANGED <<heap, region, ub>>
        /\ \A s \in Slots : s \notin Outs(t) => slot'[s] = slot[s] /\ vec'[s] = vec[s]
    BY <1>1 DEF WriteBuffers, WriteNulls, TypeOK
  <1>4. /\ CallsApart'
        /\ \A u \in Threads : u # t => /\ Outs(u)' = Outs(u)
                                       /\ Pending(u)' <=> Pending(u)
                                       /\ \A s : KindOf(u, s)' = KindOf(u, s)
        /\ Outs(t)' = {} /\ ~Pending(t)'
    BY <1>1, <1>3, ApartReturn
  <1>5. /\ held' = held \cup Outs(t)
        /\ \A s \in Outs(t) : receipt'[s] = [code |-> call[t].code, kind |-> KindOf(t, s)]
        /\ \A s \in Slots : s \notin Outs(t) => receipt'[s] = receipt[s]
    BY <1>2, <1>3 DEF HandOver
  <1>6. \A s \in Outs(t) : s \notin held /\ \A u \in Threads : u # t => s \notin Outs(u)
    BY DEF IInv, CallsApart
  \* What is written is the result, or null when there is none.
  <1>7. \A s \in Outs(t) :
          /\ vec'[s] = NullBuffer /\ slot'[s].data = vec[s].data
          /\ \/ call[t].code = "Ok" /\ Backed(slot'[s], KindOf(t, s))
             \/ call[t].code # "Ok" /\ slot'[s].data = Null
    <2> SUFFICES ASSUME NEW s \in Outs(t)
                 PROVE  /\ vec'[s] = NullBuffer /\ slot'[s].data = vec[s].data
                        /\ \/ call[t].code = "Ok" /\ Backed(slot'[s], KindOf(t, s))
                           \/ call[t].code # "Ok" /\ slot'[s].data = Null
      OBVIOUS
    <2>1. CASE WriteBuffers(t)
      <3>1. slot'[s] = vec[s] /\ vec'[s] = NullBuffer /\ call[t].code = "Ok"
        BY <1>2, <2>1 DEF WriteBuffers
      <3>2. Pending(t) BY <1>3, <3>1 DEF Pending
      <3>3. Backed(vec[s], KindOf(t, s)) BY <1>2, <1>6, <3>2 DEF IInv, Results
      <3> QED BY <3>1, <3>3
    <2>2. CASE WriteNulls(t)
      <3>1. slot'[s] = NullBuffer /\ vec'[s] = vec[s] /\ call[t].code # "Ok"
        BY <1>2, <2>2 DEF WriteNulls
      <3>2. ~Pending(t) BY <3>1 DEF Pending
      <3>3. vec[s] = NullBuffer BY <1>2, <1>6, <3>2, NoResult
      <3> QED BY <3>1, <3>3 DEF NullBuffer
    <2> QED BY <2>1, <2>2
  <1>8. HeldSlots'
    <2> SUFFICES ASSUME NEW s \in Slots, s \in held'
                 PROVE  \/ receipt'[s].code = "Ok" /\ Backed(slot[s], receipt[s].kind)'
                        \/ receipt'[s].code # "Ok" /\ slot'[s].data = Null
      BY DEF HeldSlots
    <2>1. CASE s \in Outs(t)
      <3>1. receipt'[s].code = call[t].code /\ receipt'[s].kind = KindOf(t, s)
        <4>1. receipt'[s] = [code |-> call[t].code, kind |-> KindOf(t, s)]
          BY <1>5, <2>1
        <4> QED BY <4>1
      <3>2. CASE call[t].code = "Ok" /\ Backed(slot'[s], KindOf(t, s))
        BY <1>3, <3>1, <3>2 DEF Backed
      <3>3. CASE call[t].code # "Ok" /\ slot'[s].data = Null
        BY <3>1, <3>3
      <3> QED BY <1>7, <2>1, <3>2, <3>3
    <2>2. CASE s \notin Outs(t)
      <3>1. s \in held BY <1>5, <2>2
      <3> QED BY <1>3, <1>5, <2>2, <3>1 DEF IInv, HeldSlots, Backed
    <2> QED BY <2>1, <2>2
  <1>9. HeldRegions'
    <2>1. \A r \in Regions : r \in held' => r \in held
      BY <1>2, <1>5, HandleAssumption
    <2> QED BY <1>3, <2>1 DEF IInv, HeldRegions, BackedRegion
  <1>10. Results'
    <2> SUFFICES ASSUME NEW s \in Slots
                 PROVE  \/ /\ vec'[s] = NullBuffer
                           /\ \A u \in Threads : Pending(u)' => s \notin Outs(u)'
                        \/ \E u \in Threads : /\ Pending(u)' /\ s \in Outs(u)'
                                              /\ Backed(vec[s], KindOf(u, s))'
      BY DEF Results
    <2>1. CASE s \in Outs(t) BY <1>4, <1>6, <1>7, <2>1
    <2>2. CASE s \notin Outs(t)
      <3>1. CASE vec[s] = NullBuffer /\ \A u \in Threads : Pending(u) => s \notin Outs(u)
        BY <1>3, <1>4, <2>2, <3>1
      <3>2. ASSUME NEW u \in Threads, Pending(u), s \in Outs(u), Backed(vec[s], KindOf(u, s))
            PROVE  Pending(u)' /\ s \in Outs(u)' /\ Backed(vec[s], KindOf(u, s))'
        <4>1. u # t BY <2>2, <3>2
        <4>2. KindOf(u, s)' = KindOf(u, s) BY <1>4, <4>1
        <4> QED BY <1>3, <1>4, <2>2, <3>2, <4>1, <4>2 DEF Backed
      <3> QED BY <3>1, <3>2 DEF IInv, Results
    <2> QED BY <2>1, <2>2
  <1>11. \A h \in Handles : Owned(h)' = Owned(h)
    <2> SUFFICES ASSUME NEW h \in Handles PROVE Owned(h)' = Owned(h) OBVIOUS
    <2>1. CASE h \in Outs(t) BY <1>2, <1>5, <1>6, <1>7, <2>1 DEF Owned
    <2>2. CASE h \notin Outs(t) BY <1>3, <1>5, <2>2 DEF Owned
    <2> QED BY <2>1, <2>2
  <1>12. Exactly BY <1>1, ExactIff DEF IInv
  <1>13. Exactly' /\ Moves BY <1>3, <1>11, <1>12, SameOwners
  <1>14. Ownership!Exact' BY <1>1, <1>13, ExactIff, PTL
  <1>15. NoUB' BY <1>3 DEF IInv, NoUB
  <1> QED BY <1>1, <1>4, <1>8, <1>9, <1>10, <1>13, <1>14, <1>15 DEF IInv

LEMMA WriteAnswerIInv ==
    ASSUME IInv, NEW t \in Threads, WriteAnswer(t)
    PROVE  IInv' /\ Moves
  <1>1. TypeOK /\ TypeOK' BY ReturnType DEF IInv
  <1>2. call \in [Threads -> Calls] BY <1>1 DEF TypeOK
  <1>3. Outs(t) = {}
    <2>1. call[t].op.outs = {} BY <1>1, OutsTyped, AnswersHaveNoOuts DEF WriteAnswer
    <2>2. DOMAIN call[t].outs = {} BY <1>1, <2>1, OutsTyped
    <2> QED BY <2>2 DEF Outs
  <1>4. /\ \A u \in Threads : u # t => call'[u] = call[u]
        /\ call'[t] = Idle(call[t].code)
    BY <1>2 DEF WriteAnswer
  <1>5. Outs(t)' = {} /\ call'[t].uses = {} /\ call'[t].pc = "idle"
    BY <1>4 DEF Idle, NoOuts, Outs
  <1>6. CallsApart' BY <1>4, <1>5, ApartEnter DEF WriteAnswer
  <1> QED BY <1>1, <1>3, <1>4, <1>5, <1>6, CallStep DEF WriteAnswer
-----------------------------------------------------------------------------
(* Freeing and allocating. *)

\* A handle that no call reads is given back, with the block it owns.
LEMMA ReleaseStep ==
    ASSUME IInv, TypeOK', NEW h \in Freeable,
           UNCHANGED <<slot, region, vec, call, ub>>,
           held' = held \ {h},
           \A s \in Slots : s # h => receipt'[s] = receipt[s],
           \/ Owned(h) = Null /\ heap' = heap
           \/ Owned(h) \in Addr /\ heap' = [heap EXCEPT ![Owned(h)] = NoBlock]
    PROVE  IInv' /\ Moves
  <1>1. /\ TypeOK /\ Exactly /\ CallsApart
        /\ heap \in [Addr -> Blocks] /\ h \in Handles /\ h \in held
    BY ExactIff DEF IInv, TypeOK, Freeable
  <1>2. \A g \in Handles : g # h /\ Owned(g) # Null => heap'[Owned(g)] = heap[Owned(g)]
    <2> SUFFICES ASSUME NEW g \in Handles, g # h, Owned(g) # Null
                 PROVE  heap'[Owned(g)] = heap[Owned(g)]
      OBVIOUS
    <2>1. Owned(g) # Owned(h) BY <1>1 DEF Exactly
    <2>2. Owned(g) \in Addr BY <1>1, OwnedType
    <2> QED BY <1>1, <2>1, <2>2
  <1>3. /\ \A u \in Threads : Outs(u)' = Outs(u)
        /\ \A u \in Threads : Pending(u)' <=> Pending(u)
        /\ \A u \in Threads : \A s : KindOf(u, s)' = KindOf(u, s)
    BY DEF Outs, Pending, KindOf
  <1>4. CallsApart'
    <2>1. \A u \in Threads : call[u].uses \subseteq Lendable'
      <3> SUFFICES ASSUME NEW u \in Threads, NEW g \in call[u].uses PROVE g \in Lendable'
        OBVIOUS
      <3>1. g \in Lendable /\ g # h BY <1>1 DEF CallsApart, Freeable
      <3> QED BY <3>1 DEF Lendable, DataOf
    <2> QED BY <1>1, <1>3, <2>1 DEF CallsApart
  <1>5. HeldSlots'
    <2> SUFFICES ASSUME NEW s \in Slots, s \in held, s # h
                 PROVE  \/ receipt[s].code = "Ok" /\ Backed(slot[s], receipt[s].kind)'
                        \/ receipt[s].code # "Ok" /\ slot[s].data = Null
      BY DEF HeldSlots, Backed
    <2>1. s \in Handles /\ Owned(s) = slot[s].data BY DEF Handles, Owned
    <2>2. CASE receipt[s].code = "Ok" /\ Backed(slot[s], receipt[s].kind)
      <3>1. Owned(s) # Null BY <2>1, <2>2, NullAssumption DEF Backed
      <3>2. heap'[slot[s].data] = heap[slot[s].data] BY <1>2, <2>1, <3>1
      <3>3. receipt'[s] = receipt[s] OBVIOUS
      <3> QED BY <2>2, <3>2, <3>3 DEF Backed
    <2> QED BY <2>2 DEF IInv, HeldSlots
  <1>6. HeldRegions'
    <2> SUFFICES ASSUME NEW r \in Regions, r \in held, r # h
                 PROVE  region[r].data = Null \/ BackedRegion(region[r])'
      BY DEF HeldRegions, BackedRegion
    <2>1. r \in Handles /\ Owned(r) = region[r].data
      BY HandleAssumption DEF Handles, Owned
    <2>2. CASE BackedRegion(region[r])
      <3>1. Owned(r) # Null BY <2>1, <2>2, NullAssumption DEF BackedRegion
      <3>2. heap'[region[r].data] = heap[region[r].data] BY <1>2, <2>1, <3>1
      <3> QED BY <2>2, <3>2 DEF BackedRegion
    <2> QED BY <2>2 DEF IInv, HeldRegions
  <1>7. Results'
    <2> SUFFICES ASSUME NEW s \in Slots
                 PROVE  \/ /\ vec[s] = NullBuffer
                           /\ \A u \in Threads : Pending(u) => s \notin Outs(u)
                        \/ \E u \in Threads : /\ Pending(u) /\ s \in Outs(u)
                                              /\ Backed(vec[s], KindOf(u, s))'
      BY <1>3 DEF Results, Backed
    <2>1. ASSUME NEW u \in Threads, Pending(u), s \in Outs(u), Backed(vec[s], KindOf(u, s))
          PROVE  Backed(vec[s], KindOf(u, s))'
      <3>1. s \notin held BY <1>1, <2>1 DEF CallsApart
      <3>2. s \in Handles /\ Owned(s) = vec[s].data /\ s # h
        BY <1>1, <3>1 DEF Handles, Owned
      <3>3. Owned(s) # Null BY <2>1, <3>2, NullAssumption DEF Backed
      <3>4. heap'[vec[s].data] = heap[vec[s].data] BY <1>2, <3>2, <3>3
      <3>5. KindOf(u, s)' = KindOf(u, s) BY <1>3
      <3> QED BY <2>1, <3>4, <3>5 DEF Backed
    <2> QED BY <2>1 DEF IInv, Results
  <1>8. Owned(h)' = Null
    <2>1. CASE h \in Slots
      <3>1. \A u \in Threads : h \notin Outs(u) BY <1>1 DEF CallsApart
      <3>2. vec[h] = NullBuffer BY <2>1, <3>1, NoResult
      <3> QED BY <2>1, <3>2 DEF Owned, NullBuffer
    <2>2. CASE h \notin Slots BY <2>2 DEF Owned
    <2> QED BY <2>1, <2>2
  <1>9. \A g \in Handles : g # h => Owned(g)' = Owned(g)
    BY DEF Owned
  <1>10. Exactly' /\ Moves
    <2>1. CASE Owned(h) = Null /\ heap' = heap
      <3>1. \A g \in Handles : Owned(g)' = Owned(g) BY <1>8, <1>9, <2>1
      <3> QED BY <1>1, <2>1, <3>1, SameOwners
    <2>2. CASE Owned(h) \in Addr /\ heap' = [heap EXCEPT ![Owned(h)] = NoBlock]
      <3>1. heap'[Owned(h)] = NoBlock /\ \A b \in Addr : b # Owned(h) => heap'[b] = heap[b]
        BY <1>1, <2>2
      <3> QED BY <1>1, <1>8, <1>9, <2>2, <3>1, LostOwner DEF Released
    <2> QED BY <2>1, <2>2
  <1>11. Ownership!Exact' BY <1>10, ExactIff, PTL
  <1>12. NoUB' BY DEF IInv, NoUB
  <1> QED BY <1>4, <1>5, <1>6, <1>7, <1>10, <1>11, <1>12 DEF IInv

LEMMA FreeBufferIInv ==
    ASSUME IInv, NEW s \in Slots, bbs_ffi_free_buffer(s)
    PROVE  IInv' /\ Moves
  <1>1. TypeOK /\ TypeOK' BY MemoryType DEF IInv
  <1>2. s \in Freeable /\ s \in held BY DEF bbs_ffi_free_buffer, Freeable
  <1>3. Owned(s) = slot[s].data BY <1>2 DEF Owned
  <1>4. slot[s] \in Buffers BY <1>1 DEF TypeOK
  <1>5. \A q \in Slots : q # s => receipt'[q] = receipt[q]
    BY <1>1 DEF bbs_ffi_free_buffer, TypeOK
  <1>6. \/ ub' = ub /\ Owned(s) = Null /\ heap' = heap
        \/ ub' = ub /\ Owned(s) \in Addr /\ heap' = [heap EXCEPT ![Owned(s)] = NoBlock]
    <2>1. CASE slot[s].data = Null BY <1>3, <2>1 DEF bbs_ffi_free_buffer
    <2>2. CASE slot[s].data # Null
      <3>1. Backed(slot[s], receipt[s].kind) BY <1>2, <2>2 DEF IInv, HeldSlots
      <3>2. /\ heap[slot[s].data].size = slot[s].cap
            /\ heap[slot[s].data].align = 1
        BY <3>1 DEF Backed
      <3>3. slot[s].data \in Addr /\ heap[slot[s].data] # NoBlock
        BY <1>4, <3>1, BackedIsLive
      <3>4. slot[s].cap > 0 BY <1>4, <3>1 DEF Backed, Buffers
      <3>5. Deallocate(slot[s].data, slot[s].cap, 1)
        BY <2>2, <3>4 DEF bbs_ffi_free_buffer
      <3> QED BY <1>3, <3>2, <3>3, <3>5 DEF Deallocate
    <2> QED BY <2>1, <2>2
  <1> QED BY <1>1, <1>2, <1>5, <1>6, ReleaseStep DEF bbs_ffi_free_buffer

LEMMA DeallocIInv ==
    ASSUME IInv, NEW r \in Regions, bbs_ffi_dealloc(r)
    PROVE  IInv' /\ Moves
  <1>1. TypeOK /\ TypeOK' BY MemoryType DEF IInv
  <1>2. r \in Freeable /\ r \in held /\ r \notin Slots
    BY HandleAssumption DEF bbs_ffi_dealloc, Freeable
  <1>3. Owned(r) = region[r].data BY <1>2 DEF Owned
  <1>4. region[r] \in Regional BY <1>1 DEF TypeOK
  <1>5. \/ ub' = ub /\ Owned(r) = Null /\ heap' = heap
        \/ ub' = ub /\ Owned(r) \in Addr /\ heap' = [heap EXCEPT ![Owned(r)] = NoBlock]
    <2>1. CASE region[r].data = Null BY <1>3, <2>1 DEF bbs_ffi_dealloc
    <2>2. CASE region[r].data # Null
      <3>1. BackedRegion(region[r]) BY <1>2, <2>2 DEF IInv, HeldRegions
      <3>2. /\ heap[region[r].data].size = region[r].len
            /\ heap[region[r].data].align = region[r].align
        BY <3>1 DEF BackedRegion
      <3>3. region[r].data \in Addr /\ heap[region[r].data] # NoBlock
        BY <1>4, <3>1, RegionIsLive
      <3>4. region[r].len > 0 /\ LayoutOk(region[r].len, region[r].align)
        BY <3>1 DEF BackedRegion
      <3>5. Deallocate(region[r].data, region[r].len, region[r].align)
        BY <2>2, <3>4 DEF bbs_ffi_dealloc
      <3> QED BY <1>3, <3>2, <3>3, <3>5 DEF Deallocate
    <2> QED BY <2>1, <2>2
  <1> QED BY <1>1, <1>2, <1>5, ReleaseStep DEF bbs_ffi_dealloc

LEMMA AllocIInv ==
    ASSUME IInv, NEW r \in Regions, bbs_ffi_alloc(r)
    PROVE  IInv' /\ Moves
  <1>1. TypeOK /\ TypeOK' BY MemoryType DEF IInv
  <1>2. PICK layout \in Layouts, a \in FreeAddr \cup {Null} :
          /\ a \in Addr => layout.len > 0 /\ LayoutOk(layout.len, layout.align)
          /\ region' = [region EXCEPT ![r] =
                          [data |-> a, len |-> layout.len, align |-> layout.align]]
          /\ heap' = IF a = Null THEN heap
                     ELSE [heap EXCEPT ![a] =
                             [size |-> layout.len, align |-> layout.align, kind |-> "region"]]
    BY DEF bbs_ffi_alloc
  <1>3. /\ UNCHANGED <<slot, vec, call, receipt, ub>>
        /\ r \notin held /\ held' = held \cup {r} /\ r \notin Slots /\ r \in Handles
    BY HandleAssumption DEF bbs_ffi_alloc, Handles
  <1>4. /\ region'[r] = [data |-> a, len |-> layout.len, align |-> layout.align]
        /\ \A q \in Regions : q # r => region'[q] = region[q]
    BY <1>1, <1>2 DEF TypeOK
  <1>5. /\ a = Null \/ (a \in Addr /\ heap[a] = NoBlock)
        /\ a = Null => heap' = heap
        /\ a # Null => heap'[a] = [size |-> layout.len, align |-> layout.align,
                                   kind |-> "region"]
        /\ \A b \in Addr : b # a => heap'[b] = heap[b]
    BY <1>1, <1>2 DEF FreeAddr, TypeOK
  <1>6. \A b \in Addr : heap[b] # NoBlock => heap'[b] = heap[b]
    BY <1>5
  <1>7. /\ \A u \in Threads : Outs(u)' = Outs(u) /\ Outs(u) \subseteq Slots
        /\ \A u \in Threads : Pending(u)' <=> Pending(u)
        /\ \A u \in Threads : \A s : KindOf(u, s)' = KindOf(u, s)
    BY <1>1, <1>3, OutsTyped DEF Outs, Pending, KindOf
  <1>8. CallsApart'
    <2>1. \A u \in Threads : call[u].uses \subseteq Lendable'
      <3> SUFFICES ASSUME NEW u \in Threads, NEW g \in call[u].uses PROVE g \in Lendable'
        OBVIOUS
      <3>1. g \in Lendable BY DEF IInv, CallsApart
      <3>2. g \in held /\ g \in Handles /\ g # r /\ DataOf(g) # Null
        BY <1>1, <1>3, <3>1 DEF Lendable, TypeOK
      <3>3. DataOf(g)' = DataOf(g) BY <1>3, <1>4, <3>2 DEF DataOf, Handles
      <3> QED BY <1>3, <3>2, <3>3 DEF Lendable
    <2>2. \A u \in Threads : Outs(u) \cap held' = {}
      BY <1>3, <1>7 DEF IInv, CallsApart
    <2> QED BY <1>3, <1>7, <2>1, <2>2 DEF IInv, CallsApart
  <1>9. HeldSlots'
    <2> SUFFICES ASSUME NEW s \in Slots, s \in held
                 PROVE  \/ receipt[s].code = "Ok" /\ Backed(slot[s], receipt[s].kind)'
                        \/ receipt[s].code # "Ok" /\ slot[s].data = Null
      BY <1>3 DEF HeldSlots, Backed
    <2>1. slot[s] \in Buffers BY <1>1 DEF TypeOK
    <2>2. CASE receipt[s].code = "Ok" /\ Backed(slot[s], receipt[s].kind)
      BY <1>3, <1>6, <2>1, <2>2, FillFrame DEF Backed
    <2> QED BY <2>2 DEF IInv, HeldSlots
  <1>10. HeldRegions'
    <2> SUFFICES ASSUME NEW q \in Regions, q \in held'
                 PROVE  region'[q].data = Null \/ BackedRegion(region[q])'
      BY DEF HeldRegions
    <2>1. CASE q = r
      <3>1. CASE a = Null BY <1>4, <2>1, <3>1
      <3>2. CASE a # Null
        <4>1. layout.len > 0 /\ LayoutOk(layout.len, layout.align) BY <1>2, <1>5, <3>2
        <4>2. LayoutOk(layout.len, layout.align)' <=> LayoutOk(layout.len, layout.align)
          BY DEF LayoutOk
        <4> QED BY <1>4, <1>5, <2>1, <3>2, <4>1, <4>2 DEF BackedRegion, LayoutOk
      <3> QED BY <3>1, <3>2
    <2>2. CASE q # r
      <3>1. q \in held /\ region'[q] = region[q] BY <1>3, <1>4, <2>2
      <3>2. region[q] \in Regional BY <1>1 DEF TypeOK
      <3>3. CASE BackedRegion(region[q])
        BY <1>6, <3>1, <3>2, <3>3, FillFrame DEF BackedRegion
      <3> QED BY <3>1, <3>3 DEF IInv, HeldRegions
    <2> QED BY <2>1, <2>2
  <1>11. Results'
    <2> SUFFICES ASSUME NEW s \in Slots
                 PROVE  \/ /\ vec[s] = NullBuffer
                           /\ \A u \in Threads : Pending(u) => s \notin Outs(u)
                        \/ \E u \in Threads : /\ Pending(u) /\ s \in Outs(u)
                                              /\ Backed(vec[s], KindOf(u, s))'
      BY <1>3, <1>7 DEF Results, Backed
    <2>1. ASSUME NEW u \in Threads, Pending(u), s \in Outs(u), Backed(vec[s], KindOf(u, s))
          PROVE  Backed(vec[s], KindOf(u, s))'
      <3>1. vec[s] \in Buffers BY <1>1 DEF TypeOK
      <3>2. KindOf(u, s)' = KindOf(u, s) BY <1>7
      <3> QED BY <1>3, <1>6, <2>1, <3>1, <3>2, FillFrame DEF Backed
    <2> QED BY <2>1 DEF IInv, Results
  <1>12. Exactly BY <1>1, ExactIff DEF IInv
  <1>13. Owned(r) = Null /\ Owned(r)' = a
    BY <1>3, <1>4 DEF Owned
  <1>14. \A h \in Handles : h # r => Owned(h)' = Owned(h)
    <2> SUFFICES ASSUME NEW h \in Handles, h # r PROVE Owned(h)' = Owned(h)
      OBVIOUS
    <2> QED BY <1>3, <1>4 DEF Owned, Handles
  <1>15. Exactly' /\ Moves
    <2>1. CASE a = Null
      <3>1. \A h \in Handles : Owned(h)' = Owned(h) BY <1>13, <1>14, <2>1
      <3> QED BY <1>5, <1>12, <2>1, <3>1, SameOwners
    <2>2. CASE a # Null
      <3> DEFINE H == {r}
                 got == [h \in H |-> a]
      <3>1. H \in SUBSET Handles /\ got \in [H -> Addr] BY <1>3, <1>5, <2>2
      <3>2. \A g, h \in H : got[g] = got[h] => g = h OBVIOUS
      <3>3. \A h \in H : Owned(h) = Null /\ heap[got[h]] = NoBlock BY <1>5, <1>13, <2>2
      <3>4. \A h \in Handles : Owned(h)' = IF h \in H THEN got[h] ELSE Owned(h)
        BY <1>13, <1>14
      <3>5. heap'[a] # NoBlock
        <4>1. heap'[a].size = layout.len BY <1>5, <2>2
        <4>2. layout.len # 0 BY <1>2, <1>5, <2>2, LayoutAssumption
        <4> QED BY <4>1, <4>2 DEF NoBlock
      <3>6. \A b \in Addr : IF \E h \in H : got[h] = b THEN heap'[b] # NoBlock
                            ELSE heap'[b] = heap[b]
        BY <1>5, <3>5
      <3> HIDE DEF H, got
      <3> QED BY <1>12, <3>1, <3>2, <3>3, <3>4, <3>6, NewOwners DEF Acquired
    <2> QED BY <2>1, <2>2
  <1>16. Ownership!Exact' BY <1>1, <1>15, ExactIff, PTL
  <1>17. NoUB' BY <1>3 DEF IInv, NoUB
  <1> QED BY <1>1, <1>8, <1>9, <1>10, <1>11, <1>15, <1>16, <1>17 DEF IInv

-----------------------------------------------------------------------------
LEMMA NextIInv ==
    ASSUME IInv, [Next]_vars
    PROVE  IInv' /\ Moves
  <1>1. CASE \E t \in Threads : RejectNullOut(t)
    <2>1. bbs_ffi_sign \in Functions BY DEF Functions
    <2> QED BY <1>1, <2>1, EnterIInv
  <1>2. CASE \E t \in Threads, op \in Functions : RejectMissing(t, op) \/ Enter(t, op)
    BY <1>2, EnterIInv
  <1>3. CASE \E t \in Threads : Step(t)
    BY <1>3, LibIInv, LibOkIInv, WriteIInv, WriteAnswerIInv DEF Step
  <1>4. CASE \E s \in Slots : bbs_ffi_free_buffer(s) BY <1>4, FreeBufferIInv
  <1>5. CASE \E r \in Regions : bbs_ffi_alloc(r) \/ bbs_ffi_dealloc(r)
    BY <1>5, AllocIInv, DeallocIInv
  <1>6. CASE Close \/ UNCHANGED vars
    <2>1. UNCHANGED <<heap, slot, region, vec, held, call, receipt, ub>>
      BY <1>6 DEF Close, vars
    <2>2. TypeOK' BY <1>6, NextType DEF IInv, Next
    <2>3. /\ \A h \in Handles : Owned(h)' = Owned(h)
          /\ \A t \in Threads : Outs(t)' = Outs(t) /\ (Pending(t)' <=> Pending(t))
          /\ \A t \in Threads : \A s : KindOf(t, s)' = KindOf(t, s)
          /\ Lendable' = Lendable
      BY <2>1 DEF Owned, Outs, Pending, KindOf, Lendable, DataOf
    <2>4. CallsApart' BY <2>1, <2>3 DEF IInv, CallsApart
    <2>5. HeldSlots' /\ HeldRegions' BY <2>1, HeldFrame
    <2>6. Results' BY <2>1, <2>3 DEF IInv, Results, Backed
    <2>7. Exactly' /\ Moves
      <3>1. Exactly BY ExactIff DEF IInv
      <3> QED BY <2>1, <2>3, <3>1, SameOwners
    <2>8. Ownership!Exact' BY <2>2, <2>7, ExactIff, PTL
    <2> QED BY <2>1, <2>2, <2>4, <2>5, <2>6, <2>7, <2>8 DEF IInv, NoUB
  <1> QED BY <1>1, <1>2, <1>3, <1>4, <1>5, <1>6 DEF Next, Stop

LEMMA IInvImplies == IInv => NoUB /\ OwnedExactly /\ Receipts
  <1> SUFFICES ASSUME IInv PROVE OwnedExactly /\ Receipts BY DEF IInv
  <1>1. ASSUME NEW s \in Slots \cap held, slot[s].data # Null
        PROVE  Backed(slot[s], receipt[s].kind) /\ receipt[s].code = "Ok"
    BY <1>1 DEF IInv, HeldSlots
  <1>2. ASSUME NEW s \in Slots \cap held, slot[s].data = Null
        PROVE  receipt[s].code # "Ok"
    BY <1>2, NullAssumption DEF IInv, HeldSlots, Backed
  <1>3. ASSUME NEW s \in Slots \cap held, slot[s].data # Null
        PROVE  /\ heap[slot[s].data].size = slot[s].cap /\ slot[s].cap > 0
               /\ heap[slot[s].data].align = 1
               /\ heap[slot[s].data].kind = receipt[s].kind
    <2>1. heap[slot[s].data] = [size |-> slot[s].cap, align |-> 1, kind |-> receipt[s].kind]
      BY <1>1, <1>3 DEF Backed
    <2>2. slot[s] \in Buffers BY DEF IInv, TypeOK
    <2>3. slot[s].cap > 0
      <3>1. 1 <= slot[s].len /\ slot[s].len <= slot[s].cap BY <1>1, <1>3 DEF Backed
      <3>2. slot[s].len \in Nat /\ slot[s].cap \in Nat BY <2>2 DEF Buffers
      <3> QED BY <3>1, <3>2
    <2> QED BY <2>1, <2>3
  <1>4. ASSUME NEW r \in Regions \cap held, region[r].data # Null
        PROVE  /\ heap[region[r].data].size = region[r].len /\ region[r].len > 0
               /\ heap[region[r].data].align = region[r].align
               /\ LayoutOk(region[r].len, region[r].align)
    <2>1. BackedRegion(region[r]) BY <1>4 DEF IInv, HeldRegions
    <2>2. heap[region[r].data] =
            [size |-> region[r].len, align |-> region[r].align, kind |-> "region"]
      BY <2>1 DEF BackedRegion
    <2> QED BY <2>1, <2>2 DEF BackedRegion
  <1>5. OwnedExactly BY <1>3, <1>4 DEF OwnedExactly, IInv
  <1>6. Receipts BY <1>1, <1>2, <1>3 DEF Receipts
  <1> QED BY <1>5, <1>6

\* The inductive invariant holds, for any host that keeps the contract.
THEOREM InvariantHolds == Spec => []IInv
  BY InitIInv, NextIInv, PTL DEF Spec

\* No call and no free ever does anything undefined.
THEOREM NothingUndefined == Spec => []NoUB
  BY InvariantHolds, IInvImplies, PTL

\* Every live block has exactly one owner, whose free will be valid.
THEOREM OwnershipExact == Spec => []OwnedExactly
  BY InvariantHolds, IInvImplies, PTL

\* Return codes tell what the out structs hold.
THEOREM ReceiptsHold == Spec => []Receipts
  BY InvariantHolds, IInvImplies, PTL

\* Once every call has returned and the host has given back what it holds, no
\* block is left: nothing stays behind that no free could reach (the half of
\* Drains that needs no fairness).
THEOREM NothingLeftBehind == Spec => [](Drained => Live = {})
  <1>1. IInv => (Drained => Live = {})
    <2> SUFFICES ASSUME IInv, Drained PROVE Live = {} OBVIOUS
    <2>1. \A s \in Slots : vec[s] = NullBuffer
      BY DEF IInv, Results, Drained, Pending
    <2>2. \A h \in Handles : Owned(h) = Null
      BY <2>1 DEF Owned, Drained, Handles, NullBuffer
    <2>3. Live = {Owned(h) : h \in Handles} \ {Null}
      BY DEF IInv, Ownership!Exact
    <2> QED BY <2>2, <2>3
  <1> QED BY <1>1, InvariantHolds, PTL

-----------------------------------------------------------------------------
(* The refinement of BufferOwnership. *)

LEMMA MovesAsAllowed ==
    ASSUME TypeOK, TypeOK', Moves
    PROVE  [Ownership!Next]_(Ownership!vars)
  <1> DEFINE owner == [h \in Handles |-> Owned(h)]
  <1>0. /\ \A h \in Handles : Owned(h) \in Addr \cup {Null}
        /\ Null \notin Addr
    BY OwnedType, NullAssumption
  <1>1. CASE UNCHANGED heap /\ \A h \in Handles : Owned(h)' = Owned(h)
    BY <1>1 DEF Ownership!vars, Live
  <1>2. ASSUME NEW H \in SUBSET Handles, NEW at \in [H -> Addr], Acquired(H, at)
        PROVE  Ownership!Acquire(at)
    <2>1. Ownership!Injective(at) BY <1>2 DEF Ownership!Injective, Acquired
    <2>2. \A h \in H : owner[h] = Null /\ at[h] \notin Live
      BY <1>2 DEF Acquired, Live
    <2>3. owner' = [h \in Handles |-> IF h \in H THEN at[h] ELSE owner[h]]
      BY <1>2 DEF Acquired
    <2>4. Live' = Live \cup {at[h] : h \in H}
      BY <1>2 DEF Acquired, Live
    <2>5. DOMAIN at = H OBVIOUS
    <2> QED BY <2>1, <2>2, <2>3, <2>4, <2>5 DEF Ownership!Acquire
  <1>3. ASSUME NEW h \in Handles, Released(h)
        PROVE  Ownership!Release(h)
    <2>1. owner[h] # Null BY <1>0, <1>3 DEF Released
    <2>2. Live' = Live \ {owner[h]} BY <1>3 DEF Released, Live
    <2>3. owner' = [owner EXCEPT ![h] = Null] BY <1>3 DEF Released
    <2> QED BY <2>1, <2>2, <2>3 DEF Ownership!Release
  <1> QED BY <1>1, <1>2, <1>3 DEF Moves, Ownership!Next

\* Memory changes hands only as BufferOwnership allows: the initial states
\* map to its initial states and every step to one of its steps or a stutter.
THEOREM OwnershipRefined == Spec => Refines
  <1>1. Init => Ownership!Init
    BY DEF Init, Ownership!Init, Live, Owned, Handles, NullBuffer
  <1>2. IInv /\ [Next]_vars => [Ownership!Next]_(Ownership!vars)
    BY NextIInv, MovesAsAllowed DEF IInv
  <1> QED BY <1>1, <1>2, InvariantHolds, PTL DEF Spec, Refines, Ownership!Spec

-----------------------------------------------------------------------------
(* What BufferOwnership implies by itself. *)

\* Whatever an implementation does inside, every run that the abstract protocol
\* allows keeps ownership exact; with OwnershipRefined this is a second argument
\* for OwnershipExact, without the invariant of the C layer.
THEOREM ProtocolExact == Ownership!Spec => []Ownership!Exact
  <1> DEFINE Typed == \A h \in Handles : Owned(h) \in Addr \cup {Null}
             Inv == Ownership!Exact /\ Typed
  <1>0. Null \notin Addr BY NullAssumption
  <1>1. Ownership!Init => Inv
    <2> SUFFICES ASSUME Ownership!Init PROVE Inv OBVIOUS
    <2>1. [h \in Handles |-> Owned(h)] = [h \in Handles |-> Null] BY DEF Ownership!Init
    <2>2. \A h \in Handles : Owned(h) = Null BY <2>1
    <2>3. Live = {} BY DEF Ownership!Init
    <2> QED BY <2>2, <2>3 DEF Ownership!Exact
  <1>2. Inv /\ [Ownership!Next]_(Ownership!vars) => Inv'
    <2> SUFFICES ASSUME Inv, [Ownership!Next]_(Ownership!vars) PROVE Inv' OBVIOUS
    <2>1. /\ Live = {Owned(h) : h \in Handles} \ {Null}
          /\ \A g, h \in Handles : Owned(g) = Owned(h) /\ Owned(g) # Null => g = h
      BY DEF Ownership!Exact
    <2>2. ASSUME /\ Live' = {Owned(h)' : h \in Handles} \ {Null}
                 /\ \A g, h \in Handles : Owned(g)' = Owned(h)' /\ Owned(g)' # Null => g = h
                 /\ \A h \in Handles : Owned(h)' \in Addr \cup {Null}
          PROVE  Inv'
      BY <2>2 DEF Ownership!Exact
    <2>3. ASSUME NEW H \in SUBSET Handles, NEW got \in [H -> Addr], Ownership!Acquire(got)
          PROVE  Inv'
      <3>1. /\ \A g, h \in H : got[g] = got[h] => g = h
            /\ \A h \in H : Owned(h) = Null /\ got[h] \notin Live
            /\ Live' = Live \cup {got[h] : h \in H}
        BY <2>3 DEF Ownership!Acquire, Ownership!Injective
      <3>2. [h \in Handles |-> Owned(h)'] = [h \in Handles |-> IF h \in H THEN got[h] ELSE Owned(h)]
        BY <2>3 DEF Ownership!Acquire
      <3>3. \A h \in Handles : Owned(h)' = IF h \in H THEN got[h] ELSE Owned(h)
        BY <3>2
      <3>4. \A h \in H : got[h] \in Addr OBVIOUS
      <3>5. Live' = {Owned(h)' : h \in Handles} \ {Null}
        BY <1>0, <2>1, <3>1, <3>3, <3>4
      <3>6. \A g, h \in Handles : Owned(g)' = Owned(h)' /\ Owned(g)' # Null => g = h
        BY <2>1, <3>1, <3>3
      <3>7. \A h \in Handles : Owned(h)' \in Addr \cup {Null} BY <3>3, <3>4
      <3> QED BY <2>2, <3>5, <3>6, <3>7
    <2>4. ASSUME NEW g \in Handles, Ownership!Release(g) PROVE Inv'
      <3>1. Owned(g) # Null /\ Live' = Live \ {Owned(g)} BY <2>4 DEF Ownership!Release
      <3>2. [h \in Handles |-> Owned(h)'] = [h \in Handles |-> IF h = g THEN Null ELSE Owned(h)]
        BY <2>4 DEF Ownership!Release
      <3>3. \A h \in Handles : Owned(h)' = IF h = g THEN Null ELSE Owned(h) BY <3>2
      <3>4. Live' = {Owned(h)' : h \in Handles} \ {Null} BY <2>1, <3>1, <3>3
      <3>5. \A f, h \in Handles : Owned(f)' = Owned(h)' /\ Owned(f)' # Null => f = h
        BY <2>1, <3>3
      <3>6. \A h \in Handles : Owned(h)' \in Addr \cup {Null} BY <3>3
      <3> QED BY <2>2, <3>4, <3>5, <3>6
    <2>5. CASE UNCHANGED Ownership!vars
      <3>1. Live' = Live /\ [h \in Handles |-> Owned(h)'] = [h \in Handles |-> Owned(h)]
        BY <2>5 DEF Ownership!vars
      <3>2. \A h \in Handles : Owned(h)' = Owned(h) BY <3>1
      <3> QED BY <2>1, <2>2, <3>1, <3>2
    <2> QED BY <2>3, <2>4, <2>5 DEF Ownership!Next
  <1>3. Inv => Ownership!Exact OBVIOUS
  <1> QED BY <1>1, <1>2, <1>3, PTL DEF Ownership!Spec
=============================================================================
