-------------------------------- MODULE FfiCalls --------------------------------
(***************************************************************************)
(* The extern "C" layer (src/c_ffi.rs) between a host with several threads *)
(* and the Rust library.  A call copies its inputs, runs the library       *)
(* function, and writes its out parameters; all three happen while other   *)
(* threads allocate, call and free.                                        *)
(*                                                                         *)
(* The host follows the documented contract and nothing more: out pointers *)
(* are distinct structs it owes nothing for, inputs stay allocated for the *)
(* length of the call, and every out parameter of a call that returned,    *)
(* whatever its code, is freed exactly once.  It does not clear a struct   *)
(* after freeing it, nor before passing it as an out parameter.            *)
(***************************************************************************)
EXTENDS Naturals, FiniteSets, FfiFunctions

CONSTANTS
    Threads,
    Slots,        \* BbsBuffer structs in the host's memory
    Regions,      \* host variables holding a bbs_ffi_alloc pointer
    Addr, Null,   \* heap addresses and the null pointer
    Shapes,       \* the lengths and capacities a result Vec can have
    Layouts,      \* the (len, align) pairs the host asks bbs_ffi_alloc for
    IsizeMax,     \* isize::MAX
    MaxInputs,    \* how many of the host's handles one call reads at most
    Used          \* names of the functions the host calls

ASSUME NullAssumption == Null \notin Addr
ASSUME HandleAssumption == Slots \cap Regions = {}
ASSUME ShapeAssumption ==
    Shapes \subseteq {s \in [len : Nat, cap : Nat] : 1 <= s.len /\ s.len <= s.cap}
ASSUME LayoutAssumption ==
    /\ Layouts \subseteq [len : Nat, align : Nat]
    /\ IsizeMax \in Nat

VARIABLES
    heap,      \* the allocator's blocks: size, alignment and what they hold
    slot,      \* the contents of each BbsBuffer struct
    region,    \* what bbs_ffi_alloc returned, with the len and align passed
    vec,       \* the library's result waiting to be written to each struct
    held,      \* the handles the host must still give back
    call,      \* where each thread is in its call, and its last return code
    valid,     \* each thread's valid_out variable
    accepted,  \* history: the last verification of the thread said yes
    receipt,   \* history: the code a struct was written under, and as what
    closing,   \* the host makes no further calls
    ub         \* history: something undefined was done

vars == <<heap, slot, region, vec, held, call, valid, accepted, receipt, closing, ub>>

-----------------------------------------------------------------------------
(* Memory. *)

Handles == Slots \cup Regions

NullBuffer == [data |-> Null, len |-> 0, cap |-> 0]
NoRegion == [data |-> Null, len |-> 0, align |-> 0]
NoReceipt == [code |-> "none", kind |-> "none"]

NoBlock == [size |-> 0, align |-> 0, kind |-> "free"]
FreeAddr == {a \in Addr : heap[a] = NoBlock}

\* Layout::from_size_align: align is a power of two and the size, rounded up
\* to it, does not exceed isize::MAX.
PowersOfTwo == {2^k : k \in 0..IsizeMax}
LayoutOk(len, align) == align \in PowersOfTwo /\ len <= IsizeMax - (align - 1)

\* The allocator takes a block back; any other size or alignment than the
\* block was allocated with, or a block that is free, is undefined behaviour.
Deallocate(a, size, align) ==
    IF heap[a] # NoBlock /\ heap[a].size = size /\ heap[a].align = align
    THEN heap' = [heap EXCEPT ![a] = NoBlock] /\ UNCHANGED ub
    ELSE ub' = TRUE /\ UNCHANGED heap

DataOf(h) == IF h \in Slots THEN slot[h].data ELSE region[h].data
LenOf(h) == IF h \in Slots THEN slot[h].len ELSE region[h].len

\* Reading the bytes of a handle is defined.
Readable(h) ==
    /\ DataOf(h) \in Addr
    /\ heap[DataOf(h)] # NoBlock
    /\ LenOf(h) <= heap[DataOf(h)].size

Outs(t) == {call[t].outs[k] : k \in DOMAIN call[t].outs}

\* The handles the host may pass as an out struct, as an input, or free.
Vacant == {s \in Slots : s \notin held /\ \A t \in Threads : s \notin Outs(t)}
Lendable == {h \in held : DataOf(h) # Null}
Freeable == {h \in held : \A t \in Threads : h \notin call[t].uses}

\* The out parameter of thread t's call that struct s was passed as.
KindOf(t, s) == CHOOSE k \in DOMAIN call[t].outs : call[t].outs[k] = s

Injections(S, T) == {f \in [S -> T] : \A x, y \in S : f[x] = f[y] => x = y}

NoOuts == [k \in {} |-> Null]

Idle(code) ==
    [pc |-> "idle", op |-> NoOp, outs |-> NoOuts, uses |-> {}, code |-> code, yes |-> FALSE]

-----------------------------------------------------------------------------
Init ==
    /\ heap = [a \in Addr |-> NoBlock]
    /\ slot = [s \in Slots |-> NullBuffer]
    /\ vec = [s \in Slots |-> NullBuffer]
    /\ region = [r \in Regions |-> NoRegion]
    /\ held = {}
    /\ call = [t \in Threads |-> Idle("Ok")]
    /\ valid = [t \in Threads |-> 0]
    /\ accepted = [t \in Threads |-> FALSE]
    /\ receipt = [s \in Slots |-> NoReceipt]
    /\ closing = FALSE
    /\ ub = FALSE

(* A call.  Entering it reserves the out structs and the inputs. *)

Ready(t) == call[t].pc = "idle" /\ ~closing

\* A null out pointer: nothing is written, not even to the other struct.
RejectNullOut(t) ==
    /\ Ready(t)
    /\ call' = [call EXCEPT ![t].code = "InvalidInput"]
    /\ UNCHANGED <<heap, slot, region, vec, held, valid, accepted, receipt, closing, ub>>

\* The verdict of an earlier verification says nothing of the one that starts.
ForgetVerdict(t, op) ==
    accepted' = [accepted EXCEPT ![t] = IF op.answers THEN FALSE ELSE @]

\* A required input is null or empty: the outs are still to be cleared.
RejectMissing(t, op) ==
    /\ Ready(t)
    /\ op.required # {}
    /\ \E outs \in Injections(op.outs, Vacant) :
         call' = [call EXCEPT ![t] =
                    [pc |-> "return", op |-> op, outs |-> outs, uses |-> {},
                     code |-> "InvalidInput", yes |-> FALSE]]
    /\ ForgetVerdict(t, op)
    /\ UNCHANGED <<heap, slot, region, vec, held, valid, receipt, closing, ub>>

\* Inputs that are not among uses are in memory the library never allocated.
Enter(t, op) ==
    /\ Ready(t)
    /\ \E outs \in Injections(op.outs, Vacant), uses \in SUBSET Lendable :
         /\ Cardinality(uses) <= MaxInputs
         /\ Cardinality(uses) <= Cardinality(op.required \cup op.optional)
         /\ call' = [call EXCEPT ![t] =
                       [pc |-> "copy", op |-> op, outs |-> outs, uses |-> uses,
                        code |-> "Ok", yes |-> FALSE]]
    /\ ForgetVerdict(t, op)
    /\ UNCHANGED <<heap, slot, region, vec, held, valid, receipt, closing, ub>>

\* slice::from_raw_parts(..).to_vec() for every input that is there.
CopyInputs(t) ==
    /\ call[t].pc = "copy"
    /\ call' = [call EXCEPT ![t].pc = "lib", ![t].uses = {}]
    /\ ub' = (ub \/ \E h \in call[t].uses : ~Readable(h))
    /\ UNCHANGED <<heap, slot, region, vec, held, valid, accepted, receipt, closing>>

-----------------------------------------------------------------------------
(* The library function. *)

\* Its results are fresh Vecs, one for each out struct.
LibOk(t) ==
    /\ call[t].pc = "lib"
    /\ ~call[t].op.answers
    /\ \E at \in Injections(call[t].op.outs, FreeAddr), shape \in Shapes :
         /\ heap' = [a \in Addr |->
                       IF \E k \in call[t].op.outs : at[k] = a
                       THEN [size |-> shape.cap, align |-> 1,
                             kind |-> CHOOSE k \in call[t].op.outs : at[k] = a]
                       ELSE heap[a]]
         /\ vec' = [s \in Slots |->
                      IF s \in Outs(t)
                      THEN [data |-> at[KindOf(t, s)], len |-> shape.len, cap |-> shape.cap]
                      ELSE vec[s]]
    /\ call' = [call EXCEPT ![t].pc = "return"]
    /\ UNCHANGED <<slot, region, held, valid, accepted, receipt, closing, ub>>

\* Verification: a signature or proof that does not verify is an answer.
LibAnswer(t) ==
    /\ call[t].pc = "lib"
    /\ call[t].op.answers
    /\ \E yes \in BOOLEAN :
         /\ call' = [call EXCEPT ![t].pc = "return", ![t].yes = yes]
         /\ accepted' = [accepted EXCEPT ![t] = yes]
    /\ UNCHANGED <<heap, slot, region, vec, held, valid, receipt, closing, ub>>

\* Any argument may turn out to be malformed, whatever the function.
LibErr(t) ==
    /\ call[t].pc = "lib"
    /\ call[t].op \notin Infallible
    /\ call' = [call EXCEPT ![t].pc = "return", ![t].code = call[t].op.err]
    /\ UNCHANGED <<heap, slot, region, vec, held, valid, accepted, receipt, closing, ub>>

-----------------------------------------------------------------------------
(* Returning: the outs are written and the host owes a free for each. *)

HandOver(t) ==
    /\ held' = held \cup Outs(t)
    /\ receipt' = [s \in Slots |->
                     IF s \in Outs(t)
                     THEN [code |-> call[t].code, kind |-> KindOf(t, s)]
                     ELSE receipt[s]]
    /\ call' = [call EXCEPT ![t] = Idle(call[t].code)]

\* Seeded bug: the two results of a call are written to each other's struct.
WriteBuffersSwapped(t) ==
    /\ call[t].pc = "return" /\ ~call[t].op.answers /\ call[t].code = "Ok"
    /\ slot' = [s \in Slots |->
                  IF s \in Outs(t)
                  THEN vec[CHOOSE o \in Outs(t) : o # s \/ Outs(t) = {s}]
                  ELSE slot[s]]
    /\ vec' = [s \in Slots |-> IF s \in Outs(t) THEN NullBuffer ELSE vec[s]]
    /\ HandOver(t)
    /\ UNCHANGED <<heap, region, valid, accepted, closing, ub>>

\* *out = BbsBuffer::from_vec(..): the struct's old contents are overwritten,
\* never dropped.
WriteBuffers(t) ==
    /\ call[t].pc = "return" /\ ~call[t].op.answers /\ call[t].code = "Ok"
    /\ slot' = [s \in Slots |-> IF s \in Outs(t) THEN vec[s] ELSE slot[s]]
    /\ vec' = [s \in Slots |-> IF s \in Outs(t) THEN NullBuffer ELSE vec[s]]
    /\ HandOver(t)
    /\ UNCHANGED <<heap, region, valid, accepted, closing, ub>>

\* Seeded bug: an error path returns without clearing the out structs.
WriteNullsForgotten(t) ==
    /\ call[t].pc = "return" /\ ~call[t].op.answers /\ call[t].code # "Ok"
    /\ UNCHANGED slot
    /\ HandOver(t)
    /\ UNCHANGED <<heap, region, vec, valid, accepted, closing, ub>>

\* *out = BbsBuffer::null(), for a missing input or a library error.
WriteNulls(t) ==
    /\ call[t].pc = "return" /\ ~call[t].op.answers /\ call[t].code # "Ok"
    /\ slot' = [s \in Slots |-> IF s \in Outs(t) THEN NullBuffer ELSE slot[s]]
    /\ HandOver(t)
    /\ UNCHANGED <<heap, region, vec, valid, accepted, closing, ub>>

\* Seeded bug: valid_out is written on success only.
WriteAnswerOnSuccess(t) ==
    /\ call[t].pc = "return" /\ call[t].op.answers
    /\ valid' = [valid EXCEPT ![t] =
                    IF call[t].code # "Ok" THEN @ ELSE IF call[t].yes THEN 1 ELSE 0]
    /\ call' = [call EXCEPT ![t] = Idle(call[t].code)]
    /\ UNCHANGED <<heap, slot, region, vec, held, accepted, receipt, closing, ub>>

\* Seeded bug: an error marker is written to valid_out.
WriteAnswerMarker(t) ==
    /\ call[t].pc = "return" /\ call[t].op.answers
    /\ valid' = [valid EXCEPT ![t] =
                    IF call[t].code # "Ok" THEN 2 ELSE IF call[t].yes THEN 1 ELSE 0]
    /\ call' = [call EXCEPT ![t] = Idle(call[t].code)]
    /\ UNCHANGED <<heap, slot, region, vec, held, accepted, receipt, closing, ub>>

\* *valid_out = 1 or 0, and 0 on every error.
WriteAnswer(t) ==
    /\ call[t].pc = "return" /\ call[t].op.answers
    /\ valid' = [valid EXCEPT ![t] = IF call[t].code = "Ok" /\ call[t].yes THEN 1 ELSE 0]
    /\ call' = [call EXCEPT ![t] = Idle(call[t].code)]
    /\ UNCHANGED <<heap, slot, region, vec, held, accepted, receipt, closing, ub>>

Step(t) ==
    \/ CopyInputs(t) \/ LibOk(t) \/ LibAnswer(t) \/ LibErr(t)
    \/ WriteBuffers(t) \/ WriteNulls(t) \/ WriteAnswer(t)

-----------------------------------------------------------------------------
(* The functions that free and allocate run to completion in one step. *)

\* Seeded bug: the Vec is rebuilt with its length as its capacity.
FreeByLength(s) ==
    /\ s \in Freeable
    /\ held' = held \ {s}
    /\ receipt' = [receipt EXCEPT ![s] = NoReceipt]
    /\ IF slot[s].data # Null /\ slot[s].len > 0
       THEN Deallocate(slot[s].data, slot[s].len, 1)
       ELSE UNCHANGED <<heap, ub>>
    /\ UNCHANGED <<slot, region, vec, call, valid, accepted, closing>>

\* Seeded bug: a buffer with spare capacity is taken for a foreign one.
FreeExactOnly(s) ==
    /\ s \in Freeable
    /\ held' = held \ {s}
    /\ receipt' = [receipt EXCEPT ![s] = NoReceipt]
    /\ IF slot[s].data # Null /\ slot[s].cap = slot[s].len
       THEN Deallocate(slot[s].data, slot[s].cap, 1)
       ELSE UNCHANGED <<heap, ub>>
    /\ UNCHANGED <<slot, region, vec, call, valid, accepted, closing>>

\* The buffer is passed by value: the host's struct keeps its old contents.
bbs_ffi_free_buffer(s) ==
    /\ s \in Freeable
    /\ held' = held \ {s}
    /\ receipt' = [receipt EXCEPT ![s] = NoReceipt]
    /\ IF slot[s].data # Null /\ slot[s].cap > 0
       THEN Deallocate(slot[s].data, slot[s].cap, 1)
       ELSE UNCHANGED <<heap, ub>>
    /\ UNCHANGED <<slot, region, vec, call, valid, accepted, closing>>

\* Seeded bug: an empty region is allocated, and dealloc will not take it back.
AllocEmpty(r) ==
    /\ ~closing
    /\ r \notin held
    /\ held' = held \cup {r}
    /\ \E layout \in Layouts, a \in FreeAddr \cup {Null} :
         /\ a \in Addr => LayoutOk(layout.len, layout.align)
         /\ region' = [region EXCEPT ![r] =
                         [data |-> a, len |-> layout.len, align |-> layout.align]]
         /\ heap' = IF a = Null THEN heap
                    ELSE [heap EXCEPT ![a] =
                            [size |-> layout.len, align |-> layout.align, kind |-> "region"]]
    /\ UNCHANGED <<slot, vec, call, valid, accepted, receipt, closing, ub>>

\* An empty or impossible layout, or no memory left, gives the null pointer.
bbs_ffi_alloc(r) ==
    /\ ~closing
    /\ r \notin held
    /\ held' = held \cup {r}
    /\ \E layout \in Layouts, a \in FreeAddr \cup {Null} :
         /\ a \in Addr => layout.len > 0 /\ LayoutOk(layout.len, layout.align)
         /\ region' = [region EXCEPT ![r] =
                         [data |-> a, len |-> layout.len, align |-> layout.align]]
         /\ heap' = IF a = Null THEN heap
                    ELSE [heap EXCEPT ![a] =
                            [size |-> layout.len, align |-> layout.align, kind |-> "region"]]
    /\ UNCHANGED <<slot, vec, call, valid, accepted, receipt, closing, ub>>

\* Seeded bug: dealloc rebuilds the layout with another bound than alloc.
DeallocStricter(r) ==
    /\ r \in Freeable
    /\ held' = held \ {r}
    /\ IF /\ region[r].data # Null
          /\ region[r].len > 0
          /\ LayoutOk(region[r].len + region[r].align, region[r].align)
       THEN Deallocate(region[r].data, region[r].len, region[r].align)
       ELSE UNCHANGED <<heap, ub>>
    /\ UNCHANGED <<slot, region, vec, call, valid, accepted, receipt, closing>>

\* The host passes the len and align it allocated with.
bbs_ffi_dealloc(r) ==
    /\ r \in Freeable
    /\ held' = held \ {r}
    /\ IF /\ region[r].data # Null
          /\ region[r].len > 0
          /\ LayoutOk(region[r].len, region[r].align)
       THEN Deallocate(region[r].data, region[r].len, region[r].align)
       ELSE UNCHANGED <<heap, ub>>
    /\ UNCHANGED <<slot, region, vec, call, valid, accepted, receipt, closing>>

\* The host stops calling; what is running ends and what is held is freed.
Close ==
    /\ ~closing
    /\ closing' = TRUE
    /\ UNCHANGED <<heap, slot, region, vec, held, call, valid, accepted, receipt, ub>>

Drained == closing /\ held = {} /\ \A t \in Threads : call[t].pc = "idle"

Stop == Drained /\ UNCHANGED vars

Next ==
    \/ \E t \in Threads :
         \/ RejectNullOut(t)
         \/ \E op \in Functions : op.name \in Used /\ (RejectMissing(t, op) \/ Enter(t, op))
         \/ Step(t)
    \/ \E s \in Slots : bbs_ffi_free_buffer(s)
    \/ \E r \in Regions : bbs_ffi_alloc(r) \/ bbs_ffi_dealloc(r)
    \/ Close
    \/ Stop

Spec == Init /\ [][Next]_vars

\* A call is straight-line code, and a host that closes frees what it holds.
Fairness ==
    /\ \A t \in Threads : WF_vars(Step(t))
    /\ \A s \in Slots : WF_vars(closing /\ bbs_ffi_free_buffer(s))
    /\ \A r \in Regions : WF_vars(closing /\ bbs_ffi_dealloc(r))

FairSpec == Spec /\ Fairness

-----------------------------------------------------------------------------
(* Properties. *)

Buffers == [data : Addr \cup {Null}, len : Nat, cap : Nat]
Blocks == [size : Nat, align : Nat, kind : Kinds \cup {"free", "region"}]

Regional == [data : Addr \cup {Null}, len : Nat, align : Nat]
Receipt == [code : Codes \cup {"none"}, kind : Kinds \cup {"none"}]
Calls ==
    [pc : {"idle", "copy", "lib", "return"},
     op : Functions \cup {NoOp},
     outs : UNION {[op.outs -> Slots] : op \in Functions \cup {NoOp}},
     uses : SUBSET Handles, code : Codes, yes : BOOLEAN]

TypeOK ==
    /\ heap \in [Addr -> Blocks]
    /\ slot \in [Slots -> Buffers]
    /\ vec \in [Slots -> Buffers]
    /\ region \in [Regions -> Regional]
    /\ held \in SUBSET Handles
    /\ call \in [Threads -> Calls]
    /\ \A t \in Threads : /\ call[t].outs \in Injections(call[t].op.outs, Slots)
                          /\ call[t].op = NoOp <=> call[t].pc = "idle"
    /\ valid \in [Threads -> {0, 1}]
    /\ accepted \in [Threads -> BOOLEAN]
    /\ receipt \in [Slots -> Receipt]
    /\ closing \in BOOLEAN
    /\ ub \in BOOLEAN

\* No input is read from, and no block given back to, memory that is free or
\* was allocated with another size or alignment: lines 83 and 782 must agree
\* on the capacity, lines 804 and 821 on the layout, and no error path may
\* leave a stale pointer in a struct the host is going to free.
NoUB == ~ub

\* The address a handle owns: of a struct only once the call that writes it
\* has returned; before that the result belongs to the struct it is meant for.
Owned(h) ==
    IF h \in Slots
    THEN IF h \in held THEN slot[h].data ELSE vec[h].data
    ELSE IF h \in held THEN region[h].data ELSE Null

Live == {a \in Addr : heap[a] # NoBlock}

Ownership == INSTANCE BufferOwnership WITH
    live <- Live,
    owner <- [h \in Handles |-> Owned(h)]

\* Every live block is owned by exactly one handle, with the size and
\* alignment that handle's free will pass: nothing leaks, nothing is owned
\* twice, and what is still to be freed can be freed.
OwnedExactly ==
    /\ Ownership!Exact
    /\ \A s \in Slots \cap held : slot[s].data # Null =>
         /\ heap[slot[s].data].size = slot[s].cap /\ slot[s].cap > 0
         /\ heap[slot[s].data].align = 1
    /\ \A r \in Regions \cap held : region[r].data # Null =>
         /\ heap[region[r].data].size = region[r].len /\ region[r].len > 0
         /\ heap[region[r].data].align = region[r].align
         /\ LayoutOk(region[r].len, region[r].align)

\* The return code tells the host what is in each struct it still holds: all
\* the outs of a successful call carry the result they are named for, all the
\* outs of a failed one are null - also when a stale pointer was there before.
Receipts ==
    \A s \in Slots \cap held :
        /\ slot[s].data # Null <=> receipt[s].code = "Ok"
        /\ slot[s].data # Null => heap[slot[s].data].kind = receipt[s].kind

\* valid_out is 1 exactly when the thread's latest verification said yes: a
\* failure never leaves the 1 of an earlier call behind.
FailClosed ==
    \A t \in Threads :
        call[t].pc = "idle" => (valid[t] = 1 <=> accepted[t])

\* Memory changes hands only as BufferOwnership allows.
Refines == Ownership!Spec

\* Once the host closes, every call returns and every block is given back.
Drains == closing ~> (Drained /\ Live = {})

-----------------------------------------------------------------------------
(* The inductive invariant behind NoUB, OwnedExactly and Receipts. *)

\* Freeing buffer b, or reading it, is defined, and it holds a result of kind k.
Backed(b, k) ==
    /\ b.data \in Addr
    /\ heap[b.data] = [size |-> b.cap, align |-> 1, kind |-> k]
    /\ 1 <= b.len /\ b.len <= b.cap

BackedRegion(r) ==
    /\ r.data \in Addr
    /\ heap[r.data] = [size |-> r.len, align |-> r.align, kind |-> "region"]
    /\ r.len > 0 /\ LayoutOk(r.len, r.align)

\* The library has returned its results and the call has not written them yet.
Pending(t) == call[t].pc = "return" /\ call[t].code = "Ok"

\* Calls do not share out structs, write none the host still owes a free for,
\* and have inputs left to read only until they have copied them.
CallsApart ==
    \A t \in Threads :
        /\ Outs(t) \cap held = {}
        /\ \A u \in Threads : u # t => Outs(u) \cap Outs(t) = {}
        /\ call[t].uses \subseteq Lendable
        /\ call[t].pc # "copy" => call[t].uses = {}
        /\ call[t].pc \in {"copy", "lib"} => call[t].code = "Ok"

Results ==
    \A s \in Slots :
        \/ /\ vec[s] = NullBuffer
           /\ \A t \in Threads : Pending(t) => s \notin Outs(t)
        \/ \E t \in Threads : Pending(t) /\ s \in Outs(t) /\ Backed(vec[s], KindOf(t, s))

HeldSlots ==
    \A s \in Slots \cap held :
        \/ receipt[s].code = "Ok" /\ Backed(slot[s], receipt[s].kind)
        \/ receipt[s].code # "Ok" /\ slot[s].data = Null

HeldRegions ==
    \A r \in Regions \cap held : region[r].data = Null \/ BackedRegion(region[r])

\* Ownership is exact because a block is freed only through its one owner,
\* which needs the results in flight and the layouts to be accounted for too.
IInv ==
    /\ TypeOK
    /\ CallsApart
    /\ Results
    /\ HeldSlots
    /\ HeldRegions
    /\ Ownership!Exact
    /\ NoUB
=============================================================================
