# bbs-ffi: specifications, model checking and proofs

`bbs-ffi` wraps the BBS signature scheme of the `zkryptium` crate for other
languages. `src/lib.rs` is the scheme API, exported with UniFFI to Kotlin and
Swift; `src/c_ffi.rs` puts a C ABI on top of it for Go (CGo) and WebAssembly
hosts; `parse_bbs_credential` reads the serialized credential that the mobile
SDKs exchange. The examples show holder, issuer and verifier using the
pseudonym functions, and a Makefile with a workflow releases the library. This
directory holds TLA+ models of that code, the TLC runs that
check them on small instances, and TLAPS proofs for all instances.

## The system

| Part | State it keeps | Operations | What makes it correct |
|---|---|---|---|
| C ABI layer (`src/c_ffi.rs`) | none of its own; blocks on the Rust heap that it hands to the host, the host's `BbsBuffer` structs and `valid_out` integers that it writes | 11 `bbs_ffi_*` functions, `bbs_ffi_free_buffer`, `bbs_ffi_alloc`, `bbs_ffi_dealloc` | no undefined behaviour and no leak when the host keeps the contract; return code, out structs and `valid_out` agree on every path |
| Scheme API (`src/lib.rs`) | none | key generation, sign, verify, proofs, and their pseudonym (nym) variants | arguments are checked before use, each failure has its own error, a signature that does not verify is an answer and not an error |
| Credential parser (`src/lib.rs:778-840`) | offset and messages of one call | `parse_bbs_credential` | inverts the encoding, rejects everything else, never panics |
| Enrollment protocol (the nym functions used in order, `examples/`) | secrets and credential of a holder, keys of the issuer, what a verifier accepted | commit, blind sign, verify and derive the nym secret, prove, verify | only matching attempts combine; a verifier accepts only members, each under one pseudonym for a scope |
| Release pipeline (`Makefile`, `build-xcframework.sh`, `release.yml`) | clones, branch and tags of the origin, jobs, release assets | `make release`, a release by hand, the workflow on a tag | a tag that make made names its manifest; nothing is published before all builds have passed, and what passes is complete |
| UniFFI scaffolding, examples, `zkryptium` | - | - | generated, illustrative or external |

The parts interact through plain calls: a host thread calls the C layer, which
copies the inputs, calls the scheme API, and moves the result into the host's
structs. All threads of the host share one heap, and the C layer gives the host
raw pointers, so ownership of a block crosses the language border twice: when a
call returns, and when the host calls `bbs_ffi_free_buffer`. There is no
persistent state and no lock in the library.

The hard behaviours are therefore: which of many exits of a function was taken
and what it left in the host's memory; long sequences of calls that reuse
structs holding old pointers; addresses that the allocator reuses between
threads; sizes at the edge (capacity beyond length, layouts that round up past
`isize::MAX`, lengths that wrap on 32-bit targets); two lists of argument checks,
in Rust and in the C layer, that must not contradict each other; answers to
enrollment attempts that were given up meanwhile; releases that stop half-way,
between two lines of the recipe or between two uploads, and are tried again.
`PROJECT.json` lists each with its line under "hazards".

## Modules

| Module | What it is |
|---|---|
| `CredentialParser` | `parse_bbs_credential`, one action per exit or turn of its loop |
| `CredentialEncoding` | the encoder of the tests, and the reference definition of a well-formed credential |
| `MC_Parser` | the parser's inputs for TLC |
| `CredentialParserProofs` | its types and tiling, when it panics, and why its loop ends |
| `RoundTripProofs` | parsing inverts encoding, and there is one reading of a credential |
| `BufferOwnership` | what the C layer promises about memory: every block has one owner |
| `FfiFunctions` | the table of the C layer's functions, shared by `FfiCalls` and `ApiCalls` |
| `FfiCalls` | the C layer, its host threads and the heap; implements `BufferOwnership` |
| `MC_Ffi` | constants, sets of functions and symmetry of the runs |
| `FfiCallsProofs` | facts about the functions and out structs of the C layer, its types, and `valid_out` |
| `FfiOwnershipProofs` | the inductive invariant, ownership, receipts, and the refinement |
| `ApiCalls` | one call with the same arguments through UniFFI and through the C layer: checks, errors, verdicts |
| `ApiCallsProofs` | theorems about every function and every combination of arguments |
| `BbsScheme` | what the pseudonym functions of `lib.rs` compute, with ideal cryptography |
| `PseudonymRegistry` | what enrollment promises: members are entered, and only members speak, each with one pseudonym for a scope |
| `Enrollment` | holders, issuer, verifiers and an unreliable network; uses `BbsScheme`, implements `PseudonymRegistry` |
| `MC_Enrollment` | constants and symmetry of its run |
| `EnrollmentProofs` | its inductive invariant, its properties and the refinement |
| `ReleaseTags` | `make release`, and releases by hand, in the clones of several people against one origin |
| `ReleaseTagsProofs` | its inductive invariant |
| `ReleaseWorkflow` | the workflow of a pushed tag, with the steps of its last job |
| `Releases` | the two together: the workflow of what people push |
| `ReleasesProofs` | tags of make name their manifest, nothing is published early, and what passes has every native asset |

Operators whose comment starts with "Seeded bug" are plausible wrong versions of
the definition that follows them. No specification uses them; they exist to
confirm that each property fails when the code is wrong in that way
(`PROJECT.json`, "mutants").

### `CredentialParser`

`cred`, `offset` and `messages` are the locals of the function; a message is the
slice `[from, to)` of the credential it was copied from. `status` is the program
counter. Bytes are digits in base `Base` and the length prefix has four of them,
as in the code; `Plus` is `usize` addition of a release build, modulo
`UsizeMod`. A 32-bit build has `UsizeMod = Base^4`, a 64-bit build
`UsizeMod >= 2 * Base^4`, so bases 2 and 3 keep the ratio of prefix to word that
matters and let TLC enumerate every input. Slices are at most `isize::MAX`
long, which the assumption on `Credentials` states. Whether the first `SigLen`
bytes are a signature is a free choice (`BadSignature`, `GoodSignature`).
`CredentialEncoding` is what the result is compared with: the encoder of the test
`test_parse_bbs_credential_roundtrip`, and `EncodingFrom`, which tells whether any
list of messages could have been encoded to the bytes behind a position.

### `FfiCalls`

Each C function is a record (`bbs_ffi_sign` and so on): the kinds of its out
buffers, the inputs it rejects when null or empty, the inputs it treats as
absent, whether it answers through `valid_out`, and its own error code. All
eleven share one skeleton, which the actions model:

| Action | Code |
|---|---|
| `RejectNullOut` | the null check of the out pointers: `InvalidInput`, nothing is written |
| `RejectMissing` | the check of required inputs: outs cleared, `InvalidInput` |
| `Enter`, `CopyInputs` | the call begins; `from_raw_parts(..).to_vec()`, `read_optional_bytes`, `collect_messages`, `collect_u32_array` |
| `LibOk`, `LibAnswer`, `LibErr` | the function of `lib.rs` returns its Vecs, a verdict, or an error |
| `WriteBuffers` | `*out = BbsBuffer::from_vec(..)` for every out |
| `WriteNulls` | `*out = BbsBuffer::null()` for every out |
| `WriteAnswer` | `*valid_out = ..` |
| `bbs_ffi_free_buffer`, `bbs_ffi_alloc`, `bbs_ffi_dealloc` | the functions of that name |
| `Close`, `Stop` | the host stops calling |

`heap` maps an address to the size, alignment and contents kind of its block;
`slot` and `region` are the host's structs and pointers; `vec` is a result that
the library has allocated and the call has not written yet; `held` are the
handles the host still has to give back. `accepted`, `receipt` and `ub` are
history variables.

The host is as hostile as the documented contract (`c_ffi.rs:10-14` and the
`# Safety` sections) lets it be. It passes structs that still contain the
pointers of freed buffers, shares inputs between threads, frees inputs as soon
as they have been copied, asks `bbs_ffi_alloc` for impossible layouts, and
makes calls in any order with any arguments. It does keep to: distinct out
structs that owe nothing, inputs allocated until they are copied, exactly one
free for every out struct of a call that returned (whatever the code), and the
same `len` and `align` for `dealloc` as for `alloc`.

Left out: the bytes of a buffer (only its kind), memory of the host that the
library did not allocate, the temporaries a call allocates and frees before it
returns, running out of memory inside a `Vec` (the process aborts), and panics
inside `zkryptium` (abort at the C border).

### `ApiCalls`

A library function is the sequence of its checks and the one `FfiError` variant
it maps them to; `Library` lists all eleven. `arg` says of each argument whether
it is good, decodes to something else than the call is about, has the right
length and no meaning, has another length, or is null or empty. `call` is the
same call on its way through both interfaces: `EnterLibrary` and `RejectMissing`
are what lies in front of the library (UniFFI passes everything, the C layer has
its required inputs), `CheckPasses` and `CheckFails` walk the checks, `Answer`
and `Compute` are the primitive of `zkryptium` and the end. `works` is what the
primitive says and is chosen freely, except that a verification cannot say yes
to arguments that do not belong together. `FfiFunctions` gives the C layer's own
code for each failure, so that `SameSuccess` compares two tables that the source
also writes down twice.

### `BbsScheme` and `Enrollment`

`BbsScheme` gives the pseudonym functions of `lib.rs` over records instead of
bytes: a signature is the record of what it was made with, and it verifies
exactly for that; a function that can fail returns a set, empty for an error.
That nobody forges such records is the idealisation; which of its own arguments
each function passes on, compares or ignores is the code's. Two facts of the
code matter most: `bbs_blind_sign_with_nym` never compares the two halves of the
issuer's key, and `bbs_proof_gen_with_nym` never verifies the signature.

The hosts that call these functions are not in the repository. The roles are
those the documentation of `lib.rs` gives, and the order of the calls and what
is kept between them are those of `examples/`: the holder draws a nym secret
and commits (`bbs_generate_nym_secret`, `Commit`), the issuer signs
(`BlindSign`), the holder verifies and keeps the result (`Receive`), presents it
(`Present`), and a verifier checks it (`Verify`). A message once sent may arrive
never, once or often and at anybody: `Receive` may take the signature from one
answer and the messages from another, `Verify` the proof from one presentation
and the pseudonym from another. A retry is another `Commit`; `Forget` is a
holder that loses what it had; the issuer's key halves change in two steps. The
network and these faults, the exchange of the issuer's keys included, are marked
external in `PROJECT.json`.

### `ReleaseTags`, `ReleaseWorkflow` and `Releases`

`ReleaseTags` has one action for each line of the recipe of `make release`;
`Start` also takes the checksum, because make expands `$(eval ...)` before it
runs the first line. `ZipFramework` brings an archive that is there up to date and
may leave old members in it, as `zip -r` does. `SetVersion` needs a
`Package.swift`: the repository has none, so at this commit the recipe stops there
and leaves its archive. `AddManifest` is somebody who commits one; only behind it
does a recipe get to its end. `Stop` ends a release anywhere and leaves what was
done. `TagByHand` and `PushByHand` are the two commands of
`docs/CI_SETUP.md:22-25`, which do not touch `Package.swift`; `PushByHand` is also
what gets the tag of a recipe out that failed to push it. The origin accepts the
branch only as a fast forward and a tag only when it is new, one without the other;
that is git's rule and no property here repeats it.

`ReleaseWorkflow` is what a pushed tag starts. The four builds pass or fail in any
order. The last job has its steps: checkout (`StartRelease`), `Download`,
`CreateRelease`, one `Upload` for each file of its list that is in the merged
artifacts, `EndRelease`. It may fail at each of them (`FailRelease`), and what is
uploaded stays; `Rerun` runs failed builds and a failed last job again.

`Releases` extends `ReleaseTags` and instantiates `ReleaseWorkflow` with the tags at
the origin for `pushed`, so that workflows start from what make or a person pushed.
git and GitHub are outside of the repository: they are modelled by what the recipe
and the workflow use of them.

## Runs

| Run | Instance | What it shows |
|---|---|---|
| `parser_64` | all 16383 inputs of up to 13 binary digits, 1-digit signature, 8-bit words | parsing inverts encoding, ends, stays in bounds, never panics. 12 digits after the signature are room for three messages, or one of eight digits; every prefix value from 0 to 15 occurs |
| `parser_32` | all 29524 inputs of up to 9 base-3 digits, words as wide as the prefix | even when sums wrap, nothing but an encoding is ever accepted, and no turn of the loop takes the offset back |
| `parser_32_panics` | the same situation in base 2 | expected violation of `NoPanic`: see "Findings" |
| `ffi_threads` | 2 threads, 3 structs, 3 addresses, key generation, sign and verify | no undefined behaviour, exact ownership, receipts, under every interleaving. Three structs are what one two-result call and one one-result call need at the same time; three addresses make every allocation reuse freed blocks |
| `ffi_functions` | 1 thread, all 11 functions, Vecs with and without spare capacity, up to 2 borrowed inputs | types, receipts and verdicts along every sequence of calls |
| `ffi_regions` | 2 threads, 1 struct, 2 regions, five layouts (plain, aligned, empty, invalid alignment, too large once rounded up), fair | ownership, refinement of `BufferOwnership`, the invariant the proofs use, where calls and regions compete for blocks; once the host closes, all calls return and the heap drains |
| `api_arguments` | all 11 functions, up to 3 faulty arguments of every kind, both verdicts | both interfaces succeed alike, and verdicts are given exactly on what can be decoded |
| `api_wrong_length` | the same, 1 faulty argument | expected violation of `IllSizedIsInvalidInput`: see "Findings" |
| `enrollment` | 2 holders, 2 nym secrets, 2 blind factors, 2 entropies, 2 key pairs, 2 profiles, 1 committed message; 2 answers, 2 presentations, 3 requests in 2 scopes, disclosures of some, all and too many messages | only genuine credentials enter a wallet, every one can be presented, and verifiers accept members only; refinement of `PseudonymRegistry` |
| `release_pipeline` | 1 releaser of 1 version, 1 edit, branches of up to 3 commits, and its workflow, fair | tags of make name the manifest of their version; nothing is published early or passes incomplete; every tag at the origin is released or has a failed job to show |
| `release_checksum` | 1 releaser, 1 version | expected violation of `ChecksumOfArchive`: see "Findings" |
| `release_assets` | 1 tag | expected violation of `DocumentedAssets`: see "Findings" |

The properties:

* `Tiling`: messages lie end to end behind their prefixes, and success means
  that the whole credential was consumed.
* `RoundTrip`: success returns exactly the messages that encode to the input;
  an error or a panic means no list of messages does. The reference shares no
  arithmetic with the parser.
* `NoPanic`, `Terminates`, and `TurnsConsume`: on a 32-bit build, where the run
  states no `Terminates`, no length takes the offset back.
* `NoUB`: nothing is read from or given back to memory that is free or was
  allocated with another layout.
* `OwnedExactly`: live blocks and owning handles are in one-to-one
  correspondence, with the layout the owner's free will pass.
* `Receipts`: the return code tells which structs hold what.
* `FailClosed`: `valid_out` is 1 exactly when the latest verification said yes.
* `IInv`: the inductive invariant behind those, see "Proofs".
* `Refines`: every step is a step of `BufferOwnership` or changes no ownership.
* `Drains`: after `Close` the heap eventually is empty.
* `SameSuccess`: UniFFI and the C layer report the same successes and verdicts, and
  part on an empty scope, always and on nothing else. A failure has the code of the
  library's error where no argument is missing or ill-sized; for those
  `IllSizedIsInvalidInput` states what `c_ffi.rs:40` promises.
* `VerdictIffWellFormed`: malformed input never becomes "false", and "true"
  needs arguments that belong together.
* `WalletGenuine`, `AlwaysPresentable`, `LatestAttemptOnly`: whatever the network
  delivers, a wallet holds what the issuer made for the holder's latest attempt, and
  for every request and every choice of messages that it has, it gives a proof that
  verifies.
* `Accountable`, `NoFalseReplay`: what a verifier accepts is true of a member and
  was made for its request, and one pseudonym is one holder's in one scope.
* `RefinesRegistry`: issuing and verifying are steps of `PseudonymRegistry`.
* `MadeTagsNameTheirManifest`, `ChecksumOfArchive`: what is behind a tag that
  `make release` made. Nothing is claimed of a tag made by hand.
* `NativeAssetsComplete`, `NothingPublishedEarly`, `TaggedIsReleased`: what the
  workflow makes of a tag; `DocumentedAssets` is the documented list.

Bounds. Two attempts are one that is overtaken by a retry, or one for each of two
holders; two answers and two presentations are what mixing needs; the third
request repeats a scope with another header, and its fellow has the same header
with another scope, so each can be mistaken alone. Three faults in one call are a
missing input, a malformed one and one that does not belong to the others; the
order of checks cannot matter beyond two. In `release_pipeline` three commits are a
first `Package.swift`, an edit or a recipe that was broken off, and a release; one
version is enough for a tag by hand to take the one that a recipe was to have. A
second releaser, whose pushes and fetches interleave with the first one's, is out
of TLC's reach next to the workflow; the theorems of `ReleasesProofs` cover any
number of them.

Fairness. The parser is one sequential loop, so weak fairness of its next step
is the machine running it. In `FairSpec` each thread's call in progress keeps
running (calls are straight-line code without locks or waiting), and a closing
host frees what it holds, as the contract demands; before `Close` nothing obliges
the host to free or to call. In `ReleaseWorkflow` and
`Releases` a queued job gets a runner in the end and its steps end; nothing obliges
anybody to push a tag or to run a failed job again. `Enrollment` states no fairness: nothing
in the repository obliges a party to retry, so nothing must ever happen there.

Deadlock is checked in all `FfiCalls` runs (`Stop` is the intended end) and in
those of `ReleaseTags` and `Releases`. The other runs switch it off because a function, a bounded
exchange or a workflow ends.

Symmetry is used in runs without liveness only, over threads, structs, addresses,
holders, keys and random scalars, which no definition tells apart.

## Proofs

`CredentialParserProofs`, for every base, signature length, word size and input:

* `TypeCorrect`, `TilingCorrect` hold on every build, 32-bit ones included. The
  inductive invariant is `TypeOK` and `Tiling` together with the fact that
  nothing has been accepted before the signature was; the step that matters is
  `TakeMessage`: by lemma `LoopArithmetic` the end of a message is either the true
  sum or, wrapped (once, `WrapsOnce`), lies before the message's start, and such
  a slice is never taken.
* `WideNeverPanics`: under `Wide` (`UsizeMod >= 2 * Base^4`, every 64-bit build)
  no input panics, because no sum wraps at all.
* `PanicsOnlyWhenWrapping` and `WrappingAlwaysPanics` say for any word size which
  inputs panic: those whose message start and length add up to `UsizeMod` or more.
* `EveryTurnConsumes`: the offset grows by at least four in every turn. It is the
  measure of `Terminates`, which itself needs fairness and stays with TLC.

`RoundTripProofs`, under the same assumptions (`UsizeMod >= Base^4`):

* `RoundTripHolds`, by the inductive invariant `DecodeInv`: the bytes consumed so
  far are the encoding of the messages pushed so far (`Pushed`), the tail of the
  credential is an encoding exactly if what is left of it is one (`Rest`), and a
  refusal means that it is not (`Refused`). `RoundTrip` alone says nothing of the
  states inside the loop. The encoder is division with remainder and the parser
  multiplication; that four digits and the number below `Base^4` determine each
  other (`DigitsWritten`, `DigitsExist`, `PrefixRead`) rests on `Division`.
* `AcceptsOnlyEncodings`: success means that the reference accepts the credential.
  Together with `RoundTripHolds` the parser decides the reference behind a good
  signature.
* `ReadingUnique`: two lists of messages that tile the same credential are the
  same list, so what the signature covers is unambiguous.

The reference and `FlattenSeq` are recursive functions. The library's induction
theorems take an operator and cannot be used, but its least-element theorem
(`WFMin`) takes a set: `LeastNatural` turns it into "a counterexample has a least
one", from which follow that the functions exist (`FlattenExists`,
`EncodingExists`) and satisfy their equations (`FlattenAppend`,
`EncodingEquation`). The proof found an error in the reference: it did not say that
a message must be short enough for its prefix, and with words that hold longer
ones the truncated length of such a message was an encoding the parser rightly
does not read back. `EncodingFrom` now has that condition; no run could reach it.

`FfiCallsProofs` and `FfiOwnershipProofs`, for any number of threads, structs,
regions and addresses, any shapes and any layouts:

* `TypeCorrect`.
* `VerdictsFailClosed`: `FailClosed` speaks of threads between calls; the
  invariant `Verdicts` adds what holds inside one, namely that a verification
  has forgotten the last verdict and returns with a code and an answer that
  agree with the new one.
* `InvariantHolds`: `IInv` is inductive. `NoUB` and `OwnedExactly` alone are not:
  that a free is valid depends on what the call that filled the struct wrote
  (`HeldSlots`, `HeldRegions`), that on the results in flight before they were
  written (`Results`), and that on no other call or free touching the struct or
  the block meanwhile (`CallsApart` and the uniqueness half of
  `Ownership!Exact`). There is one lemma for each action, and each one also
  shows `Moves`: who owns what is unchanged, or free blocks were acquired, or
  one owner released its block. The arguments about owners are stated
  once (`SameOwners`, `NewOwners`, `LostOwner`) and used by all actions.
* `NothingUndefined`, `OwnershipExact` and `ReceiptsHold` follow from `IInv`
  without further induction, and so does `NothingLeftBehind`: when all calls have
  returned and the host holds nothing, nothing is allocated. That is what `Drains`
  says once the host has given everything back; that it comes to that is liveness.
* `OwnershipRefined`: `Spec` implements `BufferOwnership`; `Moves` is the step
  of the abstract specification that each action maps to. `ProtocolExact` proves
  what that is worth: the abstract specification alone implies `Exact`.

`ApiCallsProofs`, for any number of faulty arguments:

* `InvariantHolds`: the invariant says that a finished call has the outcome that
  its arguments determine (`Outcome`), and of one in progress that the checks
  behind it passed.
* `TypeCorrect`, `SameSuccesses` and `VerdictsWellFormed` follow from it: both
  outcomes are compared function by function, and `EmptyScopeMissing` says that
  the C layer asks for a scope wherever there is one.

`EnrollmentProofs`, for any number of holders, keys, attempts, messages and
requests:

* `InvariantHolds`: next to the properties, `IInv` says that a nym secret belongs
  to the one holder who drew it (`Owners`), that what is pending was sent with the
  present secret (`PendingSent`), that blind factors tell commitments apart
  (`FactorsFresh`), that answers are what the issuer made (`AnswersHonest`), and
  that credentials and presentations are true (`WalletValid`,
  `PresentationsTrue`). `WalletGenuine` rests on the first four.
* `TypeCorrect`, `WalletsGenuine`, `Presentable`, `LatestAttempt`,
  `AccountableHolds`, `NobodyMistaken` follow; the last from the halves of a nym
  secret being different things (`HalvesAssumption`). `Presentable` has the ideal
  scheme for an assumption: zkryptium gives an Err for an index out of range only.
* `RegistryRefined`: `Spec` implements `PseudonymRegistry`.

`ReleaseTagsProofs` and `ReleasesProofs`, for any number of releasers, versions and
commits, about the pipeline as a whole (`PipelineSpec`):

* `TypeCorrect` and `MadeTagsNamed`. A tag says nothing of the clone it will be
  pushed from later, so the invariant `IInv` follows a release from line to line
  (`InStep`): from `SetVersion` on the manifest, from `Commit` on the last commit is
  for the version that make was started with, and so is every tag of make in any
  clone. Tags come together by `Merge` only (`MergeGood`), by whatever command.
* `BuiltBeforePublished` and `NativeAssetsPublished`. Neither is inductive:
  `BuiltFirst` adds that the last job has begun, or anything is published, only when
  all builds have passed, so that no late build and no rerun of one belongs to it;
  `NothingForgotten` adds that while the job uploads, each native asset is still to
  be uploaded or is there already.

The assumptions are those of the modules, named there and evaluated by TLC in
every run: null is not an address, structs and regions are different things,
a Vec has `1 <= len <= cap` (an empty one has no block and is not among
`Shapes`), lengths and alignments are naturals.

Only model-checked: `Terminates`, `Drains` and `TaggedIsReleased`, liveness under
fairness, which like ENABLED is out of the provers' reach. Every other property of
the passing runs is also a theorem.

## Findings

* **32-bit overflow in the parser** (`src/lib.rs:826`, run `parser_32_panics`).
  On targets with a 32-bit `usize` (`armeabi-v7a` in `Makefile:68`, `wasm32` in
  `Makefile:55`) `offset + msg_len` wraps for a length near `u32::MAX`; the
  truncation check passes and the slice of line 835, whose start now exceeds its
  end, panics. The function is meant to return an error for truncated input
  (`src/lib.rs:1264`). `parser_32` shows that the damage ends there: a wrapped
  length is never accepted. `WideNeverPanics` shows that 64-bit builds are not
  affected.
* **Checksum of a release** (`Makefile:102`, run `release_checksum`). The comment
  at `Makefile:92` promises to update the checksum in `Package.swift`, but the
  checksum is computed before the archive is built: it is empty, or that of an
  archive which an earlier, broken-off release left behind. (At this commit the
  recipe stops at line 103, for want of a `Package.swift`, and leaves its archive;
  the run commits one first.)
* **Wrong lengths in the C layer** (`c_ffi.rs:171`, run `api_wrong_length`).
  `c_ffi.rs:40` says that `InvalidInput` covers wrong lengths, but no C function looks
  at a length other than zero: a wrong one comes back as the operation's own failure
  (`CheckFails`). The same goes for a null `blind_factor` of
  `bbs_ffi_proof_gen_with_nym`, which the C layer takes for an absent one
  (`c_ffi.rs:641`) and the library wants 32 bytes of (`lib.rs:630`): the caller is told
  `ProofGenFailed`, where `bbs_ffi_verify_blind_sign_with_nym` says `InvalidInput`.
* **Assets of a release** (`release.yml:89`, run `release_assets`).
  `docs/CI_SETUP.md:16-17` and `README.md:14-15` list the wasm files and the
  XCFramework among the assets, and `Makefile:93` says that CI builds the latter. No
  job builds it. `Files` names the wasm files under `wasm-out/`, and `Artifact` has
  them at the root of the artifact, so `CreateRelease` leaves them out.

A disagreement that no document rules on: an empty scope makes a proof through
UniFFI and is rejected by the C layer, and `SameSuccess` says so.

Not against any document, but worth knowing: the push of branch and tag is not
atomic, so a tag can be published whose commit is not on the branch; and a
release that stops after its commit cannot be repeated for the same version in
that clone, because there is nothing to commit or the tag exists. Enrolling
again with another entropy gives a holder another pseudonym in the same scope, by
design.

## Plan

Done: all parts listed above but those of the next section, the proofs of all their
safety properties, and the composition of the release pipeline. Nothing of the plan
is left.

## Not modelled

* `zkryptium` is an external crate; the models choose its answers freely, or take
  them from an ideal scheme.
* The UniFFI scaffolding is generated, and `uniffi-bindgen.rs` is its entry point.
* The examples' timing, statistics and printing. Their calls of the API are the
  actions of `Enrollment`.
* Builds: cargo, xcodebuild, lipo and wasm-bindgen pass or fail as a whole.
* The plain (not pseudonym) sign, verify and proof functions keep no state and
  are not exchanged between parties in the repository; `ApiCalls` has their checks
  and answers.
* Whether a host other than those of the contract misuses memory
  (null or overlapping out structs): see the notes in `PROJECT.json`, "hazards".
