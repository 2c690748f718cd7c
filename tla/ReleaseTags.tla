------------------------------ MODULE ReleaseTags ------------------------------
(***************************************************************************)
(* The two documented ways to release, in the clones of several people     *)
(* against one origin: `make release` (Makefile, lines 92-109), and a tag  *)
(* that is made and pushed by hand (docs/CI_SETUP.md, lines 20-25).        *)
(*                                                                         *)
(* Of the sources only a number is kept, another one after every edit.  An *)
(* archive is the set of the sources that its members were built from, and *)
(* its checksum is known by them; empty is a missing file.  Package.swift  *)
(* is a version and a checksum, in a set that is empty while it is missing *)
(* - as it is in this repository.  A tag is the history of its commit, and *)
(* who made it.                                                            *)
(***************************************************************************)
EXTENDS Naturals, Sequences, SequencesExt

CONSTANTS Releasers, MaxVersion, MaxEdits, MaxCommits

ASSUME BoundsAssumption == MaxVersion \in Nat /\ MaxEdits \in Nat

Versions == 1..MaxVersion

VARIABLES
    at,          \* the next line of the recipe in each clone, or "idle"
    version,     \* VERSION, after `patch`, `minor` or `major` is resolved
    checksum,    \* CHECKSUM
    zip,         \* the archive in the clone
    manifest,    \* Package.swift in the clone
    main, tags,  \* the branch, a sequence of commits, and the tags of the clone
    edits,       \* the number of edits so far
    origin       \* the branch and the tags of the origin

git == <<manifest, main, tags, edits>>
vars == <<at, version, checksum, zip, git, origin>>

Tagged == DOMAIN origin.tags

Init ==
    LET start == <<[code |-> 0, manifest |-> {}]>> IN
    /\ at = [r \in Releasers |-> "idle"]
    /\ version = [r \in Releasers |-> 0]
    /\ checksum = [r \in Releasers |-> {}]
    /\ zip = [r \in Releasers |-> {}]
    /\ manifest = [r \in Releasers |-> {}]
    /\ main = [r \in Releasers |-> start]
    /\ tags = [r \in Releasers |-> <<>>]
    /\ edits = 0
    /\ origin = [main |-> start, tags |-> <<>>]

-----------------------------------------------------------------------------
(* The recipe, line by line. *)

\* Two sets of tags together: what the first one has stays.
Merge(f, g) ==
    [v \in DOMAIN f \cup DOMAIN g |-> IF v \in DOMAIN f THEN f[v] ELSE g[v]]

New(v, commits, by) == [w \in {v} |-> [commits |-> commits, by |-> by]]

Step(r, line, next) == at[r] = line /\ at' = [at EXCEPT ![r] = next]

\* Seeded bug: without the check of lines 96-98, VERSION may be empty.
StartUnversioned(r) ==
    /\ Len(main[r]) < MaxCommits
    /\ Step(r, "idle", "zip")
    /\ \E v \in Versions \cup {0} : version' = [version EXCEPT ![r] = v]
    /\ checksum' = [checksum EXCEPT ![r] = zip[r]]
    /\ UNCHANGED <<zip, git, origin>>

\* The whole recipe is expanded before its first line runs, so $(shell ...)
\* looks for an archive now.
Start(r) ==
    /\ Len(main[r]) < MaxCommits
    /\ Step(r, "idle", "zip")
    /\ \E v \in Versions : version' = [version EXCEPT ![r] = v]
    /\ checksum' = [checksum EXCEPT ![r] = zip[r]]
    /\ UNCHANGED <<zip, git, origin>>

\* The framework is built anew and archived.  zip -r brings an archive that is
\* there up to date: members that the new framework does not have stay in it.
ZipFramework(r) ==
    /\ Step(r, "zip", "set version")
    /\ \E stay \in SUBSET zip[r] :
         zip' = [zip EXCEPT ![r] = stay \cup {Last(main[r]).code}]
    /\ UNCHANGED <<version, checksum, git, origin>>

\* Without a Package.swift sed fails, and make stops and leaves the archive.
SetVersion(r) ==
    /\ manifest[r] # {}
    /\ Step(r, "set version", "set checksum")
    /\ manifest' = [manifest EXCEPT ![r] = {[m EXCEPT !.version = version[r]] : m \in @}]
    /\ UNCHANGED <<version, checksum, zip, main, tags, edits, origin>>

SetChecksum(r) ==
    /\ Step(r, "set checksum", "remove zip")
    /\ manifest' = [manifest EXCEPT ![r] = {[m EXCEPT !.checksum = checksum[r]] : m \in @}]
    /\ UNCHANGED <<version, checksum, zip, main, tags, edits, origin>>

RemoveZip(r) ==
    /\ Step(r, "remove zip", "commit")
    /\ zip' = [zip EXCEPT ![r] = {}]
    /\ UNCHANGED <<version, checksum, git, origin>>

\* Seeded bug: without `git add` there is nothing to commit, and that is ignored.
CommitNothing(r) ==
    /\ Step(r, "commit", "tag")
    /\ UNCHANGED <<version, checksum, zip, git, origin>>

\* With nothing to commit, git fails and make stops.
Commit(r) ==
    /\ manifest[r] # Last(main[r]).manifest
    /\ Step(r, "commit", "tag")
    /\ main' = [main EXCEPT ![r] =
         Append(@, [code |-> Last(@).code, manifest |-> manifest[r]])]
    /\ UNCHANGED <<version, checksum, zip, manifest, tags, edits, origin>>

\* A version that has a tag already fails here.
Tag(r) ==
    /\ version[r] \notin DOMAIN tags[r]
    /\ Step(r, "tag", "push")
    /\ tags' = [tags EXCEPT ![r] = Merge(@, New(version[r], main[r], "make"))]
    /\ UNCHANGED <<version, checksum, zip, manifest, main, edits, origin>>

\* make ends, and its variables with it.
End(r) ==
    /\ at' = [at EXCEPT ![r] = "idle"]
    /\ version' = [version EXCEPT ![r] = 0]
    /\ checksum' = [checksum EXCEPT ![r] = {}]

\* One push of two refs is not atomic: the branch is refused unless the origin's
\* is part of it, the tag unless it is new, and either one without the other.
Push(r) ==
    /\ at[r] = "push" /\ End(r)
    /\ origin' =
         [main |-> IF IsPrefix(origin.main, main[r]) THEN main[r] ELSE origin.main,
          tags |-> Merge(origin.tags, [v \in {version[r]} |-> tags[r][v]])]
    /\ UNCHANGED <<zip, git>>

\* A command fails or make is interrupted: what was done so far stays done.
Stop(r) ==
    /\ at[r] # "idle" /\ End(r)
    /\ UNCHANGED <<zip, git, origin>>

-----------------------------------------------------------------------------
(* A release by hand: git tag and git push, of the tag alone. *)

\* Package.swift is not touched, and nothing is built.
TagByHand(r) ==
    /\ at[r] = "idle"
    /\ \E v \in Versions \ DOMAIN tags[r] :
         tags' = [tags EXCEPT ![r] = Merge(@, New(v, main[r], "hand"))]
    /\ UNCHANGED <<at, version, checksum, zip, manifest, main, edits, origin>>

\* It is also how the tag of a recipe that failed to push it gets out.
PushByHand(r) ==
    /\ at[r] = "idle"
    /\ \E w \in DOMAIN tags[r] \ Tagged :
         origin' = [origin EXCEPT !.tags = Merge(@, [v \in {w} |-> tags[r][v]])]
    /\ UNCHANGED <<at, version, checksum, zip, git>>

-----------------------------------------------------------------------------
(* Between two releases. *)

\* A commit of other sources, or of a first Package.swift.
Edit(r) ==
    /\ at[r] = "idle" /\ edits < MaxEdits /\ Len(main[r]) < MaxCommits
    /\ edits' = edits + 1
    /\ main' = [main EXCEPT ![r] =
         Append(@, [code |-> edits + 1, manifest |-> Last(@).manifest])]
    /\ UNCHANGED <<at, version, checksum, zip, manifest, tags, origin>>

AddManifest(r) ==
    /\ at[r] = "idle" /\ manifest[r] = {} /\ Len(main[r]) < MaxCommits
    /\ manifest' = [manifest EXCEPT ![r] = {[version |-> 0, checksum |-> {}]}]
    /\ main' = [main EXCEPT ![r] =
         Append(@, [code |-> Last(@).code, manifest |-> {[version |-> 0, checksum |-> {}]}])]
    /\ UNCHANGED <<at, version, checksum, zip, tags, edits, origin>>

PushBranch(r) ==
    /\ at[r] = "idle" /\ IsPrefix(origin.main, main[r]) /\ origin.main # main[r]
    /\ origin' = [origin EXCEPT !.main = main[r]]
    /\ UNCHANGED <<at, version, checksum, zip, git>>

\* git fetch and git reset --hard: a tag that the clone has is kept, and so is
\* the archive, which git does not know.
Reset(r) ==
    /\ at[r] = "idle"
    /\ main' = [main EXCEPT ![r] = origin.main]
    /\ manifest' = [manifest EXCEPT ![r] = Last(origin.main).manifest]
    /\ tags' = [tags EXCEPT ![r] = Merge(@, origin.tags)]
    /\ UNCHANGED <<at, version, checksum, zip, edits, origin>>

Next ==
    \E r \in Releasers :
        \/ Start(r) \/ ZipFramework(r) \/ SetVersion(r) \/ SetChecksum(r)
        \/ RemoveZip(r) \/ Commit(r) \/ Tag(r) \/ Push(r) \/ Stop(r)
        \/ TagByHand(r) \/ PushByHand(r)
        \/ Edit(r) \/ AddManifest(r) \/ PushBranch(r) \/ Reset(r)

Spec == Init /\ [][Next]_vars

-----------------------------------------------------------------------------
(* Properties. *)

Lines ==
    {"idle", "zip", "set version", "set checksum", "remove zip", "commit", "tag", "push"}
Archives == SUBSET (0..MaxEdits)
Manifests == SUBSET [version : 0..MaxVersion, checksum : Archives]
Histories == Seq([code : 0..MaxEdits, manifest : Manifests])
TagsOk(f) ==
    \A v \in DOMAIN f :
        v \in Versions /\ f[v] \in [commits : Histories, by : {"make", "hand"}]

TypeOK ==
    /\ at \in [Releasers -> Lines]
    /\ version \in [Releasers -> 0..MaxVersion]
    /\ checksum \in [Releasers -> Archives]
    /\ zip \in [Releasers -> Archives]
    /\ manifest \in [Releasers -> Manifests]
    /\ main \in [Releasers -> Histories]
    /\ DOMAIN tags = Releasers
    /\ \A r \in Releasers : TagsOk(tags[r])
    /\ edits \in 0..MaxEdits
    /\ origin.main \in Histories
    /\ TagsOk(origin.tags)

\* The history's last commit has a Package.swift, and it is for version v.
IsFor(v, commits) ==
    \E m \in Last(commits).manifest : m.version = v
NameManifests(f) == \A v \in DOMAIN f : f[v].by = "make" => IsFor(v, f[v].commits)

\* Whoever released what, was broken off where, tried again or pushed the tag
\* later by hand: a tag of `make release` at the origin names a commit whose
\* Package.swift is for that very version.  Of a tag made by hand nothing of
\* the kind can be said: what docs/CI_SETUP.md:22-25 does leaves out the lines
\* of the recipe that see to it.
MadeTagsNameTheirManifest == NameManifests(origin.tags)

\* The invariant behind it: the manifest, and then the commit, of a release that
\* is under way is for the version that make was started with, and so is every
\* tag that a clone may push later.
InStep(r) ==
    /\ at[r] # "idle" => version[r] \in Versions
    /\ at[r] \in {"set checksum", "remove zip", "commit"} =>
         \E m \in manifest[r] : m.version = version[r]
    /\ at[r] \in {"tag", "push"} => IsFor(version[r], main[r])
    /\ at[r] = "push" => version[r] \in DOMAIN tags[r]

IInv ==
    /\ TypeOK
    /\ \A r \in Releasers : main[r] # <<>> /\ InStep(r) /\ NameManifests(tags[r])
    /\ origin.main # <<>>
    /\ MadeTagsNameTheirManifest

\* Makefile:92: a release updates the checksum in Package.swift, that is, to one
\* of an archive that it has built from the tagged sources.
ChecksumOfArchive ==
    \A v \in Tagged :
        origin.tags[v].by = "make" =>
            LET head == Last(origin.tags[v].commits)
            IN \A m \in head.manifest : head.code \in m.checksum
=============================================================================
