---------------------------- MODULE ReleaseTagsProofs ----------------------------
(***************************************************************************)
(* For any number of releasers, versions and commits: a tag that           *)
(* `make release` made names, wherever it has got to, a commit whose       *)
(* Package.swift is for that version.                                      *)
(***************************************************************************)
EXTENDS ReleaseTags, TLAPS

Commits == [code : 0..MaxEdits, manifest : Manifests]

-----------------------------------------------------------------------------
(* Histories and tags. *)

LEMMA Appended ==
    ASSUME NEW h \in Histories, NEW c \in Commits
    PROVE  /\ Append(h, c) \in Histories /\ Append(h, c) # <<>>
           /\ Last(Append(h, c)) = c
  BY DEF Histories, Commits, Last

LEMMA LastCommit ==
    ASSUME NEW h \in Histories, h # <<>>
    PROVE  Last(h) \in Commits
  <1>1. h \in Seq(Commits) BY DEF Histories, Commits
  <1>2. Len(h) \in 1..Len(h) BY <1>1
  <1> QED BY <1>1, <1>2 DEF Last

\* Tags that have their types and name their manifests.
Good(f) == TagsOk(f) /\ NameManifests(f)

\* Tags come together in a clone or at the origin by git fetch and git push.
LEMMA MergeGood ==
    ASSUME NEW f, NEW g, Good(f), Good(g)
    PROVE  Good(Merge(f, g))
  <1>1. ASSUME NEW v \in DOMAIN Merge(f, g)
        PROVE  \/ v \in DOMAIN f /\ Merge(f, g)[v] = f[v]
               \/ v \in DOMAIN g /\ Merge(f, g)[v] = g[v]
    BY <1>1 DEF Merge
  <1> QED BY <1>1 DEF Good, TagsOk, NameManifests

LEMMA OneGood ==
    ASSUME NEW f, NEW w \in DOMAIN f, Good(f)
    PROVE  Good([v \in {w} |-> f[v]])
  BY DEF Good, TagsOk, NameManifests

\* git tag, by make or by hand.
LEMMA NewGood ==
    ASSUME NEW v \in Versions, NEW h \in Histories, NEW by \in {"make", "hand"},
           by = "make" => IsFor(v, h)
    PROVE  Good(New(v, h, by))
  <1>1. \A w \in DOMAIN New(v, h, by) :
          /\ w = v /\ New(v, h, by)[w] \in [commits : Histories, by : {"make", "hand"}]
          /\ New(v, h, by)[w].commits = h /\ New(v, h, by)[w].by = by
    BY DEF New
  <1> QED BY <1>1 DEF Good, TagsOk, NameManifests

-----------------------------------------------------------------------------
(* The invariant, taken apart for the steps: what is in the clones, and tags. *)

CloneTypes ==
    /\ at \in [Releasers -> Lines]
    /\ version \in [Releasers -> 0..MaxVersion]
    /\ checksum \in [Releasers -> Archives]
    /\ zip \in [Releasers -> Archives]
    /\ manifest \in [Releasers -> Manifests]
    /\ main \in [Releasers -> Histories]
    /\ edits \in 0..MaxEdits
    /\ origin.main \in Histories /\ origin.main # <<>>
    /\ \A r \in Releasers : main[r] # <<>>

TagsGood ==
    /\ DOMAIN tags = Releasers
    /\ \A r \in Releasers : Good(tags[r])
    /\ Good(origin.tags)

LEMMA Parts == IInv <=> CloneTypes /\ TagsGood /\ \A r \in Releasers : InStep(r)
  BY DEF IInv, TypeOK, CloneTypes, TagsGood, Good, MadeTagsNameTheirManifest

LEMMA PartsNext ==
    IInv' <=> CloneTypes' /\ TagsGood' /\ \A r \in Releasers : InStep(r)'
  BY DEF IInv, TypeOK, CloneTypes, TagsGood, Good, MadeTagsNameTheirManifest,
         Tagged, TagsOk, NameManifests, IsFor, InStep, Last

LEMMA InitIInv == Init => IInv
  <1> SUFFICES ASSUME Init PROVE IInv OBVIOUS
  <1> DEFINE first == [code |-> 0, manifest |-> {}]
  <1>1. first \in Commits BY BoundsAssumption DEF Commits, Manifests
  <1>2. /\ \A r \in Releasers : main[r] = <<first>> /\ tags[r] = <<>> /\ manifest[r] = {}
        /\ manifest = [r \in Releasers |-> {}]
        /\ main = [r \in Releasers |-> <<first>>]
        /\ origin.main = <<first>> /\ origin.tags = <<>>
    BY DEF Init
  <1> HIDE DEF first
  <1>3. <<first>> \in Histories /\ <<first>> # <<>> BY <1>1 DEF Histories, Commits
  <1>4. CloneTypes
    BY <1>2, <1>3, BoundsAssumption DEF Init, CloneTypes, Lines, Archives, Manifests
  <1>5. Good(<<>>) BY DEF Good, TagsOk, NameManifests
  <1>6. TagsGood BY <1>2, <1>5 DEF TagsGood, Init
  <1>7. \A r \in Releasers : InStep(r) BY DEF Init, InStep
  <1> QED BY <1>4, <1>6, <1>7, Parts

-----------------------------------------------------------------------------
(* The steps. *)

\* A clone that a step leaves alone stays in step.
LEMMA OthersInStep ==
    ASSUME NEW r \in Releasers, InStep(r),
           at'[r] = at[r], version'[r] = version[r], manifest'[r] = manifest[r],
           main'[r] = main[r], tags'[r] = tags[r]
    PROVE  InStep(r)'
  BY DEF InStep, IsFor, Last

\* Between two runs of make there is nothing to be in step with.
LEMMA IdleInStep ==
    ASSUME NEW r \in Releasers, at'[r] = "idle"
    PROVE  InStep(r)'
  BY DEF InStep

LEMMA NextIInv == IInv /\ [Next]_vars => IInv'
  <1> SUFFICES ASSUME IInv, [Next]_vars PROVE IInv' OBVIOUS
  <1>0. CloneTypes /\ TagsGood /\ \A q \in Releasers : InStep(q) BY Parts
  <1>t. "idle" \in Lines /\ "zip" \in Lines /\ "set version" \in Lines
        /\ "set checksum" \in Lines /\ "remove zip" \in Lines /\ "commit" \in Lines
        /\ "tag" \in Lines /\ "push" \in Lines
    BY DEF Lines
  <1>v. Versions \subseteq 0..MaxVersion /\ 0 \in 0..MaxVersion
    BY BoundsAssumption DEF Versions
  <1>1. ASSUME NEW r \in Releasers, Start(r) PROVE IInv'
    <2>1. PICK v \in Versions : version' = [version EXCEPT ![r] = v] BY <1>1 DEF Start
    <2>2. CloneTypes'
      BY <1>0, <1>1, <1>t, <1>v, <2>1 DEF CloneTypes, Start, Step, git
    <2>3. TagsGood' BY <1>0, <1>1 DEF TagsGood, Start, git, Good
    <2>4. InStep(r)' BY <1>0, <1>1, <2>1 DEF Start, Step, InStep, CloneTypes
    <2>5. \A q \in Releasers \ {r} : InStep(q)'
      BY <1>0, <1>1, <2>1, OthersInStep DEF Start, Step, git, CloneTypes
    <2> QED BY <2>2, <2>3, <2>4, <2>5, PartsNext
  <1>2. ASSUME NEW r \in Releasers, ZipFramework(r) PROVE IInv'
    <2>1. PICK stay \in SUBSET zip[r] :
            zip' = [zip EXCEPT ![r] = stay \cup {Last(main[r]).code}]
      BY <1>2 DEF ZipFramework
    <2>2. Last(main[r]) \in Commits BY <1>0, LastCommit DEF CloneTypes
    <2>3. zip' \in [Releasers -> Archives]
      BY <1>0, <2>1, <2>2 DEF CloneTypes, Commits, Archives
    <2>4. CloneTypes' BY <1>0, <1>2, <1>t, <2>3 DEF CloneTypes, ZipFramework, Step, git
    <2>5. TagsGood' BY <1>0, <1>2 DEF TagsGood, ZipFramework, git
    <2>6. InStep(r)' BY <1>0, <1>2 DEF ZipFramework, Step, InStep, CloneTypes
    <2>7. \A q \in Releasers \ {r} : InStep(q)'
      BY <1>0, <1>2, OthersInStep DEF ZipFramework, Step, git, CloneTypes
    <2> QED BY <2>4, <2>5, <2>6, <2>7, PartsNext
  <1>3. ASSUME NEW r \in Releasers, SetVersion(r) PROVE IInv'
    <2> DEFINE new == {[m EXCEPT !.version = version[r]] : m \in manifest[r]}
    <2>1. version[r] \in 0..MaxVersion /\ manifest[r] \in Manifests
      BY <1>0 DEF CloneTypes
    <2>2. new \in Manifests BY <2>1 DEF Manifests
    <2>3. \E m \in new : m.version = version[r]
      <3>1. PICK m \in manifest[r] : TRUE BY <1>3 DEF SetVersion
      <3>2. [m EXCEPT !.version = version[r]] \in new OBVIOUS
      <3>3. m \in [version : 0..MaxVersion, checksum : Archives]
        BY <2>1 DEF Manifests
      <3> QED BY <3>2, <3>3
    <2>4. manifest' = [manifest EXCEPT ![r] = new] BY <1>3 DEF SetVersion
    <2> HIDE DEF new
    <2>5. CloneTypes'
      BY <1>0, <1>3, <1>t, <2>2, <2>4 DEF CloneTypes, SetVersion, Step
    <2>6. TagsGood' BY <1>0, <1>3 DEF TagsGood, SetVersion
    <2>7. InStep(r)'
      BY <1>0, <1>3, <2>3, <2>4 DEF SetVersion, Step, InStep, CloneTypes
    <2>8. \A q \in Releasers \ {r} : InStep(q)'
      BY <1>0, <1>3, <2>4, OthersInStep DEF SetVersion, Step, CloneTypes
    <2> QED BY <2>5, <2>6, <2>7, <2>8, PartsNext
  <1>4. ASSUME NEW r \in Releasers, SetChecksum(r) PROVE IInv'
    <2> DEFINE new == {[m EXCEPT !.checksum = checksum[r]] : m \in manifest[r]}
    <2>1. checksum[r] \in Archives /\ manifest[r] \in Manifests
      BY <1>0 DEF CloneTypes
    <2>2. new \in Manifests BY <2>1 DEF Manifests
    <2>3. \E m \in new : m.version = version[r]
      <3>1. PICK m \in manifest[r] : m.version = version[r]
        BY <1>0, <1>4 DEF SetChecksum, Step, InStep
      <3>2. [m EXCEPT !.checksum = checksum[r]] \in new OBVIOUS
      <3>3. m \in [version : 0..MaxVersion, checksum : Archives]
        BY <2>1 DEF Manifests
      <3> QED BY <3>1, <3>2, <3>3
    <2>4. manifest' = [manifest EXCEPT ![r] = new] BY <1>4 DEF SetChecksum
    <2> HIDE DEF new
    <2>5. CloneTypes'
      BY <1>0, <1>4, <1>t, <2>2, <2>4 DEF CloneTypes, SetChecksum, Step
    <2>6. TagsGood' BY <1>0, <1>4 DEF TagsGood, SetChecksum
    <2>7. InStep(r)'
      BY <1>0, <1>4, <2>3, <2>4 DEF SetChecksum, Step, InStep, CloneTypes
    <2>8. \A q \in Releasers \ {r} : InStep(q)'
      BY <1>0, <1>4, <2>4, OthersInStep DEF SetChecksum, Step, CloneTypes
    <2> QED BY <2>5, <2>6, <2>7, <2>8, PartsNext
  <1>5. ASSUME NEW r \in Releasers, RemoveZip(r) PROVE IInv'
    <2>1. CloneTypes'
      BY <1>0, <1>5, <1>t DEF CloneTypes, RemoveZip, Step, git, Archives
    <2>2. TagsGood' BY <1>0, <1>5 DEF TagsGood, RemoveZip, git
    <2>3. InStep(r)' BY <1>0, <1>5 DEF RemoveZip, Step, git, InStep, CloneTypes
    <2>4. \A q \in Releasers \ {r} : InStep(q)'
      BY <1>0, <1>5, OthersInStep DEF RemoveZip, Step, git, CloneTypes
    <2> QED BY <2>1, <2>2, <2>3, <2>4, PartsNext
  <1>6. ASSUME NEW r \in Releasers, Commit(r) PROVE IInv'
    <2> DEFINE c == [code |-> Last(main[r]).code, manifest |-> manifest[r]]
    <2>1. Last(main[r]) \in Commits /\ main[r] \in Histories /\ manifest[r] \in Manifests
      BY <1>0, LastCommit DEF CloneTypes
    <2>2. c \in Commits /\ c.manifest = manifest[r] BY <2>1 DEF Commits
    <2>3. main' = [main EXCEPT ![r] = Append(main[r], c)] BY <1>6 DEF Commit
    <2> HIDE DEF c
    <2>4. /\ Append(main[r], c) \in Histories /\ Append(main[r], c) # <<>>
          /\ Last(Append(main[r], c)) = c
      BY <2>1, <2>2, Appended
    <2>5. CloneTypes'
      BY <1>0, <1>6, <1>t, <2>3, <2>4 DEF CloneTypes, Commit, Step
    <2>6. TagsGood' BY <1>0, <1>6 DEF TagsGood, Commit
    <2>7. InStep(r)'
      <3>1. \E m \in manifest[r] : m.version = version[r]
        BY <1>0, <1>6 DEF Commit, Step, InStep
      <3>2. main'[r] = Append(main[r], c) BY <1>0, <2>3 DEF CloneTypes
      <3>3. IsFor(version[r], main'[r]) BY <2>2, <2>4, <3>1, <3>2 DEF IsFor
      <3> QED BY <1>0, <1>6, <3>3 DEF Commit, Step, InStep, CloneTypes, IsFor
    <2>8. \A q \in Releasers \ {r} : InStep(q)'
      BY <1>0, <1>6, <2>3, OthersInStep DEF Commit, Step, CloneTypes
    <2> QED BY <2>5, <2>6, <2>7, <2>8, PartsNext
  <1>7. ASSUME NEW r \in Releasers, Tag(r) PROVE IInv'
    <2> DEFINE f == Merge(tags[r], New(version[r], main[r], "make"))
    <2>1. tags' = [tags EXCEPT ![r] = f] BY <1>7 DEF Tag
    <2>2. version[r] \in Versions /\ IsFor(version[r], main[r])
      BY <1>0, <1>7 DEF Tag, Step, InStep
    <2>3. main[r] \in Histories /\ Good(tags[r])
      BY <1>0 DEF CloneTypes, TagsGood
    <2>4. Good(New(version[r], main[r], "make")) BY <2>2, <2>3, NewGood
    <2>5. Good(f) BY <2>3, <2>4, MergeGood
    <2>6. version[r] \in DOMAIN f BY DEF Merge, New
    <2> HIDE DEF f
    <2>7. CloneTypes' BY <1>0, <1>7, <1>t DEF CloneTypes, Tag, Step
    <2>8. TagsGood' BY <1>0, <1>7, <2>1, <2>5 DEF TagsGood, Tag
    <2>9. InStep(r)'
      <3>1. IsFor(version[r], main[r])' BY <1>7, <2>2 DEF Tag, IsFor
      <3>2. tags'[r] = f /\ at'[r] = "push" /\ version'[r] = version[r]
        BY <1>0, <1>7, <2>1 DEF Tag, Step, CloneTypes, TagsGood
      <3> QED BY <2>2, <2>6, <3>1, <3>2 DEF InStep
    <2>10. \A q \in Releasers \ {r} : InStep(q)'
      BY <1>0, <1>7, <2>1, OthersInStep DEF Tag, Step, CloneTypes, TagsGood
    <2> QED BY <2>7, <2>8, <2>9, <2>10, PartsNext
  \* The four pushes: what gets to the origin is of the clone or there already.
  <1>8. ASSUME NEW r \in Releasers, NEW w \in DOMAIN tags[r],
               origin'.main \in {origin.main, main[r]},
               origin'.tags \in {origin.tags, Merge(origin.tags, [v \in {w} |-> tags[r][v]])},
               End(r) \/ UNCHANGED <<at, version, checksum>>,
               UNCHANGED <<zip, git>>
        PROVE  IInv'
    <2>1. Good(Merge(origin.tags, [v \in {w} |-> tags[r][v]]))
      BY <1>0, OneGood, MergeGood DEF TagsGood
    <2>2. CloneTypes'
      BY <1>0, <1>8, <1>t, <1>v DEF CloneTypes, End, git, Archives
    <2>3. TagsGood' BY <1>0, <1>8, <2>1 DEF TagsGood, git
    <2>4. InStep(r)'
      BY <1>0, <1>8, OthersInStep, IdleInStep DEF End, git, CloneTypes
    <2>5. \A q \in Releasers \ {r} : InStep(q)'
      BY <1>0, <1>8, OthersInStep DEF End, git, CloneTypes
    <2> QED BY <2>2, <2>3, <2>4, <2>5, PartsNext
  <1>9. ASSUME NEW r \in Releasers, Push(r) PROVE IInv'
    <2>1. version[r] \in DOMAIN tags[r] BY <1>0, <1>9 DEF Push, InStep
    <2>2. /\ origin'.main \in {origin.main, main[r]}
          /\ origin'.tags = Merge(origin.tags, [v \in {version[r]} |-> tags[r][v]])
      BY <1>9 DEF Push
    <2>3. End(r) /\ UNCHANGED <<zip, git>> BY <1>9 DEF Push
    <2> QED BY <1>8, <2>1, <2>2, <2>3
  <1>10. ASSUME NEW r \in Releasers, PushByHand(r) PROVE IInv'
    <2>1. PICK w \in DOMAIN tags[r] \ Tagged :
            origin' = [origin EXCEPT !.tags = Merge(origin.tags, [v \in {w} |-> tags[r][v]])]
      BY <1>10 DEF PushByHand
    <2> QED BY <1>8, <1>10, <2>1 DEF PushByHand
  \* Where no tag moves: make stops, or the branch is pushed alone.
  <1>11. ASSUME NEW r \in Releasers,
                origin'.main \in {origin.main, main[r]}, origin'.tags = origin.tags,
                End(r) \/ UNCHANGED <<at, version, checksum>>,
                UNCHANGED <<zip, git>>
         PROVE  IInv'
    <2>1. CloneTypes'
      BY <1>0, <1>11, <1>t, <1>v DEF CloneTypes, End, git, Archives
    <2>2. TagsGood' BY <1>0, <1>11 DEF TagsGood, git
    <2>3. InStep(r)'
      BY <1>0, <1>11, OthersInStep, IdleInStep DEF End, git, CloneTypes
    <2>4. \A q \in Releasers \ {r} : InStep(q)'
      BY <1>0, <1>11, OthersInStep DEF End, git, CloneTypes
    <2> QED BY <2>1, <2>2, <2>3, <2>4, PartsNext
  <1>12. ASSUME NEW r \in Releasers, Stop(r) PROVE IInv'
    BY <1>11, <1>12 DEF Stop
  <1>13. ASSUME NEW r \in Releasers, PushBranch(r) PROVE IInv'
    BY <1>11, <1>13 DEF PushBranch
  \* The steps of a clone in which make does not run.
  <1>14. ASSUME NEW r \in Releasers, at[r] = "idle", at' = at,
                NEW m \in Manifests, NEW h \in Histories, h # <<>>, NEW f, Good(f),
                manifest' = [manifest EXCEPT ![r] = m],
                main' = [main EXCEPT ![r] = h],
                tags' \in {tags, [tags EXCEPT ![r] = f]},
                edits' \in 0..MaxEdits,
                UNCHANGED <<version, checksum, zip, origin>>
         PROVE  IInv'
    <2>1. CloneTypes' BY <1>0, <1>14 DEF CloneTypes
    <2>2. TagsGood' BY <1>0, <1>14 DEF TagsGood
    <2>3. InStep(r)' BY <1>14, IdleInStep
    <2>4. \A q \in Releasers \ {r} : InStep(q)'
      BY <1>0, <1>14, OthersInStep DEF CloneTypes, TagsGood
    <2> QED BY <2>1, <2>2, <2>3, <2>4, PartsNext
  \* A clone's own part, for the steps that leave some of it alone.
  <1>15. ASSUME NEW r \in Releasers
         PROVE  /\ manifest[r] \in Manifests /\ manifest = [manifest EXCEPT ![r] = manifest[r]]
                /\ main[r] \in Histories /\ main[r] # <<>>
                /\ main = [main EXCEPT ![r] = main[r]]
                /\ Good(tags[r])
                /\ Last(main[r]) \in Commits
    <2>1. main[r] \in Histories /\ main[r] # <<>> BY <1>0 DEF CloneTypes
    <2> QED BY <1>0, <2>1, LastCommit DEF CloneTypes, TagsGood
  <1>16. ASSUME NEW r \in Releasers, TagByHand(r) PROVE IInv'
    <2>1. PICK v \in Versions \ DOMAIN tags[r] :
            tags' = [tags EXCEPT ![r] = Merge(tags[r], New(v, main[r], "hand"))]
      BY <1>16 DEF TagByHand
    <2>2. Good(New(v, main[r], "hand")) BY <1>15, NewGood
    <2>3. Good(Merge(tags[r], New(v, main[r], "hand"))) BY <1>15, <2>2, MergeGood
    <2> QED BY <1>0, <1>14, <1>15, <1>16, <2>1, <2>3 DEF TagByHand, CloneTypes
  <1>17. ASSUME NEW r \in Releasers, Edit(r) PROVE IInv'
    <2> DEFINE c == [code |-> edits + 1, manifest |-> Last(main[r]).manifest]
    <2>1. edits + 1 \in 0..MaxEdits
      BY <1>0, <1>17, BoundsAssumption DEF Edit, CloneTypes
    <2>2. c \in Commits BY <1>15, <2>1 DEF Commits
    <2>3. main' = [main EXCEPT ![r] = Append(main[r], c)] BY <1>17 DEF Edit
    <2> HIDE DEF c
    <2>4. Append(main[r], c) \in Histories /\ Append(main[r], c) # <<>>
      BY <1>15, <2>2, Appended
    <2> QED BY <1>14, <1>15, <1>17, <2>1, <2>3, <2>4 DEF Edit
  <1>18. ASSUME NEW r \in Releasers, AddManifest(r) PROVE IInv'
    <2> DEFINE m == {[version |-> 0, checksum |-> {}]}
               c == [code |-> Last(main[r]).code, manifest |-> m]
    <2>1. m \in Manifests BY <1>v DEF Manifests, Archives
    <2>2. c \in Commits BY <1>15, <2>1 DEF Commits
    <2>3. main' = [main EXCEPT ![r] = Append(main[r], c)]
          /\ manifest' = [manifest EXCEPT ![r] = m]
      BY <1>18 DEF AddManifest
    <2> HIDE DEF c, m
    <2>4. Append(main[r], c) \in Histories /\ Append(main[r], c) # <<>>
      BY <1>15, <2>2, Appended
    <2>5. /\ at[r] = "idle" /\ edits' \in 0..MaxEdits /\ tags' = tags /\ at' = at
          /\ UNCHANGED <<version, checksum, zip, origin>>
      BY <1>0, <1>18 DEF AddManifest, CloneTypes
    <2> QED BY <1>14, <1>15, <2>1, <2>3, <2>4, <2>5
  <1>19. ASSUME NEW r \in Releasers, Reset(r) PROVE IInv'
    <2>1. origin.main \in Histories /\ origin.main # <<>> /\ Good(origin.tags)
      BY <1>0 DEF CloneTypes, TagsGood
    <2>2. Last(origin.main).manifest \in Manifests BY <2>1, LastCommit DEF Commits
    <2>3. Good(Merge(tags[r], origin.tags)) BY <1>15, <2>1, MergeGood
    <2>4. edits' \in 0..MaxEdits BY <1>0, <1>19 DEF Reset, CloneTypes
    <2>5. /\ main' = [main EXCEPT ![r] = origin.main]
          /\ manifest' = [manifest EXCEPT ![r] = Last(origin.main).manifest]
          /\ tags' = [tags EXCEPT ![r] = Merge(tags[r], origin.tags)]
          /\ at[r] = "idle" /\ UNCHANGED <<at, version, checksum, zip, origin>>
      BY <1>19 DEF Reset
    <2> QED BY <1>14, <2>1, <2>2, <2>3, <2>4, <2>5
  <1>20. CASE UNCHANGED vars
    <2>1. CloneTypes' BY <1>0, <1>20 DEF CloneTypes, vars, git
    <2>2. TagsGood' BY <1>0, <1>20 DEF TagsGood, vars, git
    <2>3. \A q \in Releasers : InStep(q)' BY <1>0, <1>20, OthersInStep DEF vars, git
    <2> QED BY <2>1, <2>2, <2>3, PartsNext
  <1> QED
    BY <1>1, <1>2, <1>3, <1>4, <1>5, <1>6, <1>7, <1>9, <1>10, <1>12, <1>13,
       <1>16, <1>17, <1>18, <1>19, <1>20 DEF Next
=============================================================================
