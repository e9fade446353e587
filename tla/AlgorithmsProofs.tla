---------------------------- MODULE AlgorithmsProofs ----------------------------
(***************************************************************************)
(* The algorithms do what their invariants say for any inputs: claims and  *)
(* places, targets and locations, managed blocks, and the environment.     *)
(***************************************************************************)
EXTENDS Algorithms, LineDocumentProofs

-----------------------------------------------------------------------------
(* Claims *)

Addresses == Seq(STRING)

ScopeRecords == [type : Kinds, path : Addresses, address : Addresses]

(* It does not matter which of two claims came first: a check before the write, the
   reservation and the final transaction compare them in different orders. *)
THEOREM OverlapIsSymmetric ==
    ASSUME NEW s, NEW t
    PROVE  Overlap(s, t) <=> Overlap(t, s)
BY DEF Overlap, OneIs, Is, OverlapInFile, Nested, IsText

LEMMA PrefixOfItself == ASSUME NEW w \in Addresses PROVE IsPrefix(w, w)
BY DEF IsPrefix, Addresses

(* Every claim overlaps itself, so that the row and the reservation of a claim always
   stand in the way of another owner of the same claim. *)
THEOREM OverlapIsReflexive ==
    ASSUME NEW s \in ScopeRecords
    PROVE  Overlap(s, s)
<1>1. CASE s.type = "env"
  BY <1>1 DEF Overlap, OneIs, Is
<1>2. CASE s.type # "env"
  <2>1. IsPrefix(s.address, s.address)
    BY PrefixOfItself DEF ScopeRecords
  <2>2. OverlapInFile(s, s)
    BY <1>2, <2>1 DEF ScopeRecords, Kinds, OverlapInFile, OneIs, Is, Nested, IsText
  <2> QED BY <1>2, <2>2 DEF Overlap, OneIs
<1> QED BY <1>1, <1>2

LEMMA PrefixesOfOne ==
    ASSUME NEW Part, NEW u \in Seq(Part), NEW v \in Seq(Part), NEW w \in Seq(Part),
           IsPrefix(u, w), IsPrefix(v, w)
    PROVE  IsPrefix(u, v) \/ IsPrefix(v, u)
<1>1. /\ Len(u) \in Nat /\ Len(v) \in Nat /\ Len(w) \in Nat
      /\ Len(u) <= Len(w) /\ Len(v) <= Len(w)
      /\ \A n \in 1 .. Len(u) : u[n] = w[n]
      /\ \A n \in 1 .. Len(v) : v[n] = w[n]
  BY DEF IsPrefix
<1> QED BY <1>1 DEF IsPrefix

LEMMA PlaceOfClaim ==
    ASSUME NEW paths, NEW Word, NEW keys \in SUBSET Seq(Word), NEW ids, ids # {},
           NEW s, ClaimOver(s, paths, keys, ids)
    PROVE  \E place \in PlacesOver(paths, keys, ids) :
               /\ IsAbout(s, place) /\ place.path = s.path
               /\ s.type # "env" => place.in # "environment"
<1> DEFINE here(in, at) == [in |-> in, path |-> s.path, at |-> at]
<1>1. CASE s.type = "file"
  <2>1. IsPrefix(s.address, s.address)
    BY <1>1 DEF ClaimOver, IsPrefix
  <2>2. here("document", s.address) \in PlacesOver(paths, keys, ids)
    BY <1>1 DEF ClaimOver, PlacesOver
  <2> QED BY <1>1, <2>1, <2>2 DEF IsAbout
<1>2. CASE IsText(s)
  <2>1. here("text", s.address) \in PlacesOver(paths, keys, ids)
    BY <1>2 DEF ClaimOver, PlacesOver
  <2> QED BY <1>2, <2>1 DEF IsAbout
<1>3. PICK id \in ids : TRUE
  OBVIOUS
<1>4. CASE s.type = "asset"
  <2>1. here("text", id) \in PlacesOver(paths, keys, ids)
    BY DEF ClaimOver, PlacesOver
  <2> QED BY <1>4, <2>1 DEF IsAbout
<1>5. CASE s.type = "env"
  <2>1. here("environment", id) \in PlacesOver(paths, keys, ids)
    BY DEF ClaimOver, PlacesOver
  <2> QED BY <1>5, <2>1 DEF IsAbout
<1> QED BY <1>1, <1>2, <1>4, <1>5 DEF ClaimOver, Kinds, IsText

LEMMA OverlapSharesPlace ==
    ASSUME NEW Part, NEW paths \in SUBSET Seq(Part),
           NEW Word, NEW keys \in SUBSET Seq(Word), NEW ids, ids # {},
           NEW s, ClaimOver(s, paths, keys, ids), NEW t, ClaimOver(t, paths, keys, ids),
           Overlap(s, t)
    PROVE  SharedPlace(s, t, PlacesOver(paths, keys, ids))
<1> DEFINE places == PlacesOver(paths, keys, ids)
<1>1. PICK inS \in places : /\ IsAbout(s, inS) /\ inS.path = s.path
                            /\ s.type # "env" => inS.in # "environment"
  BY PlaceOfClaim
<1>2. PICK inT \in places : /\ IsAbout(t, inT) /\ inT.path = t.path
                            /\ t.type # "env" => inT.in # "environment"
  BY PlaceOfClaim
<1> HIDE DEF places
<1>3. CASE OneIs("env", s, t)
  <2>1. s.type = "env" /\ t.type = "env" /\ s.path = t.path
    BY <1>3 DEF Overlap, Is
  <2>2. IsAbout(t, inS)
    BY <1>1, <2>1 DEF IsAbout, IsText
  <2> QED BY <1>1, <2>2 DEF SharedPlace, places
<1>4. CASE ~OneIs("env", s, t)
  <2>1. s.type # "env" /\ t.type # "env"
    BY <1>4 DEF OneIs
  <2>2. CASE CoversPath(s, t) \/ (s.path = t.path /\ s.type = "asset")
    <3>1. IsAbout(s, inT)
      BY <1>2, <2>1, <2>2 DEF IsAbout, CoversPath
    <3> QED BY <1>2, <3>1 DEF SharedPlace, places
  <2>3. CASE CoversPath(t, s) \/ (s.path = t.path /\ t.type = "asset")
    <3>1. IsAbout(t, inS)
      BY <1>1, <2>1, <2>3 DEF IsAbout, CoversPath
    <3> QED BY <1>1, <3>1 DEF SharedPlace, places
  <2>4. CASE s.path = t.path /\ Is("file", s, t) /\ Nested(s, t)
    <3> DEFINE at(key) == [in |-> "document", path |-> s.path, at |-> key]
    <3>1. /\ s.type = "file" /\ t.type = "file"
          /\ s.address \in keys /\ t.address \in keys /\ s.path \in paths
      BY <2>4 DEF Is, ClaimOver
    <3>2. IsPrefix(s.address, s.address) /\ IsPrefix(t.address, t.address)
      BY <3>1 DEF IsPrefix
    <3>3. PICK key \in keys : IsPrefix(s.address, key) /\ IsPrefix(t.address, key)
      BY <2>4, <3>1, <3>2 DEF Nested
    <3>4. at(key) \in places /\ IsAbout(s, at(key)) /\ IsAbout(t, at(key))
      BY <2>4, <3>1, <3>3 DEF places, PlacesOver, IsAbout
    <3> QED BY <3>4 DEF SharedPlace, places
  <2>5. CASE s.path = t.path /\ IsText(s) /\ IsText(t) /\ s.address = t.address
    <3>1. IsAbout(t, inS)
      BY <1>1, <2>5 DEF IsAbout, IsText
    <3> QED BY <1>1, <3>1 DEF SharedPlace, places
  <2>6. CASE s.path = t.path /\ ~OneIs("asset", s, t) /\ ~Is("file", s, t) /\ ~(IsText(s) /\ IsText(t))
    <3>1. MixedFormats(s, t)
      BY <2>1, <2>6 DEF MixedFormats, OneIs, Is, IsText, ClaimOver, Kinds
    <3> QED BY <3>1 DEF SharedPlace
  <2>7. \/ CoversPath(s, t) \/ CoversPath(t, s)
        \/ s.path = t.path /\ OverlapInFile(s, t)
    BY <1>4 DEF Overlap
  <2> QED BY <2>2, <2>3, <2>4, <2>5, <2>6, <2>7 DEF OverlapInFile, OneIs
<1> QED BY <1>3, <1>4

LEMMA SharedPlaceOverlaps ==
    ASSUME NEW Part, NEW paths \in SUBSET Seq(Part),
           NEW Word, NEW keys \in SUBSET Seq(Word), NEW ids,
           NEW s, ClaimOver(s, paths, keys, ids), NEW t, ClaimOver(t, paths, keys, ids),
           SharedPlace(s, t, PlacesOver(paths, keys, ids))
    PROVE  Overlap(s, t)
<1>1. CASE MixedFormats(s, t)
  BY <1>1 DEF MixedFormats, IsText, Overlap, OverlapInFile, OneIs, Is
<1>2. CASE \E place \in PlacesOver(paths, keys, ids) : IsAbout(s, place) /\ IsAbout(t, place)
  <2>1. PICK place \in PlacesOver(paths, keys, ids) : IsAbout(s, place) /\ IsAbout(t, place)
    BY <1>2
  <2>2. /\ place.path \in Seq(Part) /\ s.path \in Seq(Part) /\ t.path \in Seq(Part)
        /\ place.in = "document" => place.at \in Seq(Word)
        /\ place.in \in {"document", "text", "environment"}
    BY DEF PlacesOver, ClaimOver
  <2>3. CASE s.type = "asset" \/ t.type = "asset"
    <3>1. /\ s.type # "env" /\ t.type # "env"
          /\ \/ place.path = s.path
             \/ CoversPath(s, place)
          /\ \/ place.path = t.path
             \/ CoversPath(t, place)
      BY <2>1, <2>3 DEF IsAbout, IsText
    <3>2. CASE place.path = s.path /\ place.path = t.path
      BY <2>3, <3>1, <3>2 DEF Overlap, OverlapInFile, OneIs
    <3>3. CASE place.path = s.path /\ CoversPath(t, place)
      BY <3>1, <3>3 DEF Overlap, CoversPath, OneIs
    <3>4. CASE place.path = t.path /\ CoversPath(s, place)
      BY <3>1, <3>4 DEF Overlap, CoversPath, OneIs
    <3>5. CASE CoversPath(s, place) /\ CoversPath(t, place)
      <4>1. IsPrefix(s.path, t.path) \/ IsPrefix(t.path, s.path)
        BY <2>2, <3>5, PrefixesOfOne DEF CoversPath
      <4> QED BY <3>1, <3>5, <4>1 DEF Overlap, CoversPath, OneIs
    <3> QED BY <3>1, <3>2, <3>3, <3>4, <3>5
  <2>4. CASE s.type = "file" /\ t.type = "file"
    <3>1. /\ s.path = t.path /\ place.in = "document"
          /\ IsPrefix(s.address, place.at) /\ IsPrefix(t.address, place.at)
          /\ s.address \in Seq(Word) /\ t.address \in Seq(Word)
      BY <2>1, <2>4 DEF IsAbout, IsText, ClaimOver
    <3>2. Nested(s, t)
      BY <2>2, <3>1, PrefixesOfOne DEF Nested
    <3> QED BY <2>4, <3>1, <3>2 DEF Overlap, OverlapInFile, OneIs, Is
  <2>5. CASE IsText(s) /\ IsText(t)
    BY <2>1, <2>5 DEF IsAbout, IsText, Overlap, OverlapInFile, OneIs, Is
  <2>6. CASE s.type = "env" /\ t.type = "env"
    BY <2>1, <2>6 DEF IsAbout, IsText, Overlap, OneIs, Is
  <2> QED BY <2>1, <2>3, <2>4, <2>5, <2>6 DEF IsAbout, IsText, ClaimOver, Kinds
<1> QED BY <1>1, <1>2 DEF SharedPlace

(* claims_overlap says yes exactly when the two claims have a place in common or would
   treat one file as a document and as text: no two owners can be given the same place,
   and none is refused a place that is free, whatever the paths, keys and blocks. *)
THEOREM OverlapMeansSharedPlace ==
    ASSUME NEW Part, NEW paths \in SUBSET Seq(Part),
           NEW Word, NEW keys \in SUBSET Seq(Word), NEW ids, ids # {},
           NEW s, ClaimOver(s, paths, keys, ids), NEW t, ClaimOver(t, paths, keys, ids)
    PROVE  Overlap(s, t) <=> SharedPlace(s, t, PlacesOver(paths, keys, ids))
BY OverlapSharesPlace, SharedPlaceOverlaps

-----------------------------------------------------------------------------
(* Targets and locations *)

\* Two targets for one path with the same priority pass the check at load only if no
\* machine activates both, but for WSL, which is linux too
\* (_validate_no_duplicate_overlapping_files against condition_skip_reason).
THEOREM AlternativesDoExclude ==
    ASSUME NEW left, NEW right, NEW machine
    PROVE  AlternativesExclude(left, right, machine)
<1>1. SUFFICES ASSUME left.priority = right.priority, MayStandTogether(left, right),
                      Matches(left, machine), Matches(right, machine)
               PROVE  /\ machine.platform = "wsl"
                      /\ {left.platforms \cap {"linux", "wsl"}, right.platforms \cap {"linux", "wsl"}}
                            = {{"linux"}, {"wsl"}}
  BY DEF AlternativesExclude
<1>2. ASSUME NEW one, NEW two, NEW value, Selects(one, value), Selects(two, value)
      PROVE  ValuesOverlap(one, two)
  BY <1>2 DEF Selects, ValuesOverlap
<1>3. ~ValuesOverlap(left.platforms, right.platforms)
  BY <1>1, <1>2 DEF MayStandTogether, FileTargetsOverlap, Matches
<1>4. /\ left.platforms # {} /\ right.platforms # {}
      /\ \A platform : ~(platform \in left.platforms /\ platform \in right.platforms)
  BY <1>3 DEF ValuesOverlap
<1>5. /\ PlatformMatches(left.platforms, machine)
      /\ PlatformMatches(right.platforms, machine)
  BY <1>1 DEF Matches
<1>6. /\ machine.platform = "wsl"
      /\ \/ /\ "wsl" \in left.platforms /\ "linux" \notin left.platforms
            /\ "linux" \in right.platforms /\ "wsl" \notin right.platforms
         \/ /\ "linux" \in left.platforms /\ "wsl" \notin left.platforms
            /\ "wsl" \in right.platforms /\ "linux" \notin right.platforms
  BY <1>4, <1>5 DEF PlatformMatches
<1>7. ASSUME NEW S, "wsl" \in S, "linux" \notin S
      PROVE  S \cap {"linux", "wsl"} = {"wsl"}
  BY <1>7
<1>8. ASSUME NEW S, "linux" \in S, "wsl" \notin S
      PROVE  S \cap {"linux", "wsl"} = {"linux"}
  BY <1>8
<1> QED BY <1>6, <1>7, <1>8

LEMMA CreatedHolds ==
    ASSUME NEW Name, NEW path \in Seq(Name), NEW files
    PROVE  /\ DOMAIN Created(path, files) = DOMAIN files \cup {SubSeq(path, 1, n) : n \in 1 .. Len(path)}
           /\ \A place \in DOMAIN files : Created(path, files)[place] = files[place]
BY DEF Created

\* What apply makes is there afterwards, with what it is made in.
LEMMA BaseIsMade ==
    ASSUME NEW Name, NEW base \in Seq(Name), NEW append \in Seq(Name), base # <<>>, NEW files
    PROVE  base \in DOMAIN Created(base \o append, files)
<1>1. Len(base) \in 1 .. Len(base \o append)
  BY DEF Created
<1>2. SubSeq(base \o append, 1, Len(base)) = base
  OBVIOUS
<1> QED BY <1>1, <1>2 DEF Created

\* What is there is still there, as it was.
StillThere(files, later) ==
    DOMAIN files \subseteq DOMAIN later /\ \A place \in DOMAIN files : later[place] = files[place]

LEMMA CreatedKeeps ==
    ASSUME NEW Name, NEW path \in Seq(Name), NEW files
    PROVE  StillThere(files, Created(path, files))
BY CreatedHolds DEF StillThere

\* The first path that exists later is the one that was chosen.
LEMMA ChosenStaysFirst ==
    ASSUME NEW paths, DOMAIN paths \in SUBSET Nat, NEW files, NEW later, StillThere(files, later),
           NEW base, NEW k \in DOMAIN paths, base = paths[k], Exists(base, later),
           Existing(paths, files) # {} => base = First(paths, Existing(paths, files)),
           \A n \in Existing(paths, later) \ Existing(paths, files) :
               \E m \in DOMAIN paths : m <= n /\ paths[m] = base
    PROVE  Existing(paths, later) # {} /\ First(paths, Existing(paths, later)) = base
<1> DEFINE before == Existing(paths, files)
           after == Existing(paths, later)
<1>1. before \in SUBSET after /\ after \in SUBSET Nat /\ k \in after
  BY DEF Existing, Exists, StillThere
<1>2. \A m \in DOMAIN paths : paths[m] = base => m \in after
  BY DEF Existing
<1> HIDE DEF before, after
<1>3. Min(after) \in after /\ \A n \in after : Min(after) <= n
  BY <1>1, MinIsFirst
<1>4. CASE Min(after) \in before
  <2>1. before \in SUBSET Nat /\ before # {}
    BY <1>1, <1>4
  <2>2. Min(before) \in before /\ \A n \in before : Min(before) <= n
    BY <2>1, MinIsFirst
  <2>3. /\ Min(before) \in Nat /\ Min(after) \in Nat
        /\ Min(before) <= Min(after) /\ Min(after) <= Min(before)
    BY <1>1, <1>3, <1>4, <2>2
  <2>4. Min(before) = Min(after)
    BY <2>3
  <2>5. base = paths[Min(before)]
    BY <2>1 DEF First, before
  <2> QED BY <1>1, <2>4, <2>5 DEF First, after
<1>5. CASE Min(after) \notin before
  <2>1. PICK m \in DOMAIN paths : m <= Min(after) /\ paths[m] = base
    BY <1>3, <1>5 DEF before, after
  <2>2. m \in after /\ Min(after) <= m /\ m \in Nat /\ Min(after) \in Nat
    BY <1>1, <1>2, <1>3, <2>1
  <2>3. m = Min(after)
    BY <2>1, <2>2
  <2> QED BY <1>1, <2>1, <2>3 DEF First, after
<1> QED BY <1>4, <1>5

LEMMA ResolvedIsCandidate ==
    ASSUME NEW location, NEW machine, NEW files,
           DOMAIN location.candidates \in SUBSET Nat,
           location.mode \in {"first", "create_parent", "first_existing", "required",
                              "first_existing_parent"},
           ResolveLocation(location, machine, files) # Unresolved
    PROVE  \E k \in DOMAIN CandidatePaths(location, machine) :
               ResolveLocation(location, machine, files) = CandidatePaths(location, machine)[k]
<1> DEFINE paths == CandidatePaths(location, machine)
           base == ResolveLocation(location, machine, files)
<1>1. DOMAIN paths \in SUBSET Nat
  BY DEF CandidatePaths
<1> HIDE DEF paths
<1>2. /\ Existing(paths, files) \in SUBSET DOMAIN paths
      /\ Sheltered(paths, files) \in SUBSET DOMAIN paths
  BY DEF Existing, Sheltered
<1>3. ASSUME NEW places \in SUBSET DOMAIN paths, places # {}
      PROVE  \E k \in DOMAIN paths : First(paths, places) = paths[k]
  <2>1. places \in SUBSET Nat
    BY <1>1
  <2>2. Min(places) \in places
    BY <1>3, <2>1, MinIsFirst
  <2> QED BY <2>2 DEF First
<1>4. \/ DOMAIN paths # {} /\ base = First(paths, DOMAIN paths)
      \/ Existing(paths, files) # {} /\ base = First(paths, Existing(paths, files))
      \/ Sheltered(paths, files) # {} /\ base = First(paths, Sheltered(paths, files))
  BY DEF ResolveLocation, Preferred, paths
<1>5. \E k \in DOMAIN paths : base = paths[k]
  BY <1>2, <1>3, <1>4
<1> QED BY <1>5 DEF paths

\* A location leads to the same path again after apply has created it and whatever else
\* has appeared, unless a candidate before it came into being or one of the wrong kind
\* (_resolve_location, also with path_append).
THEOREM SelectedPathsStay ==
    ASSUME NEW Name, NEW Candidate, \A one \in Candidate : one.path \in Seq(Name),
           NEW location, location.candidates \in Seq(Candidate),
           location.mode \in {"first", "create_parent", "first_existing", "required",
                              "first_existing_parent"},
           NEW append \in Seq(Name), NEW machine, NEW files, NEW other \in Seq(Name)
    PROVE  SelectedStays(location, append, machine, files, other)
<1> DEFINE paths == CandidatePaths(location, machine)
           path == ResolveTarget(location, append, machine, files)
           later == Created(other, Created(path, files))
           base == ResolveLocation(location, machine, files)
           chosen == SubSeq(path, 1, Len(path) - Len(append))
           inTheWay == {n \in DOMAIN paths :
                          /\ paths[n] \in DOMAIN later \ DOMAIN files
                          /\ \/ ~KindFits(location.kind, paths[n], later)
                             \/ chosen \notin {paths[m] : m \in DOMAIN paths \cap 1 .. n}}
<1>1. SUFFICES ASSUME path # Unresolved, inTheWay = {}
               PROVE  ResolveTarget(location, append, machine, later) = path
  BY DEF SelectedStays
<1>2. base # Unresolved /\ path = base \o append
  BY <1>1 DEF ResolveTarget
<1>3. /\ DOMAIN location.candidates \in SUBSET Nat /\ DOMAIN paths \in SUBSET Nat
      /\ \A n \in DOMAIN paths : paths[n] \in Seq(Name)
  BY DEF CandidatePaths
<1>4. PICK k \in DOMAIN paths : base = paths[k]
  BY <1>2, <1>3, ResolvedIsCandidate
<1>5. base \in Seq(Name)
  BY <1>3, <1>4
<1>6. path \in Seq(Name) /\ chosen = base
  <2>1. base \o append \in Seq(Name) /\ Len(base \o append) = Len(base) + Len(append)
    BY <1>5
  <2>2. SubSeq(base \o append, 1, Len(base)) = base
    BY <1>5
  <2> QED BY <1>2, <1>5, <2>1, <2>2
<1>7. StillThere(files, later)
  BY <1>6, CreatedKeeps DEF StillThere
<1>8. Exists(base, later)
  <2>1. CASE base = <<>>
    BY <2>1 DEF Exists
  <2>2. CASE base # <<>>
    BY <1>2, <1>5, <1>6, <2>2, BaseIsMade, CreatedKeeps DEF Exists, StillThere
  <2> QED BY <2>1, <2>2
<1> HIDE DEF paths, path, later, base, chosen
<1>9. ASSUME NEW n \in Existing(paths, later) \ Existing(paths, files)
      PROVE  \E m \in DOMAIN paths : m <= n /\ paths[m] = base
  <2>1. n \in DOMAIN paths /\ paths[n] \in DOMAIN later \ DOMAIN files
    BY DEF Existing, Exists
  <2> QED BY <1>1, <1>3, <1>6, <2>1
<1>10. \A n \in DOMAIN paths : KindFits(location.kind, paths[n], files) =>
           KindFits(location.kind, paths[n], later)
  BY <1>1, <1>7 DEF KindFits, StillThere
<1>11. ASSUME Existing(paths, files) # {} => base = First(paths, Existing(paths, files))
       PROVE  Existing(paths, later) # {} /\ First(paths, Existing(paths, later)) = base
  BY <1>3, <1>4, <1>7, <1>8, <1>9, <1>11, ChosenStaysFirst, SMTT(30)
<1>12. ResolveLocation(location, machine, later) = base
  <2>1. /\ DOMAIN paths # {}
        /\ \A n \in DOMAIN paths : KindFits(location.kind, paths[n], files)
        /\ location.mode \in {"first_existing", "required"} =>
              Existing(paths, files) # {} /\ base = First(paths, Existing(paths, files))
        /\ location.mode \in {"first", "create_parent"} => base = First(paths, DOMAIN paths)
        /\ location.mode = "first_existing_parent" => base = Preferred(paths, files)
    BY <1>2 DEF ResolveLocation, paths, base
  <2>2. \A n \in DOMAIN paths : KindFits(location.kind, paths[n], later)
    BY <1>10, <2>1
  <2>3. CASE location.mode \in {"first", "create_parent"}
    BY <2>1, <2>2, <2>3 DEF ResolveLocation, paths
  <2>4. CASE location.mode \in {"first_existing", "required"}
    BY <1>11, <2>1, <2>2, <2>4 DEF ResolveLocation, paths
  <2>5. CASE location.mode = "first_existing_parent"
    <3>1. Existing(paths, files) # {} => base = First(paths, Existing(paths, files))
      BY <2>1, <2>5 DEF Preferred
    <3>2. Preferred(paths, later) = base
      BY <1>11, <3>1 DEF Preferred
    <3> QED BY <2>1, <2>2, <2>5, <3>2 DEF ResolveLocation, paths
  <2> QED BY <2>3, <2>4, <2>5
<1> QED BY <1>2, <1>12 DEF ResolveTarget, path, base

-----------------------------------------------------------------------------
(* Picking, splitting and merging, element by element *)

PickTo(f, seq, places, k) ==
    f = [n \in 0 .. k |-> IF n = 0 THEN <<>>
                          ELSE IF n \in places THEN Append(f[n - 1], seq[n]) ELSE f[n - 1]]

WithIf(done, item, wanted) == IF wanted THEN Append(done, item) ELSE done

LEMMA PickSteps ==
    ASSUME NEW seq, NEW places, Len(seq) \in Nat
    PROVE  \E f : /\ f[0] = <<>>
                  /\ \A n \in 1 .. Len(seq) : f[n] = WithIf(f[n - 1], seq[n], n \in places)
                  /\ Picked(seq, places) = f[Len(seq)]
<1> DEFINE K == {k \in Nat : \E f : PickTo(f, seq, places, k)}
<1>1. 0 \in K
  <2> DEFINE f == [n \in 0 .. 0 |-> <<>>]
  <2>1. PickTo(f, seq, places, 0)
    BY DEF PickTo
  <2> QED BY <2>1
<1>2. ASSUME NEW k \in K PROVE k + 1 \in K
  <2>1. PICK f : PickTo(f, seq, places, k)
    OBVIOUS
  <2> DEFINE g == [n \in 0 .. k + 1 |-> IF n = k + 1 THEN WithIf(f[k], seq[n], n \in places) ELSE f[n]]
  <2>2. \A n \in 0 .. k : f[n] = IF n = 0 THEN <<>> ELSE WithIf(f[n - 1], seq[n], n \in places)
    BY <2>1 DEF PickTo, WithIf
  <2>3. ASSUME NEW n \in 0 .. k + 1
        PROVE  g[n] = IF n = 0 THEN <<>> ELSE WithIf(g[n - 1], seq[n], n \in places)
    <3>1. CASE n = k + 1
      BY <3>1
    <3>2. CASE n # k + 1
      BY <2>2, <3>2
    <3> QED BY <3>1, <3>2
  <2>4. PickTo(g, seq, places, k + 1)
    BY <2>3 DEF PickTo, WithIf
  <2> QED BY <2>4
<1>3. K = Nat
  <2> HIDE DEF K
  <2> QED BY <1>1, <1>2, NatInd DEF K
<1>4. \E f : PickTo(f, seq, places, Len(seq))
  BY <1>3
<1> DEFINE g == CHOOSE f : PickTo(f, seq, places, Len(seq))
<1>5. PickTo(g, seq, places, Len(seq))
  BY <1>4
<1>6. Picked(seq, places) = g[Len(seq)]
  BY Zenon DEF Picked, PickTo
<1> HIDE DEF g
<1>7. \A n \in 0 .. Len(seq) : g[n] = IF n = 0 THEN <<>> ELSE WithIf(g[n - 1], seq[n], n \in places)
  BY <1>5 DEF PickTo, WithIf
<1>8. g[0] = <<>> /\ \A n \in 1 .. Len(seq) : g[n] = WithIf(g[n - 1], seq[n], n \in places)
  BY <1>7
<1> QED BY <1>6, <1>8

LEMMA PickAppend ==
    ASSUME NEW S, NEW seq \in Seq(S), NEW new \in S, NEW places
    PROVE  Picked(Append(seq, new), places) = WithIf(Picked(seq, places), new, Len(seq) + 1 \in places)
<1> DEFINE longer == Append(seq, new)
           last == Len(seq)
<1>1. last \in Nat /\ Len(longer) = last + 1 /\ longer[last + 1] = new
  OBVIOUS
<1>2. \A n \in 1 .. last : longer[n] = seq[n]
  OBVIOUS
<1> HIDE DEF longer
<1>3. PICK f : /\ f[0] = <<>>
               /\ \A n \in 1 .. last : f[n] = WithIf(f[n - 1], seq[n], n \in places)
               /\ Picked(seq, places) = f[last]
  BY <1>1, PickSteps
<1> HIDE DEF last
<1>4. PICK g : /\ g[0] = <<>>
               /\ \A n \in 1 .. last + 1 : g[n] = WithIf(g[n - 1], longer[n], n \in places)
               /\ Picked(longer, places) = g[last + 1]
  <2>1. Len(longer) \in Nat
    BY <1>1
  <2> QED BY <1>1, <2>1, PickSteps
<1>5. \A n \in 0 .. last : f[n] = g[n]
  <2> DEFINE T == {n \in 0 .. last : f[n] = g[n]}
  <2>1. \A n \in 1 .. last : g[n] = WithIf(g[n - 1], seq[n], n \in places)
    BY <1>1, <1>2, <1>4
  <2>2. 0 \in T /\ \A n \in 0 + 1 .. last : n - 1 \in T => n \in T
    BY <1>1, <1>3, <1>4, <2>1
  <2> HIDE DEF T
  <2>3. \A n \in 0 .. last : n \in T
    BY <1>1, <2>2, IntervalInd
  <2> QED BY <2>3 DEF T
<1>6. last + 1 \in 1 .. last + 1 /\ (last + 1) - 1 = last /\ last \in 0 .. last
  BY <1>1
<1>7. g[last + 1] = WithIf(g[last], new, last + 1 \in places)
  BY <1>1, <1>4, <1>6
<1> QED BY <1>3, <1>4, <1>5, <1>6, <1>7 DEF longer, last

SplitTo(f, value, k) ==
    f = [n \in 0 .. k |-> IF n = 0 THEN <<<<>>>>
                          ELSE IF value[n] = Separator THEN Append(f[n - 1], <<>>)
                               ELSE [f[n - 1] EXCEPT ![Len(f[n - 1])] = Append(@, value[n])]]

WithPart(done, part) == IF part = Separator THEN Append(done, <<>>)
                        ELSE [done EXCEPT ![Len(done)] = Append(@, part)]

LEMMA SplitSteps ==
    ASSUME NEW value, Len(value) \in Nat
    PROVE  \E f : /\ f[0] = <<<<>>>>
                  /\ \A n \in 1 .. Len(value) : f[n] = WithPart(f[n - 1], value[n])
                  /\ Split(value) = f[Len(value)]
<1> DEFINE K == {k \in Nat : \E f : SplitTo(f, value, k)}
<1>1. 0 \in K
  <2> DEFINE f == [n \in 0 .. 0 |-> <<<<>>>>]
  <2>1. SplitTo(f, value, 0)
    BY DEF SplitTo
  <2> QED BY <2>1
<1>2. ASSUME NEW k \in K PROVE k + 1 \in K
  <2>1. PICK f : SplitTo(f, value, k)
    OBVIOUS
  <2> DEFINE g == [n \in 0 .. k + 1 |-> IF n = k + 1 THEN WithPart(f[k], value[n]) ELSE f[n]]
  <2>2. \A n \in 0 .. k : f[n] = IF n = 0 THEN <<<<>>>> ELSE WithPart(f[n - 1], value[n])
    BY <2>1 DEF SplitTo, WithPart
  <2>3. ASSUME NEW n \in 0 .. k + 1
        PROVE  g[n] = IF n = 0 THEN <<<<>>>> ELSE WithPart(g[n - 1], value[n])
    <3>1. CASE n = k + 1
      BY <3>1
    <3>2. CASE n # k + 1
      BY <2>2, <3>2
    <3> QED BY <3>1, <3>2
  <2>4. SplitTo(g, value, k + 1)
    BY <2>3 DEF SplitTo, WithPart
  <2> QED BY <2>4
<1>3. K = Nat
  <2> HIDE DEF K
  <2> QED BY <1>1, <1>2, NatInd DEF K
<1>4. \E f : SplitTo(f, value, Len(value))
  BY <1>3
<1> DEFINE g == CHOOSE f : SplitTo(f, value, Len(value))
<1>5. SplitTo(g, value, Len(value))
  BY <1>4
<1>6. Split(value) = g[Len(value)]
  BY Zenon DEF Split, SplitTo
<1> HIDE DEF g
<1>7. \A n \in 0 .. Len(value) : g[n] = IF n = 0 THEN <<<<>>>> ELSE WithPart(g[n - 1], value[n])
  BY <1>5 DEF SplitTo, WithPart
<1>8. g[0] = <<<<>>>> /\ \A n \in 1 .. Len(value) : g[n] = WithPart(g[n - 1], value[n])
  BY <1>7
<1> QED BY <1>6, <1>8

LEMMA SplitAppend ==
    ASSUME NEW S, NEW value \in Seq(S), NEW new \in S
    PROVE  Split(Append(value, new)) = WithPart(Split(value), new)
<1> DEFINE longer == Append(value, new)
           last == Len(value)
<1>1. last \in Nat /\ Len(longer) = last + 1 /\ longer[last + 1] = new
  OBVIOUS
<1>2. \A n \in 1 .. last : longer[n] = value[n]
  OBVIOUS
<1> HIDE DEF longer
<1>3. PICK f : /\ f[0] = <<<<>>>>
               /\ \A n \in 1 .. last : f[n] = WithPart(f[n - 1], value[n])
               /\ Split(value) = f[last]
  BY <1>1, SplitSteps
<1> HIDE DEF last
<1>4. PICK g : /\ g[0] = <<<<>>>>
               /\ \A n \in 1 .. last + 1 : g[n] = WithPart(g[n - 1], longer[n])
               /\ Split(longer) = g[last + 1]
  <2>1. Len(longer) \in Nat
    BY <1>1
  <2> QED BY <1>1, <2>1, SplitSteps
<1>5. \A n \in 0 .. last : f[n] = g[n]
  <2> DEFINE T == {n \in 0 .. last : f[n] = g[n]}
  <2>1. \A n \in 1 .. last : g[n] = WithPart(g[n - 1], value[n])
    BY <1>1, <1>2, <1>4
  <2>2. 0 \in T /\ \A n \in 0 + 1 .. last : n - 1 \in T => n \in T
    BY <1>1, <1>3, <1>4, <2>1
  <2> HIDE DEF T
  <2>3. \A n \in 0 .. last : n \in T
    BY <1>1, <2>2, IntervalInd
  <2> QED BY <2>3 DEF T
<1>6. last + 1 \in 1 .. last + 1 /\ (last + 1) - 1 = last /\ last \in 0 .. last
  BY <1>1
<1>7. g[last + 1] = WithPart(g[last], new)
  BY <1>1, <1>4, <1>6
<1> QED BY <1>3, <1>4, <1>5, <1>6, <1>7 DEF longer, last

MergeTo(f, entries, environ, k) ==
    f = [n \in 0 .. k |-> IF n = 0 THEN environ
                          ELSE IF entries[n].value = NoValue THEN f[n - 1]
                               ELSE Assigned(f[n - 1], entries[n].name, Expand(entries[n].value, f[n - 1]))]

WithEntry(env, entry) == IF entry.value = NoValue THEN env
                         ELSE Assigned(env, entry.name, Expand(entry.value, env))

LEMMA MergeSteps ==
    ASSUME NEW entries, NEW environ, Len(entries) \in Nat
    PROVE  \E f : /\ f[0] = environ
                  /\ \A n \in 1 .. Len(entries) : f[n] = WithEntry(f[n - 1], entries[n])
                  /\ Merge(entries, environ) = f[Len(entries)]
<1> DEFINE K == {k \in Nat : \E f : MergeTo(f, entries, environ, k)}
<1>1. 0 \in K
  <2> DEFINE f == [n \in 0 .. 0 |-> environ]
  <2>1. MergeTo(f, entries, environ, 0)
    BY DEF MergeTo
  <2> QED BY <2>1
<1>2. ASSUME NEW k \in K PROVE k + 1 \in K
  <2>1. PICK f : MergeTo(f, entries, environ, k)
    OBVIOUS
  <2> DEFINE g == [n \in 0 .. k + 1 |-> IF n = k + 1 THEN WithEntry(f[k], entries[n]) ELSE f[n]]
  <2>2. \A n \in 0 .. k : f[n] = IF n = 0 THEN environ ELSE WithEntry(f[n - 1], entries[n])
    BY <2>1 DEF MergeTo, WithEntry
  <2>3. ASSUME NEW n \in 0 .. k + 1
        PROVE  g[n] = IF n = 0 THEN environ ELSE WithEntry(g[n - 1], entries[n])
    <3>1. CASE n = k + 1
      BY <3>1
    <3>2. CASE n # k + 1
      BY <2>2, <3>2
    <3> QED BY <3>1, <3>2
  <2>4. MergeTo(g, entries, environ, k + 1)
    BY <2>3 DEF MergeTo, WithEntry
  <2> QED BY <2>4
<1>3. K = Nat
  <2> HIDE DEF K
  <2> QED BY <1>1, <1>2, NatInd DEF K
<1>4. \E f : MergeTo(f, entries, environ, Len(entries))
  BY <1>3
<1> DEFINE g == CHOOSE f : MergeTo(f, entries, environ, Len(entries))
<1>5. MergeTo(g, entries, environ, Len(entries))
  BY <1>4
<1>6. Merge(entries, environ) = g[Len(entries)]
  BY Zenon DEF Merge, MergeTo
<1> HIDE DEF g
<1>7. \A n \in 0 .. Len(entries) : g[n] = IF n = 0 THEN environ ELSE WithEntry(g[n - 1], entries[n])
  BY <1>5 DEF MergeTo, WithEntry
<1>8. g[0] = environ /\ \A n \in 1 .. Len(entries) : g[n] = WithEntry(g[n - 1], entries[n])
  BY <1>7
<1> QED BY <1>6, <1>8


LEMMA PickedEmpty == ASSUME NEW places PROVE Picked(<<>>, places) = <<>>
<1>1. Len(<<>>) = 0 /\ 0 \in Nat
  OBVIOUS
<1> QED BY <1>1, PickSteps

LEMMA PickedType ==
    ASSUME NEW S, NEW seq \in Seq(S), NEW places
    PROVE  Picked(seq, places) \in Seq(S)
<1> DEFINE T == {s \in Seq(S) : Picked(s, places) \in Seq(S)}
<1>1. <<>> \in T
  <2>1. Picked(<<>>, places) = <<>> /\ <<>> \in Seq(S)
    BY PickedEmpty
  <2> QED BY <2>1
<1>2. ASSUME NEW s \in T, NEW new \in S PROVE Append(s, new) \in T
  <2>1. s \in Seq(S) /\ Picked(s, places) \in Seq(S) /\ Append(s, new) \in Seq(S)
    OBVIOUS
  <2> HIDE DEF T
  <2> DEFINE picked == Picked(s, places)
             after == Picked(Append(s, new), places)
  <2>2. after \in Seq(S)
    <3>1. after = WithIf(picked, new, Len(s) + 1 \in places)
      BY <2>1, PickAppend
    <3> HIDE DEF after, picked
    <3>2. picked \in Seq(S)
      BY <2>1 DEF picked
    <3> QED BY <3>1, <3>2 DEF WithIf
  <2> QED BY <2>1, <2>2 DEF T
<1>3. T = Seq(S)
  <2>1. T \in SUBSET Seq(S)
    OBVIOUS
  <2> HIDE DEF T
  <2> QED BY <1>1, <1>2, <2>1, SeqInd
<1> QED BY <1>3

\* Only the places of the sequence count.
LEMMA PickedSame ==
    ASSUME NEW S, NEW seq \in Seq(S), NEW one, NEW two,
           \A n \in 1 .. Len(seq) : n \in one <=> n \in two
    PROVE  Picked(seq, one) = Picked(seq, two)
<1> DEFINE last == Len(seq)
<1>1. last \in Nat
  OBVIOUS
<1>2. PICK f : /\ f[0] = <<>>
               /\ \A n \in 1 .. last : f[n] = WithIf(f[n - 1], seq[n], n \in one)
               /\ Picked(seq, one) = f[last]
  BY <1>1, PickSteps
<1>3. PICK g : /\ g[0] = <<>>
               /\ \A n \in 1 .. last : g[n] = WithIf(g[n - 1], seq[n], n \in two)
               /\ Picked(seq, two) = g[last]
  BY <1>1, PickSteps
<1> DEFINE T == {n \in 0 .. last : f[n] = g[n]}
<1>4. 0 \in T /\ \A n \in 0 + 1 .. last : n - 1 \in T => n \in T
  <2>1. 0 \in T
    BY <1>1, <1>2, <1>3
  <2>2. ASSUME NEW n \in 0 + 1 .. last, n - 1 \in T PROVE n \in T
    <3>1. n \in 1 .. last /\ n \in 0 .. last /\ f[n - 1] = g[n - 1]
      BY <2>2
    <3>2. f[n] = WithIf(f[n - 1], seq[n], n \in one) /\ g[n] = WithIf(g[n - 1], seq[n], n \in two)
      BY <1>2, <1>3, <3>1
    <3>3. f[n] = g[n]
      BY <3>1, <3>2 DEF WithIf
    <3> QED BY <3>1, <3>3
  <2> QED BY <2>1, <2>2
<1> HIDE DEF T, last
<1>5. \A n \in 0 .. last : n \in T
  BY <1>1, <1>4, IntervalInd
<1>6. last \in T
  BY <1>1, <1>5
<1> QED BY <1>2, <1>3, <1>6 DEF T

\* What stands at one of the places is picked.
LEMMA PickedHolds ==
    ASSUME NEW S, NEW seq \in Seq(S), NEW places, NEW n \in 1 .. Len(seq), n \in places
    PROVE  \E k \in 1 .. Len(Picked(seq, places)) : Picked(seq, places)[k] = seq[n]
<1> DEFINE All1(s) == \A m \in 1 .. Len(s) :
                          m \in places => \E k \in 1 .. Len(Picked(s, places)) : Picked(s, places)[k] = s[m]
           T == {s \in Seq(S) : All1(s)}
<1>1. <<>> \in T
  OBVIOUS
<1>2. ASSUME NEW s \in T, NEW new \in S PROVE Append(s, new) \in T
  <2> DEFINE more == Append(s, new)
             before == Picked(s, places)
             after == Picked(more, places)
             size == Len(s)
  <2>1. /\ s \in Seq(S) /\ more \in Seq(S) /\ Len(more) = size + 1 /\ more[size + 1] = new /\ size \in Nat
        /\ \A m \in 1 .. size : more[m] = s[m]
    OBVIOUS
  <2>2. \A m \in 1 .. size : m \in places => \E k \in 1 .. Len(before) : before[k] = s[m]
    OBVIOUS
  <2>3. before \in Seq(S) /\ after = WithIf(before, new, size + 1 \in places)
    BY <2>1, PickedType, PickAppend
  <2> HIDE DEF T, more, before, after, size
  <2>4. /\ \A k \in 1 .. Len(before) : k \in 1 .. Len(after) /\ after[k] = before[k]
        /\ size + 1 \in places => Len(after) \in 1 .. Len(after) /\ after[Len(after)] = new
    BY <2>3 DEF WithIf
  <2>5. ASSUME NEW m \in 1 .. Len(more), m \in places PROVE \E k \in 1 .. Len(after) : after[k] = more[m]
    <3>1. CASE m = size + 1
      BY <2>1, <2>4, <2>5, <3>1
    <3>2. CASE m # size + 1
      <4>1. m \in 1 .. size
        BY <2>1, <3>2
      <4> QED BY <2>1, <2>2, <2>4, <2>5, <4>1
    <3> QED BY <3>1, <3>2
  <2>6. All1(more)
    BY <2>5 DEF after
  <2> QED BY <2>1, <2>6 DEF T, more
<1>3. T = Seq(S)
  <2>1. T \in SUBSET Seq(S)
    OBVIOUS
  <2> HIDE DEF T
  <2> QED BY <1>1, <1>2, <2>1, SeqInd
<1> QED BY <1>3

-----------------------------------------------------------------------------
(* Sequences without some of their elements *)

LEMMA ContainsAppend ==
    ASSUME NEW S, NEW s \in Seq(S), NEW new \in S, NEW e
    PROVE  Contains(Append(s, new), e) <=> Contains(s, e) \/ e = new
<1> DEFINE more == Append(s, new)
<1>1. /\ Len(more) = Len(s) + 1 /\ more[Len(s) + 1] = new /\ Len(s) \in Nat
      /\ \A m \in 1 .. Len(s) : more[m] = s[m]
  OBVIOUS
<1> HIDE DEF more
<1>2. Contains(more, e) => Contains(s, e) \/ e = new
  <2> SUFFICES ASSUME NEW m \in 1 .. Len(more), more[m] = e PROVE Contains(s, e) \/ e = new
    BY DEF Contains
  <2>1. CASE m = Len(s) + 1
    BY <1>1, <2>1
  <2>2. CASE m # Len(s) + 1
    <3>1. m \in 1 .. Len(s)
      BY <1>1, <2>2
    <3> QED BY <1>1, <3>1 DEF Contains
  <2> QED BY <2>1, <2>2
<1>3. Contains(s, e) => Contains(more, e)
  <2> SUFFICES ASSUME NEW m \in 1 .. Len(s), s[m] = e PROVE Contains(more, e)
    BY DEF Contains
  <2>1. m \in 1 .. Len(more) /\ more[m] = e
    BY <1>1
  <2> QED BY <2>1 DEF Contains
<1>4. e = new => Contains(more, e)
  <2>1. Len(s) + 1 \in 1 .. Len(more)
    BY <1>1
  <2> QED BY <1>1, <2>1 DEF Contains
<1> QED BY <1>2, <1>3, <1>4 DEF more

LEMMA ContainsNone == ASSUME NEW e PROVE ~Contains(<<>>, e)
BY DEF Contains

LEMMA ContainsConcat ==
    ASSUME NEW S, NEW s \in Seq(S), NEW t \in Seq(S), NEW e
    PROVE  Contains(s \o t, e) <=> Contains(s, e) \/ Contains(t, e)
<1> DEFINE both == s \o t
<1>1. /\ Len(both) = Len(s) + Len(t) /\ Len(s) \in Nat /\ Len(t) \in Nat
      /\ \A n \in 1 .. Len(s) + Len(t) : both[n] = IF n <= Len(s) THEN s[n] ELSE t[n - Len(s)]
  BY ConcatProperties
<1> HIDE DEF both
<1>2. Contains(both, e) => Contains(s, e) \/ Contains(t, e)
  <2> SUFFICES ASSUME NEW m \in 1 .. Len(both), both[m] = e PROVE Contains(s, e) \/ Contains(t, e)
    BY DEF Contains
  <2>1. CASE m <= Len(s)
    BY <1>1, <2>1 DEF Contains
  <2>2. CASE ~(m <= Len(s))
    <3>1. m - Len(s) \in 1 .. Len(t) /\ t[m - Len(s)] = e
      BY <1>1, <2>2
    <3> QED BY <3>1 DEF Contains
  <2> QED BY <2>1, <2>2
<1>3. Contains(s, e) => Contains(both, e)
  <2> SUFFICES ASSUME NEW m \in 1 .. Len(s), s[m] = e PROVE Contains(both, e)
    BY DEF Contains
  <2>1. m \in 1 .. Len(both) /\ both[m] = e
    BY <1>1
  <2> QED BY <2>1 DEF Contains
<1>4. Contains(t, e) => Contains(both, e)
  <2> SUFFICES ASSUME NEW m \in 1 .. Len(t), t[m] = e PROVE Contains(both, e)
    BY DEF Contains
  <2>1. m + Len(s) \in 1 .. Len(both) /\ ~(m + Len(s) <= Len(s)) /\ (m + Len(s)) - Len(s) = m
    BY <1>1
  <2>2. both[m + Len(s)] = e
    BY <1>1, <2>1
  <2> QED BY <2>1, <2>2 DEF Contains
<1> QED BY <1>2, <1>3, <1>4 DEF both

LEMMA WithoutNone == ASSUME NEW others PROVE Without(<<>>, others) = <<>>
BY PickedEmpty DEF Without

LEMMA WithoutAppend ==
    ASSUME NEW S, NEW s \in Seq(S), NEW new \in S, NEW others
    PROVE  /\ Without(s, others) \in Seq(S)
           /\ Without(Append(s, new), others)
                = IF Contains(others, new) THEN Without(s, others) ELSE Append(Without(s, others), new)
<1> DEFINE more == Append(s, new)
           here == {n \in DOMAIN s : ~Contains(others, s[n])}
           there == {n \in DOMAIN more : ~Contains(others, more[n])}
<1>1. /\ more \in Seq(S) /\ DOMAIN more = 1 .. Len(s) + 1 /\ more[Len(s) + 1] = new /\ Len(s) \in Nat
      /\ DOMAIN s = 1 .. Len(s) /\ \A m \in 1 .. Len(s) : more[m] = s[m]
  OBVIOUS
<1> HIDE DEF more
<1>2. Len(s) + 1 \in there <=> ~Contains(others, new)
  BY <1>1
<1>3. \A n \in 1 .. Len(s) : n \in there <=> n \in here
  BY <1>1
<1>4. Without(s, others) = Picked(s, here) /\ Without(more, others) = Picked(more, there)
  BY DEF Without
<1> HIDE DEF here, there
<1>5. Picked(s, there) = Picked(s, here) /\ Picked(s, here) \in Seq(S)
  BY <1>3, PickedSame, PickedType
<1>6. Picked(more, there) = WithIf(Picked(s, there), new, Len(s) + 1 \in there)
  BY PickAppend DEF more
<1> QED BY <1>2, <1>4, <1>5, <1>6 DEF WithIf, more

LEMMA DistinctNone == Distinct(<<>>) = <<>>
BY PickedEmpty DEF Distinct

LEMMA DistinctAppend ==
    ASSUME NEW S, NEW s \in Seq(S), NEW new \in S
    PROVE  /\ Distinct(s) \in Seq(S)
           /\ Distinct(Append(s, new)) = IF Contains(s, new) THEN Distinct(s) ELSE Append(Distinct(s), new)
<1> DEFINE more == Append(s, new)
           here == {n \in DOMAIN s : \A m \in 1 .. n - 1 : s[m] # s[n]}
           there == {n \in DOMAIN more : \A m \in 1 .. n - 1 : more[m] # more[n]}
<1>1. /\ more \in Seq(S) /\ DOMAIN more = 1 .. Len(s) + 1 /\ more[Len(s) + 1] = new /\ Len(s) \in Nat
      /\ DOMAIN s = 1 .. Len(s) /\ \A m \in 1 .. Len(s) : more[m] = s[m]
  OBVIOUS
<1> HIDE DEF more
<1>2. Len(s) + 1 \in there <=> ~Contains(s, new)
  <2>1. Len(s) + 1 \in DOMAIN more /\ (Len(s) + 1) - 1 = Len(s)
    BY <1>1
  <2>2. Len(s) + 1 \in there <=> \A m \in 1 .. Len(s) : more[m] # new
    BY <1>1, <2>1
  <2> HIDE DEF there
  <2> QED BY <1>1, <2>2 DEF Contains
<1>3. \A n \in 1 .. Len(s) : n \in there <=> n \in here
  <2> SUFFICES ASSUME NEW n \in 1 .. Len(s) PROVE n \in there <=> n \in here
    OBVIOUS
  <2>1. n \in DOMAIN s /\ n \in DOMAIN more /\ more[n] = s[n]
    BY <1>1
  <2>2. \A m \in 1 .. n - 1 : more[m] = s[m]
    BY <1>1
  <2> QED BY <2>1, <2>2
<1>4. Distinct(s) = Picked(s, here) /\ Distinct(more) = Picked(more, there)
  BY DEF Distinct
<1> HIDE DEF here, there
<1>5. Picked(s, there) = Picked(s, here) /\ Picked(s, here) \in Seq(S)
  BY <1>3, PickedSame, PickedType
<1>6. Picked(more, there) = WithIf(Picked(s, there), new, Len(s) + 1 \in there)
  BY PickAppend DEF more
<1> QED BY <1>2, <1>4, <1>5, <1>6 DEF WithIf, more

\* The entries of a PATH are those of its parts that are not empty.
NonEmpty(s) == Picked(s, {n \in DOMAIN s : s[n] # <<>>})

LEMMA NonEmptyNone == NonEmpty(<<>>) = <<>>
BY PickedEmpty DEF NonEmpty

LEMMA NonEmptyAppend ==
    ASSUME NEW S, NEW s \in Seq(S), NEW new \in S
    PROVE  /\ NonEmpty(s) \in Seq(S)
           /\ NonEmpty(Append(s, new)) = IF new = <<>> THEN NonEmpty(s) ELSE Append(NonEmpty(s), new)
<1> DEFINE more == Append(s, new)
           here == {n \in DOMAIN s : s[n] # <<>>}
           there == {n \in DOMAIN more : more[n] # <<>>}
<1>1. /\ more \in Seq(S) /\ DOMAIN more = 1 .. Len(s) + 1 /\ more[Len(s) + 1] = new /\ Len(s) \in Nat
      /\ DOMAIN s = 1 .. Len(s) /\ \A m \in 1 .. Len(s) : more[m] = s[m]
  OBVIOUS
<1> HIDE DEF more
<1>2. Len(s) + 1 \in there <=> new # <<>>
  BY <1>1
<1>3. \A n \in 1 .. Len(s) : n \in there <=> n \in here
  BY <1>1
<1>4. NonEmpty(s) = Picked(s, here) /\ NonEmpty(more) = Picked(more, there)
  BY DEF NonEmpty
<1> HIDE DEF here, there
<1>5. Picked(s, there) = Picked(s, here) /\ Picked(s, here) \in Seq(S)
  BY <1>3, PickedSame, PickedType
<1>6. Picked(more, there) = WithIf(Picked(s, there), new, Len(s) + 1 \in there)
  BY PickAppend DEF more
<1> QED BY <1>2, <1>4, <1>5, <1>6 DEF WithIf, more

LEMMA DistinctHolds ==
    ASSUME NEW S, NEW seq \in Seq(S)
    PROVE  \A e : Contains(Distinct(seq), e) <=> Contains(seq, e)
<1> DEFINE Holds(s) == \A e : Contains(Distinct(s), e) <=> Contains(s, e)
           T == {s \in Seq(S) : Holds(s)}
<1>1. <<>> \in T
  <2>1. Holds(<<>>)
    BY DistinctNone
  <2> QED BY <2>1
<1>2. ASSUME NEW s \in T, NEW new \in S PROVE Append(s, new) \in T
  <2> DEFINE more == Append(s, new)
  <2>1. s \in Seq(S) /\ more \in Seq(S)
    OBVIOUS
  <2>2. Holds(s)
    OBVIOUS
  <2> DEFINE before == Distinct(s)
             after == Distinct(more)
  <2>3. before \in Seq(S) /\ after = IF Contains(s, new) THEN before ELSE Append(before, new)
    BY <2>1, DistinctAppend
  <2>4. \A e : Contains(more, e) <=> Contains(s, e) \/ e = new
    BY <2>1, ContainsAppend
  <2> HIDE DEF before, after, more, T
  <2>5. \A e : Contains(Append(before, new), e) <=> Contains(before, e) \/ e = new
    BY <2>3, ContainsAppend
  <2>6. \A e : Contains(before, e) <=> Contains(s, e)
    BY <2>2 DEF before
  <2>7. \A e : Contains(after, e) <=> Contains(more, e)
    <3>1. CASE Contains(s, new)
      BY <2>3, <2>4, <2>6, <3>1
    <3>2. CASE ~Contains(s, new)
      BY <2>3, <2>4, <2>5, <2>6, <3>2
    <3> QED BY <3>1, <3>2
  <2>9. Append(s, new) \in Seq(S) /\ Holds(Append(s, new))
    BY <2>1, <2>7 DEF after, more
  <2> USE DEF T
  <2> QED BY <2>1, <2>9
<1>3. T = Seq(S)
  <2>1. T \in SUBSET Seq(S)
    OBVIOUS
  <2> HIDE DEF T
  <2> QED BY <1>1, <1>2, <2>1, SeqInd
<1>4. Holds(seq)
  BY <1>3
<1> QED BY <1>4

LEMMA WithoutHolds ==
    ASSUME NEW S, NEW others, NEW seq \in Seq(S)
    PROVE  \A e : Contains(Without(seq, others), e) <=> Contains(seq, e) /\ ~Contains(others, e)
<1> DEFINE Holds(s) == \A e : Contains(Without(s, others), e) <=> Contains(s, e) /\ ~Contains(others, e)
           T == {s \in Seq(S) : Holds(s)}
<1>1. <<>> \in T
  <2>1. Holds(<<>>)
    BY WithoutNone, ContainsNone
  <2> QED BY <2>1
<1>2. ASSUME NEW s \in T, NEW new \in S PROVE Append(s, new) \in T
  <2> DEFINE more == Append(s, new)
  <2>1. s \in Seq(S) /\ more \in Seq(S)
    OBVIOUS
  <2>2. Holds(s)
    OBVIOUS
  <2> DEFINE before == Without(s, others)
             after == Without(more, others)
  <2> HIDE DEF T
  <2>3. before \in Seq(S) /\ after = IF Contains(others, new) THEN before ELSE Append(before, new)
    <3>1. s \in Seq(S)
      BY <2>1
    <3> QED BY <3>1, WithoutAppend, SMTT(30)
  <2>4. \A e : Contains(more, e) <=> Contains(s, e) \/ e = new
    BY <2>1, ContainsAppend
  <2> HIDE DEF before, after, more
  <2>5. \A e : Contains(Append(before, new), e) <=> Contains(before, e) \/ e = new
    BY <2>3, ContainsAppend
  <2>6. \A e : Contains(before, e) <=> Contains(s, e) /\ ~Contains(others, e)
    BY <2>2 DEF before
  <2>7. \A e : Contains(after, e) <=> Contains(more, e) /\ ~Contains(others, e)
    <3>1. CASE Contains(others, new)
      BY <2>3, <2>4, <2>6, <3>1
    <3>2. CASE ~Contains(others, new)
      BY <2>3, <2>4, <2>5, <2>6, <3>2
    <3> QED BY <3>1, <3>2
  <2>9. Append(s, new) \in Seq(S) /\ Holds(Append(s, new))
    BY <2>1, <2>7 DEF after, more
  <2> USE DEF T
  <2> QED BY <2>1, <2>9
<1>3. T = Seq(S)
  <2>1. T \in SUBSET Seq(S)
    OBVIOUS
  <2> HIDE DEF T
  <2> QED BY <1>1, <1>2, <2>1, SeqInd
<1>4. Holds(seq)
  BY <1>3
<1> QED BY <1>4

LEMMA WithoutConcat ==
    ASSUME NEW S, NEW others, NEW first \in Seq(S), NEW seq \in Seq(S)
    PROVE  Without(first \o seq, others) = Without(first, others) \o Without(seq, others)
<1> DEFINE Holds(s) == Without(first \o s, others) = Without(first, others) \o Without(s, others)
           T == {s \in Seq(S) : Holds(s)}
<1>1. <<>> \in T
  <2>1. Holds(<<>>)
    <3>1. first \o <<>> = first /\ Without(<<>>, others) = <<>>
      BY WithoutNone
    <3>2. Without(first, others) \in Seq(S)
      BY PickedType DEF Without
    <3>3. Without(first, others) \o <<>> = Without(first, others)
      BY <3>2
    <3> QED BY <3>1, <3>3
  <2> QED BY <2>1
<1>2. ASSUME NEW s \in T, NEW new \in S PROVE Append(s, new) \in T
  <2> DEFINE more == Append(s, new)
  <2>1. s \in Seq(S) /\ more \in Seq(S)
    OBVIOUS
  <2>2. Holds(s)
    OBVIOUS
  <2> DEFINE both == first \o s
             one == Without(first, others)
             two == Without(s, others)
  <2>3. first \o more = Append(both, new) /\ both \in Seq(S)
    BY <2>1
  <2>4. Without(more, others) = (IF Contains(others, new) THEN two ELSE Append(two, new)) /\ two \in Seq(S)
    BY <2>1, WithoutAppend
  <2>5. one \in Seq(S)
    BY PickedType DEF Without
  <2>6. Without(both, others) = one \o two
    BY <2>2
  <2> HIDE DEF both, one, two, T, more
  <2>7. Without(Append(both, new), others)
          = IF Contains(others, new) THEN Without(both, others) ELSE Append(Without(both, others), new)
    BY <2>3, WithoutAppend
  <2>8. one \o Append(two, new) = Append(one \o two, new)
    BY <2>4, <2>5, ConcatAppended
  <2>9. Append(s, new) \in Seq(S) /\ Holds(Append(s, new))
    <3>1. CASE Contains(others, new)
      BY <2>1, <2>3, <2>4, <2>6, <2>7, <3>1 DEF more, one
    <3>2. CASE ~Contains(others, new)
      BY <2>1, <2>3, <2>4, <2>6, <2>7, <2>8, <3>2 DEF more, one
    <3> QED BY <3>1, <3>2
  <2> USE DEF T
  <2> QED BY <2>1, <2>9
<1>3. T = Seq(S)
  <2>1. T \in SUBSET Seq(S)
    OBVIOUS
  <2> HIDE DEF T
  <2> QED BY <1>1, <1>2, <2>1, SeqInd
<1>4. Holds(seq)
  BY <1>3
<1> QED BY <1>4

LEMMA WithoutAll ==
    ASSUME NEW S, NEW others, NEW seq \in Seq(S)
    PROVE  (\A e : Contains(seq, e) => Contains(others, e)) => Without(seq, others) = <<>>
<1> DEFINE Holds(s) == (\A e : Contains(s, e) => Contains(others, e)) => Without(s, others) = <<>>
           T == {s \in Seq(S) : Holds(s)}
<1>1. <<>> \in T
  <2>1. Holds(<<>>)
    BY WithoutNone
  <2> QED BY <2>1
<1>2. ASSUME NEW s \in T, NEW new \in S PROVE Append(s, new) \in T
  <2> DEFINE more == Append(s, new)
  <2>1. s \in Seq(S) /\ more \in Seq(S)
    OBVIOUS
  <2>2. Holds(s)
    OBVIOUS
  <2>3. \A e : Contains(more, e) <=> Contains(s, e) \/ e = new
    BY <2>1, ContainsAppend
  <2>4. Without(more, others) = IF Contains(others, new) THEN Without(s, others) ELSE Append(Without(s, others), new)
    BY <2>1, WithoutAppend
  <2>5. ASSUME \A e : Contains(more, e) => Contains(others, e) PROVE Without(more, others) = <<>>
    <3> HIDE DEF more
    <3>1. Contains(others, new) /\ \A e : Contains(s, e) => Contains(others, e)
      BY <2>3, <2>5
    <3> QED BY <2>2, <2>4, <3>1
  <2>9. Append(s, new) \in Seq(S) /\ Holds(Append(s, new))
    BY <2>1, <2>5
  <2> QED BY <2>1, <2>9
<1>3. T = Seq(S)
  <2>1. T \in SUBSET Seq(S)
    OBVIOUS
  <2> HIDE DEF T
  <2> QED BY <1>1, <1>2, <2>1, SeqInd
<1>4. Holds(seq)
  BY <1>3
<1> QED BY <1>4

LEMMA WithoutKeeps ==
    ASSUME NEW S, NEW others, NEW seq \in Seq(S)
    PROVE  (\A e : Contains(seq, e) => ~Contains(others, e)) => Without(seq, others) = seq
<1> DEFINE Holds(s) == (\A e : Contains(s, e) => ~Contains(others, e)) => Without(s, others) = s
           T == {s \in Seq(S) : Holds(s)}
<1>1. <<>> \in T
  <2>1. Holds(<<>>)
    BY WithoutNone
  <2> QED BY <2>1
<1>2. ASSUME NEW s \in T, NEW new \in S PROVE Append(s, new) \in T
  <2> DEFINE more == Append(s, new)
  <2>1. s \in Seq(S) /\ more \in Seq(S)
    OBVIOUS
  <2>2. Holds(s)
    OBVIOUS
  <2>3. \A e : Contains(more, e) <=> Contains(s, e) \/ e = new
    BY <2>1, ContainsAppend
  <2>4. Without(more, others) = IF Contains(others, new) THEN Without(s, others) ELSE Append(Without(s, others), new)
    BY <2>1, WithoutAppend
  <2>5. ASSUME \A e : Contains(more, e) => ~Contains(others, e) PROVE Without(more, others) = more
    <3>1. ~Contains(others, new) /\ \A e : Contains(s, e) => ~Contains(others, e)
      <4> HIDE DEF more
      <4> QED BY <2>3, <2>5
    <3> QED BY <2>2, <2>4, <3>1
  <2>9. Append(s, new) \in Seq(S) /\ Holds(Append(s, new))
    BY <2>1, <2>5
  <2> QED BY <2>1, <2>9
<1>3. T = Seq(S)
  <2>1. T \in SUBSET Seq(S)
    OBVIOUS
  <2> HIDE DEF T
  <2> QED BY <1>1, <1>2, <2>1, SeqInd
<1>4. Holds(seq)
  BY <1>3
<1> QED BY <1>4

\* What is left out can be left out before or after.
LEMMA WithoutDistinct ==
    ASSUME NEW S, NEW others, NEW seq \in Seq(S)
    PROVE  Without(Distinct(seq), others) = Distinct(Without(seq, others))
<1> DEFINE Holds(s) == Without(Distinct(s), others) = Distinct(Without(s, others))
           T == {s \in Seq(S) : Holds(s)}
<1>1. <<>> \in T
  <2>1. Holds(<<>>)
    BY WithoutNone, DistinctNone
  <2> QED BY <2>1
<1>2. ASSUME NEW s \in T, NEW new \in S PROVE Append(s, new) \in T
  <2> DEFINE more == Append(s, new)
  <2>1. s \in Seq(S) /\ more \in Seq(S)
    OBVIOUS
  <2>2. Holds(s)
    OBVIOUS
  <2> DEFINE distinct == Distinct(s)
             rest == Without(s, others)
  <2>3. Distinct(more) = (IF Contains(s, new) THEN distinct ELSE Append(distinct, new)) /\ distinct \in Seq(S)
    BY <2>1, DistinctAppend
  <2>4. Without(more, others) = (IF Contains(others, new) THEN rest ELSE Append(rest, new)) /\ rest \in Seq(S)
    BY <2>1, WithoutAppend
  <2>5. Contains(rest, new) <=> Contains(s, new) /\ ~Contains(others, new)
    BY <2>1, WithoutHolds
  <2>6. Without(distinct, others) = Distinct(rest)
    BY <2>2
  <2> HIDE DEF distinct, rest, T, more
  <2>7. Without(Append(distinct, new), others)
          = IF Contains(others, new) THEN Without(distinct, others) ELSE Append(Without(distinct, others), new)
    BY <2>3, WithoutAppend
  <2>8. Distinct(Append(rest, new)) = IF Contains(rest, new) THEN Distinct(rest) ELSE Append(Distinct(rest), new)
    BY <2>4, DistinctAppend
  <2>9. Append(s, new) \in Seq(S) /\ Holds(Append(s, new))
    <3>1. CASE Contains(others, new)
      BY <2>1, <2>3, <2>4, <2>5, <2>6, <2>7, <3>1 DEF more
    <3>2. CASE ~Contains(others, new) /\ Contains(s, new)
      BY <2>1, <2>3, <2>4, <2>5, <2>6, <2>8, <3>2 DEF more
    <3>3. CASE ~Contains(others, new) /\ ~Contains(s, new)
      BY <2>1, <2>3, <2>4, <2>5, <2>6, <2>7, <2>8, <3>3 DEF more
    <3> QED BY <3>1, <3>2, <3>3
  <2> USE DEF T
  <2> QED BY <2>1, <2>9
<1>3. T = Seq(S)
  <2>1. T \in SUBSET Seq(S)
    OBVIOUS
  <2> HIDE DEF T
  <2> QED BY <1>1, <1>2, <2>1, SeqInd
<1>4. Holds(seq)
  BY <1>3
<1> QED BY <1>4

LEMMA DistinctTail ==
    ASSUME NEW S, NEW one \in Seq(S), NEW two \in Seq(S), Distinct(one) = Distinct(two), NEW seq \in Seq(S)
    PROVE  Distinct(one \o seq) = Distinct(two \o seq)
<1> DEFINE Holds(s) == Distinct(one \o s) = Distinct(two \o s)
           T == {s \in Seq(S) : Holds(s)}
<1>1. <<>> \in T
  <2>1. Holds(<<>>)
    <3>1. one \o <<>> = one /\ two \o <<>> = two
      OBVIOUS
    <3> QED BY <3>1
  <2> QED BY <2>1
<1>2. ASSUME NEW s \in T, NEW new \in S PROVE Append(s, new) \in T
  <2> DEFINE more == Append(s, new)
  <2>1. s \in Seq(S) /\ more \in Seq(S)
    OBVIOUS
  <2>2. Holds(s)
    OBVIOUS
  <2> DEFINE left == one \o s
             right == two \o s
  <2>3. one \o more = Append(left, new) /\ two \o more = Append(right, new) /\ left \in Seq(S) /\ right \in Seq(S)
    BY <2>1, SMTT(30)
  <2>4. Distinct(left) = Distinct(right)
    BY <2>2
  <2> HIDE DEF left, right, more, T
  <2>5. Contains(left, new) <=> Contains(right, new)
    BY <2>3, <2>4, DistinctHolds
  <2>6. /\ Distinct(Append(left, new)) = IF Contains(left, new) THEN Distinct(left) ELSE Append(Distinct(left), new)
        /\ Distinct(Append(right, new)) = IF Contains(right, new) THEN Distinct(right) ELSE Append(Distinct(right), new)
    BY <2>3, DistinctAppend
  <2>9. Append(s, new) \in Seq(S) /\ Holds(Append(s, new))
    BY <2>1, <2>3, <2>4, <2>5, <2>6 DEF more
  <2> USE DEF T
  <2> QED BY <2>1, <2>9
<1>3. T = Seq(S)
  <2>1. T \in SUBSET Seq(S)
    OBVIOUS
  <2> HIDE DEF T
  <2> QED BY <1>1, <1>2, <2>1, SeqInd
<1>4. Holds(seq)
  BY <1>3
<1> QED BY <1>4

LEMMA DistinctMiddle ==
    ASSUME NEW S, NEW first \in Seq(S), NEW seq \in Seq(S)
    PROVE  Distinct(first \o Distinct(seq)) = Distinct(first \o seq)
<1> DEFINE Holds(s) == Distinct(first \o Distinct(s)) = Distinct(first \o s)
           T == {s \in Seq(S) : Holds(s)}
<1>1. <<>> \in T
  <2>1. Holds(<<>>)
    BY DistinctNone
  <2> QED BY <2>1
<1>2. ASSUME NEW s \in T, NEW new \in S PROVE Append(s, new) \in T
  <2> DEFINE more == Append(s, new)
  <2>1. s \in Seq(S) /\ more \in Seq(S)
    OBVIOUS
  <2>2. Holds(s)
    OBVIOUS
  <2> DEFINE distinct == Distinct(s)
             left == first \o distinct
             right == first \o s
  <2>3. Distinct(more) = (IF Contains(s, new) THEN distinct ELSE Append(distinct, new)) /\ distinct \in Seq(S)
    BY <2>1, DistinctAppend
  <2>4. first \o more = Append(right, new) /\ right \in Seq(S)
    BY <2>1
  <2>5. Distinct(left) = Distinct(right)
    BY <2>2
  <2>6. Contains(right, new) <=> Contains(first, new) \/ Contains(s, new)
    BY <2>1, ContainsConcat
  <2> HIDE DEF distinct, right, T, more
  <2>7. left \in Seq(S) /\ first \o Append(distinct, new) = Append(left, new)
    BY <2>3, ConcatAppended
  <2> HIDE DEF left
  <2>8. /\ Distinct(Append(left, new)) = IF Contains(left, new) THEN Distinct(left) ELSE Append(Distinct(left), new)
        /\ Distinct(Append(right, new)) = IF Contains(right, new) THEN Distinct(right) ELSE Append(Distinct(right), new)
    BY <2>4, <2>7, DistinctAppend
  <2>10. Contains(left, new) <=> Contains(right, new)
    BY <2>4, <2>5, <2>7, DistinctHolds
  <2>9. Append(s, new) \in Seq(S) /\ Holds(Append(s, new))
    <3>1. CASE Contains(s, new)
      BY <2>1, <2>3, <2>4, <2>5, <2>6, <2>8, <2>10, <3>1 DEF more, left
    <3>2. CASE ~Contains(s, new)
      BY <2>1, <2>3, <2>4, <2>5, <2>7, <2>8, <2>10, <3>2 DEF more
    <3> QED BY <3>1, <3>2
  <2> USE DEF T
  <2> QED BY <2>1, <2>9
<1>3. T = Seq(S)
  <2>1. T \in SUBSET Seq(S)
    OBVIOUS
  <2> HIDE DEF T
  <2> QED BY <1>1, <1>2, <2>1, SeqInd
<1>4. Holds(seq)
  BY <1>3
<1> QED BY <1>4


-----------------------------------------------------------------------------
(* PATH as a list of directories *)

\* What stands between two separators.
Pieces == {e \in Seq(Parts) : ~Contains(e, Separator)}

Directories == {e \in Pieces : e # <<>>}

LEMMA PieceAppend ==
    ASSUME NEW e \in Seq(Parts), NEW part \in Parts, ~Contains(Append(e, part), Separator)
    PROVE  e \in Pieces /\ part # Separator
BY ContainsAppend DEF Pieces

LEMMA WithPartLast ==
    ASSUME NEW done \in Seq(Seq(Parts)), NEW last \in Seq(Parts), NEW part \in Parts, part # Separator
    PROVE  WithPart(Append(done, last), part) = Append(done, Append(last, part))
<1> DEFINE before == Append(done, last)
           size == Len(done) + 1
           new == Append(last, part)
           left == [before EXCEPT ![size] = new]
           right == Append(done, new)
<1>1. /\ before \in Seq(Seq(Parts)) /\ Len(before) = size /\ before[size] = last
      /\ \A n \in 1 .. Len(done) : before[n] = done[n]
      /\ size \in Nat /\ new \in Seq(Parts)
  OBVIOUS
<1>2. /\ right \in Seq(Seq(Parts)) /\ Len(right) = size /\ right[size] = new
      /\ \A n \in 1 .. Len(done) : right[n] = done[n]
  <2> HIDE DEF new
  <2> QED BY <1>1
<1>3. WithPart(before, part) = left
  <2> HIDE DEF before
  <2> QED BY <1>1 DEF WithPart
<1>4. size = Len(done) + 1
  OBVIOUS
<1> HIDE DEF before, new, size
<1>5. /\ left \in Seq(Seq(Parts)) /\ Len(left) = size /\ left[size] = new
      /\ \A n \in 1 .. size : n # size => left[n] = before[n]
  <2>1. ASSUME NEW s \in Seq(Seq(Parts)), NEW e \in Seq(Parts), NEW n \in 1 .. Len(s)
        PROVE  /\ [s EXCEPT ![n] = e] \in Seq(Seq(Parts)) /\ Len([s EXCEPT ![n] = e]) = Len(s)
               /\ [s EXCEPT ![n] = e][n] = e
               /\ \A m \in 1 .. Len(s) : m # n => [s EXCEPT ![n] = e][m] = s[m]
    <3> DEFINE t == [s EXCEPT ![n] = e]
    <3>1. t = [m \in DOMAIN s |-> IF m = n THEN e ELSE s[m]]
      BY Zenon
    <3>2. DOMAIN s = 1 .. Len(s) /\ Len(s) \in Nat
      OBVIOUS
    <3> HIDE DEF t
    <3>3. \A m \in 1 .. Len(s) : t[m] = IF m = n THEN e ELSE s[m]
      BY <3>1, <3>2
    <3>4. t \in [1 .. Len(s) -> Seq(Parts)]
      BY <3>1, <3>2
    <3>5. t \in Seq(Seq(Parts)) /\ Len(t) = Len(s)
      <4>1. ASSUME NEW S, NEW k \in Nat, NEW f \in [1 .. k -> S] PROVE f \in Seq(S) /\ Len(f) = k
        OBVIOUS
      <4> QED BY <3>2, <3>4, <4>1, Zenon
    <3> QED BY <3>3, <3>5 DEF t
  <2>2. size \in 1 .. Len(before)
    BY <1>1, <1>4
  <2> QED BY <1>1, <2>1, <2>2
<1> HIDE DEF left, right
<1>6. ASSUME NEW n \in 1 .. size PROVE left[n] = right[n]
  <2>1. CASE n = size
    BY <1>2, <1>5, <2>1
  <2>2. CASE n # size
    <3>1. n \in 1 .. Len(done)
      BY <1>1, <1>4, <2>2
    <3> QED BY <1>1, <1>2, <1>5, <2>2, <3>1
  <2> QED BY <2>1, <2>2
<1>7. left = right
  BY <1>2, <1>5, <1>6, SeqEqual
<1> QED BY <1>3, <1>7 DEF right, before, new

LEMMA SplitEmpty == Split(<<>>) = <<<<>>>>
<1>1. Len(<<>>) = 0 /\ 0 \in Nat
  OBVIOUS
<1> QED BY <1>1, SplitSteps

\* A text is split into pieces, one at least.
LEMMA SplitHolds ==
    ASSUME NEW value \in Seq(Parts)
    PROVE  Split(value) \in Seq(Pieces) /\ Split(value) # <<>>
<1> DEFINE T == {v \in Seq(Parts) : Split(v) \in Seq(Pieces) /\ Split(v) # <<>>}
<1>0. <<>> \in Pieces
  BY ContainsNone DEF Pieces
<1>1. <<>> \in T
  <2>1. \A e \in Pieces : <<e>> \in Seq(Pieces) /\ <<e>> # <<>>
    OBVIOUS
  <2>2. <<>> \in Seq(Parts) /\ <<<<>>>> \in Seq(Pieces) /\ <<<<>>>> # <<>>
    BY <1>0, <2>1
  <2>3. Split(<<>>) \in Seq(Pieces) /\ Split(<<>>) # <<>>
    BY <2>2, SplitEmpty, Zenon
  <2> QED BY <2>2, <2>3
<1>2. ASSUME NEW v \in T, NEW part \in Parts PROVE Append(v, part) \in T
  <2> DEFINE split == Split(v)
             after == Split(Append(v, part))
  <2>1. v \in Seq(Parts) /\ split \in Seq(Pieces) /\ split # <<>> /\ Append(v, part) \in Seq(Parts)
    OBVIOUS
  <2> HIDE DEF T
  <2>2. after = WithPart(split, part)
    BY <2>1, SplitAppend
  <2> HIDE DEF split, after
  <2>3. after \in Seq(Pieces) /\ after # <<>>
    <3>1. CASE part = Separator
      <4>1. after = Append(split, <<>>)
        BY <2>2, <3>1 DEF WithPart
      <4> QED BY <1>0, <2>1, <4>1
    <3>2. CASE part # Separator
      <4>1. PICK done \in Seq(Pieces), last \in Pieces : split = Append(done, last)
        BY <2>1, SequenceEmptyOrAppend
      <4>2. done \in Seq(Seq(Parts)) /\ last \in Seq(Parts)
        BY DEF Pieces
      <4>3. after = Append(done, Append(last, part))
        BY <2>2, <3>2, <4>1, <4>2, WithPartLast
      <4>4. Append(last, part) \in Pieces
        BY <3>2, <4>2, ContainsAppend DEF Pieces
      <4>5. Append(done, Append(last, part)) \in Seq(Pieces) /\ Append(done, Append(last, part)) # <<>>
        BY <4>4
      <4> QED BY <4>3, <4>5, Zenon
    <3> QED BY <3>1, <3>2
  <2> QED BY <2>1, <2>3 DEF T, after
<1>3. T = Seq(Parts)
  <2>1. T \in SUBSET Seq(Parts)
    OBVIOUS
  <2> HIDE DEF T
  <2> QED BY <1>1, <1>2, <2>1, SeqInd
<1> QED BY <1>3

\* A piece behind a separator is split off as it is.
LEMMA SplitTail ==
    ASSUME NEW value \in Seq(Parts), NEW piece \in Pieces, Separator \in Parts
    PROVE  /\ Split((value \o <<Separator>>) \o piece) = Append(Split(value), piece)
           /\ Split(piece) = <<piece>>
<1> DEFINE start == value \o <<Separator>>
           split == Split(value)
           Holds(e) == Split(start \o e) = Append(split, e) /\ Split(e) = <<e>>
           T == {e \in Seq(Parts) : e \in Pieces => Holds(e)}
<1>0. /\ start \in Seq(Parts) /\ start = Append(value, Separator) /\ split \in Seq(Seq(Parts))
  <2>1. split \in Seq(Pieces) /\ Pieces \in SUBSET Seq(Parts)
    BY SplitHolds DEF Pieces
  <2> QED BY <2>1
<1>1. <<>> \in T
  <2>1. Split(start) = Append(split, <<>>)
    BY <1>0, SplitAppend DEF WithPart
  <2>2. start \o <<>> = start
    BY <1>0
  <2> QED BY <2>1, <2>2, SplitEmpty
<1>2. ASSUME NEW e \in T, NEW part \in Parts PROVE Append(e, part) \in T
  <2> DEFINE more == Append(e, part)
  <2>1. e \in Seq(Parts) /\ more \in Seq(Parts) /\ (e \in Pieces => Holds(e))
    OBVIOUS
  <2> HIDE DEF T, split, start
  <2> SUFFICES ASSUME more \in Pieces PROVE Holds(more)
    BY <2>1 DEF T
  <2>2. e \in Pieces /\ part # Separator
    BY <2>1, PieceAppend DEF Pieces
  <2>3. Split(start \o e) = Append(split, e) /\ Split(e) = <<e>>
    BY <2>1, <2>2
  <2>4. start \o more = Append(start \o e, part) /\ start \o e \in Seq(Parts)
    BY <1>0, <2>1
  <2>5. Split(start \o more) = Append(split, more)
    <3>1. Split(Append(start \o e, part)) = WithPart(Split(start \o e), part)
      BY <2>4, SplitAppend
    <3>2. WithPart(Append(split, e), part) = Append(split, more)
      BY <1>0, <2>1, <2>2, WithPartLast
    <3> QED BY <2>3, <2>4, <3>1, <3>2
  <2>6. Split(more) = <<more>>
    <3>1. Split(more) = WithPart(Split(e), part)
      BY <2>1, SplitAppend
    <3>2. <<>> \in Seq(Seq(Parts)) /\ Append(<<>>, e) = <<e>> /\ Append(<<>>, more) = <<more>>
      OBVIOUS
    <3>3. WithPart(Append(<<>>, e), part) = Append(<<>>, more)
      BY <2>1, <2>2, <3>2, WithPartLast
    <3> QED BY <2>3, <3>1, <3>2, <3>3
  <2> QED BY <2>5, <2>6
<1>3. T = Seq(Parts)
  <2>1. T \in SUBSET Seq(Parts)
    OBVIOUS
  <2> HIDE DEF T
  <2> QED BY <1>1, <1>2, <2>1, SeqInd
<1>4. piece \in T
  BY <1>3 DEF Pieces
<1> QED BY <1>4

LEMMA JoinedAppend ==
    ASSUME NEW entries \in Seq(Seq(Parts)), NEW new \in Seq(Parts), Separator \in Parts
    PROVE  /\ Joined(entries) \in Seq(Parts)
           /\ Joined(Append(entries, new))
                = IF entries = <<>> THEN new ELSE (Joined(entries) \o <<Separator>>) \o new
<1> DEFINE more == Append(entries, new)
           size == Len(entries)
           here == [n \in DOMAIN entries |-> IF n = 1 THEN entries[n] ELSE <<Separator>> \o entries[n]]
           there == [n \in DOMAIN more |-> IF n = 1 THEN more[n] ELSE <<Separator>> \o more[n]]
           last == IF size = 0 THEN new ELSE <<Separator>> \o new
<1>1. /\ more \in Seq(Seq(Parts)) /\ Len(more) = size + 1 /\ more[size + 1] = new /\ size \in Nat
      /\ \A m \in 1 .. size : more[m] = entries[m]
      /\ DOMAIN more = 1 .. size + 1 /\ DOMAIN entries = 1 .. size
  OBVIOUS
<1>2. ASSUME NEW e \in Seq(Parts) PROVE <<Separator>> \o e \in Seq(Parts)
  OBVIOUS
<1>3. /\ here \in Seq(Seq(Parts)) /\ Len(here) = size
      /\ \A n \in 1 .. size : here[n] = IF n = 1 THEN entries[n] ELSE <<Separator>> \o entries[n]
  <2>1. \A n \in 1 .. size : (IF n = 1 THEN entries[n] ELSE <<Separator>> \o entries[n]) \in Seq(Parts)
    BY <1>2
  <2> QED BY <1>1, <2>1
<1>4. last \in Seq(Parts)
  BY <1>2
<1>5. (entries = <<>> <=> size = 0)
  OBVIOUS
<1> HIDE DEF more, size
<1>6. there = Append(here, last)
  <2> DEFINE right == Append(here, last)
  <2>1. /\ right \in Seq(Seq(Parts)) /\ Len(right) = size + 1 /\ right[size + 1] = last
        /\ \A n \in 1 .. size : right[n] = here[n]
    <3> HIDE DEF here, last
    <3> QED BY <1>1, <1>3, <1>4
  <2>2. DOMAIN there = 1 .. size + 1
    BY <1>1
  <2>3. ASSUME NEW n \in 1 .. size + 1 PROVE there[n] = right[n]
    <3>1. there[n] = IF n = 1 THEN more[n] ELSE <<Separator>> \o more[n]
      BY <1>1
    <3> HIDE DEF there, right, here
    <3>2. CASE n = size + 1
      <4>1. n = 1 <=> size = 0
        BY <1>1, <3>2
      <4> QED BY <1>1, <2>1, <3>1, <3>2, <4>1
    <3>3. CASE n # size + 1
      <4>1. n \in 1 .. size
        BY <1>1, <3>3
      <4> QED BY <1>1, <1>3, <2>1, <3>1, <4>1
    <3> QED BY <3>2, <3>3
  <2>4. there = [n \in 1 .. size + 1 |-> there[n]] /\ right = [n \in 1 .. size + 1 |-> right[n]]
    <3>1. DOMAIN right = 1 .. size + 1
      BY <2>1
    <3>2. right = [n \in DOMAIN right |-> right[n]]
      <4> HIDE DEF right
      <4> QED BY <2>1
    <3> QED BY <2>2, <3>1, <3>2
  <2> HIDE DEF there, right
  <2>5. there = right
    BY <2>3, <2>4
  <2> QED BY <2>5 DEF right
<1>7. Joined(entries) = FlattenSeq(here) /\ Joined(more) = FlattenSeq(there)
  BY DEF Joined
<1> HIDE DEF here, there
<1>8. FlattenSeq(here) \in Seq(Parts) /\ FlattenSeq(there) = FlattenSeq(here) \o last
  BY <1>3, <1>4, <1>6, FlattenType, FlattenAppend
<1>9. CASE size = 0
  <2>1. Joined(entries) = <<>>
    <3>1. here = <<>>
      BY <1>3, <1>9
    <3> QED BY <1>7, <3>1, FlattenEmpty
  <2>2. last = new /\ <<>> \o new = new
    BY <1>9
  <2> QED BY <1>5, <1>7, <1>8, <1>9, <2>1, <2>2 DEF more
<1>10. CASE size # 0
  <2> DEFINE joined == FlattenSeq(here)
  <2>1. last = <<Separator>> \o new
    BY <1>10
  <2> HIDE DEF joined
  <2>2. joined \o (<<Separator>> \o new) = (joined \o <<Separator>>) \o new
    <3>1. joined \in Seq(Parts) /\ <<Separator>> \in Seq(Parts)
      BY <1>8 DEF joined
    <3> QED BY <3>1, ConcatAssociative, SMTT(30)
  <2> QED BY <1>5, <1>7, <1>8, <1>10, <2>1, <2>2 DEF more, joined
<1> QED BY <1>9, <1>10

\* A list of directories reads back as what it was joined from.
LEMMA SplitJoined ==
    ASSUME NEW entries \in Seq(Pieces), entries # <<>>, Separator \in Parts
    PROVE  Split(Joined(entries)) = entries
<1> DEFINE T == {s \in Seq(Pieces) : s # <<>> => Split(Joined(s)) = s}
<1>1. <<>> \in T
  OBVIOUS
<1>2. ASSUME NEW s \in T, NEW e \in Pieces PROVE Append(s, e) \in T
  <2>1. s \in Seq(Pieces) /\ Append(s, e) \in Seq(Pieces) /\ (s # <<>> => Split(Joined(s)) = s)
    OBVIOUS
  <2> HIDE DEF T
  <2>2. s \in Seq(Seq(Parts)) /\ e \in Seq(Parts)
    BY <2>1 DEF Pieces
  <2>3. /\ Joined(s) \in Seq(Parts)
        /\ Joined(Append(s, e)) = IF s = <<>> THEN e ELSE (Joined(s) \o <<Separator>>) \o e
    BY <2>2, JoinedAppend
  <2>4. CASE s = <<>>
    <3>1. Split(e) = <<e>> /\ Append(s, e) = <<e>>
      BY <2>2, <2>3, <2>4, SplitTail
    <3> QED BY <2>1, <2>3, <2>4, <3>1 DEF T
  <2>5. CASE s # <<>>
    <3>1. Split((Joined(s) \o <<Separator>>) \o e) = Append(Split(Joined(s)), e)
      BY <2>3, SplitTail
    <3> QED BY <2>1, <2>3, <2>5, <3>1 DEF T
  <2> QED BY <2>4, <2>5
<1>3. T = Seq(Pieces)
  <2>1. T \in SUBSET Seq(Pieces)
    OBVIOUS
  <2> HIDE DEF T
  <2> QED BY <1>1, <1>2, <2>1, SeqInd
<1> QED BY <1>3

LEMMA NonEmptyHolds ==
    ASSUME NEW seq \in Seq(Pieces)
    PROVE  NonEmpty(seq) \in Seq(Directories) /\ (seq \in Seq(Directories) => NonEmpty(seq) = seq)
<1> DEFINE Holds(s) == NonEmpty(s) \in Seq(Directories) /\ (s \in Seq(Directories) => NonEmpty(s) = s)
           T == {s \in Seq(Pieces) : Holds(s)}
<1>1. <<>> \in T
  <2>1. <<>> \in Seq(Pieces) /\ <<>> \in Seq(Directories)
    OBVIOUS
  <2>2. NonEmpty(<<>>) \in Seq(Directories) /\ NonEmpty(<<>>) = <<>>
    BY <2>1, NonEmptyNone, Zenon
  <2> QED BY <2>1, <2>2
<1>2. ASSUME NEW s \in T, NEW e \in Pieces PROVE Append(s, e) \in T
  <2> DEFINE more == Append(s, e)
             kept == NonEmpty(s)
  <2>1. s \in Seq(Pieces) /\ more \in Seq(Pieces)
    OBVIOUS
  <2>2. kept \in Seq(Directories) /\ (s \in Seq(Directories) => kept = s)
    OBVIOUS
  <2> HIDE DEF T
  <2>3. NonEmpty(more) = IF e = <<>> THEN kept ELSE Append(kept, e)
    BY <2>1, NonEmptyAppend
  <2> HIDE DEF kept
  <2>4. NonEmpty(more) \in Seq(Directories)
    BY <2>2, <2>3 DEF Directories
  <2>5. ASSUME more \in Seq(Directories) PROVE NonEmpty(more) = more
    <3>1. s \in Seq(Directories) /\ e \in Directories
      <4>1. Len(more) = Len(s) + 1 /\ more[Len(s) + 1] = e /\ Len(s) \in Nat /\ \A n \in 1 .. Len(s) : more[n] = s[n]
        BY <2>1
      <4> HIDE DEF more
      <4>2. \A n \in 1 .. Len(more) : more[n] \in Directories
        BY <2>5
      <4>3. e \in Directories /\ \A n \in 1 .. Len(s) : s[n] \in Directories
        BY <4>1, <4>2
      <4> QED BY <2>1, <4>3
    <3> QED BY <2>2, <2>3, <3>1 DEF Directories
  <2> QED BY <2>1, <2>4, <2>5 DEF T
<1>3. T = Seq(Pieces)
  <2>1. T \in SUBSET Seq(Pieces)
    OBVIOUS
  <2> HIDE DEF T
  <2> QED BY <1>1, <1>2, <2>1, SeqInd
<1> QED BY <1>3

LEMMA PathEntriesHolds ==
    ASSUME NEW value \in Seq(Parts)
    PROVE  PathEntries(value) \in Seq(Directories)
<1>1. PathEntries(value) = NonEmpty(Split(value))
  BY DEF PathEntries, NonEmpty
<1> QED BY <1>1, SplitHolds, NonEmptyHolds

LEMMA PathEntriesEmpty == Joined(<<>>) = <<>> /\ PathEntries(<<>>) = <<>>
<1>1. Joined(<<>>) = <<>>
  <2>1. [n \in DOMAIN <<>> |-> IF n = 1 THEN <<>>[n] ELSE <<Separator>> \o <<>>[n]] = <<>>
    OBVIOUS
  <2> QED BY <2>1, FlattenEmpty DEF Joined
<1>2. NonEmpty(<<<<>>>>) = <<>>
  <2>1. <<>> \in Seq(Pieces) /\ <<>> \in Pieces /\ Append(<<>>, <<>>) = <<<<>>>>
    BY ContainsNone DEF Pieces
  <2> QED BY <2>1, NonEmptyAppend, NonEmptyNone
<1>3. PathEntries(<<>>) = NonEmpty(Split(<<>>))
  BY DEF PathEntries, NonEmpty
<1> QED BY <1>1, <1>2, <1>3, SplitEmpty

LEMMA PathEntriesJoined ==
    ASSUME NEW entries \in Seq(Directories), Separator \in Parts
    PROVE  Joined(entries) \in Seq(Parts) /\ PathEntries(Joined(entries)) = entries
<1>1. entries \in Seq(Pieces) /\ entries \in Seq(Seq(Parts)) /\ <<>> \in Seq(Parts)
  BY DEF Directories, Pieces
<1>2. Joined(entries) \in Seq(Parts)
  BY <1>1, JoinedAppend
<1>3. PathEntries(Joined(entries)) = NonEmpty(Split(Joined(entries)))
  BY DEF PathEntries, NonEmpty
<1>4. CASE entries # <<>>
  BY <1>1, <1>2, <1>3, <1>4, SplitJoined, NonEmptyHolds
<1>5. CASE entries = <<>>
  BY <1>2, <1>5, PathEntriesEmpty
<1> QED BY <1>4, <1>5

-----------------------------------------------------------------------------
(* Environments that agree on what the values refer to *)

Agree(one, two, names) ==
    \A name \in names : /\ name \in DOMAIN one <=> name \in DOMAIN two
                        /\ name \in DOMAIN one => one[name] = two[name]

\* The names that get a value from the entries, and from the first of them.
NamedTo(entries, k) == {entries[n].name : n \in {m \in 1 .. k : entries[m].value # NoValue}}
Named(entries) == {entries[n].name : n \in {m \in DOMAIN entries : entries[m].value # NoValue}}

EntryFields(entry) ==
    /\ entry.name \in Names /\ entry.value \in Values \cup {NoValue}
    /\ entry.prepend \in Seq(Values) /\ entry.append \in Seq(Values)
    /\ entry.ifMissing \in BOOLEAN /\ entry.shells \in SUBSET Shells

LEMMA EntryHas ==
    ASSUME NEW entries \in Seq(EntryRecords)
    PROVE  /\ Len(entries) \in Nat /\ DOMAIN entries = 1 .. Len(entries)
           /\ \A n \in 1 .. Len(entries) : EntryFields(entries[n])
<1>1. Len(entries) \in Nat /\ DOMAIN entries = 1 .. Len(entries)
      /\ \A n \in 1 .. Len(entries) : entries[n] \in EntryRecords
  OBVIOUS
<1>2. ASSUME NEW entry \in EntryRecords PROVE EntryFields(entry)
  BY DEF EntryRecords, EntryFields
<1> QED BY <1>1, <1>2

LEMMA ReferencesAreNames ==
    ASSUME NEW value
    PROVE  References(value) \subseteq Names
<1> SUFFICES ASSUME NEW n \in DOMAIN value, IsRef(value[n]) PROVE value[n][1] \in Names
  BY DEF References
<1>1. PICK name \in Names : value[n] = <<name>>
  BY DEF IsRef, Ref
<1> QED BY <1>1

LEMMA ExpandSame ==
    ASSUME NEW value, NEW one, NEW two, Agree(one, two, References(value))
    PROVE  Expand(value, one) = Expand(value, two)
<1> DEFINE Put(env, n) == IF IsRef(value[n]) /\ value[n][1] \in DOMAIN env THEN env[value[n][1]] ELSE <<value[n]>>
<1>1. ASSUME NEW n \in DOMAIN value PROVE Put(one, n) = Put(two, n)
  <2>1. IsRef(value[n]) => value[n][1] \in References(value)
    BY DEF References
  <2> QED BY <2>1 DEF Agree
<1> HIDE DEF Put
<1>2. [n \in DOMAIN value |-> Put(one, n)] = [n \in DOMAIN value |-> Put(two, n)]
  BY <1>1
<1> QED BY <1>2, Zenon DEF Expand, Put

LEMMA AgreeAssigned ==
    ASSUME NEW one, NEW two, NEW names, NEW name, NEW value, Agree(one, two, names)
    PROVE  Agree(Assigned(one, name, value), Assigned(two, name, value), names \cup {name})
<1> DEFINE left == Assigned(one, name, value)
           right == Assigned(two, name, value)
<1>1. /\ DOMAIN left = DOMAIN one \cup {name} /\ left[name] = value
      /\ \A n \in DOMAIN one : n # name => left[n] = one[n]
  BY DEF Assigned
<1>2. /\ DOMAIN right = DOMAIN two \cup {name} /\ right[name] = value
      /\ \A n \in DOMAIN two : n # name => right[n] = two[n]
  BY DEF Assigned
<1> HIDE DEF left, right
<1>3. Agree(left, right, names \cup {name})
  BY <1>1, <1>2 DEF Agree
<1> QED BY <1>3 DEF left, right

LEMMA NamedNext ==
    ASSUME NEW entries, NEW n \in Nat, n # 0
    PROVE  /\ NamedTo(entries, n) = NamedTo(entries, n - 1)
                                      \cup IF entries[n].value = NoValue THEN {} ELSE {entries[n].name}
           /\ NamedTo(entries, 0) = {}
<1>1. \A m : m \in 1 .. n <=> m \in 1 .. n - 1 \/ m = n
  OBVIOUS
<1>2. \A m : m \notin 1 .. 0
  OBVIOUS
<1> QED BY <1>1, <1>2, Zenon DEF NamedTo

\* The merges of ordered entries agree on all names but PATH, and on PATH if it is named.
LEMMA MergeAgrees ==
    ASSUME NEW entries \in Seq(EntryRecords), Ordered(entries), NEW one, NEW two,
           Agree(one, two, Names \ (Named(entries) \cup {Path}))
    PROVE  /\ Agree(Merge(entries, one), Merge(entries, two), (Names \ {Path}) \cup Named(entries))
           /\ Named(entries) \subseteq DOMAIN Merge(entries, one)
<1> DEFINE last == Len(entries)
           free == Names \ (Named(entries) \cup {Path})
<1>1. last \in Nat /\ DOMAIN entries = 1 .. last /\ \A n \in 1 .. last : EntryFields(entries[n])
  BY EntryHas
<1>2. PICK f : /\ f[0] = one
               /\ \A n \in 1 .. last : f[n] = WithEntry(f[n - 1], entries[n])
               /\ Merge(entries, one) = f[last]
  BY <1>1, MergeSteps
<1>3. PICK g : /\ g[0] = two
               /\ \A n \in 1 .. last : g[n] = WithEntry(g[n - 1], entries[n])
               /\ Merge(entries, two) = g[last]
  BY <1>1, MergeSteps
<1> DEFINE Same(n) == Agree(f[n], g[n], free \cup NamedTo(entries, n)) /\ NamedTo(entries, n) \subseteq DOMAIN f[n]
           T == {n \in 0 .. last : Same(n)}
<1>4. Named(entries) = NamedTo(entries, last)
  BY <1>1 DEF Named, NamedTo
<1>5. NamedTo(entries, 0) = {}
  BY NamedNext
<1>6. ASSUME NEW n \in 1 .. last, entries[n].value # NoValue
      PROVE  References(entries[n].value) \subseteq free \cup NamedTo(entries, n - 1)
  <2> DEFINE sets == {m \in DOMAIN entries : entries[m].value # NoValue}
  <2> SUFFICES ASSUME NEW name \in References(entries[n].value), name \in Named(entries)
               PROVE  name \in NamedTo(entries, n - 1)
    <3>1. n \in sets
      BY <1>1, <1>6
    <3>2. \A name \in References(entries[n].value) : name # Path
      BY <3>1 DEF Ordered
    <3> QED BY <3>2, ReferencesAreNames
  <2>1. n \in sets /\ \E m \in sets : entries[m].name = name
    BY <1>1, <1>6 DEF Named
  <2>2. PICK m \in sets : m < n /\ entries[m].name = name
    BY <2>1 DEF Ordered
  <2>3. m \in 1 .. n - 1 /\ entries[m].value # NoValue
    BY <1>1, <2>2
  <2> QED BY <2>2, <2>3 DEF NamedTo
<1> HIDE DEF last, free
<1>7. 0 \in T /\ \A n \in 0 + 1 .. last : n - 1 \in T => n \in T
  <2>1. Same(0)
    BY <1>2, <1>3, <1>5 DEF free
  <2>2. ASSUME NEW n \in 0 + 1 .. last, n - 1 \in T PROVE n \in T
    <3> DEFINE entry == entries[n]
               before == f[n - 1]
               other == g[n - 1]
               known == free \cup NamedTo(entries, n - 1)
    <3>1. n \in 1 .. last /\ n \in 0 .. last /\ Same(n - 1) /\ n \in Nat /\ n # 0
      BY <1>1, <2>2
    <3>2. Agree(before, other, known) /\ NamedTo(entries, n - 1) \subseteq DOMAIN before
      BY <3>1
    <3>3. f[n] = WithEntry(before, entry) /\ g[n] = WithEntry(other, entry)
      BY <1>2, <1>3, <3>1
    <3>4. NamedTo(entries, n) = NamedTo(entries, n - 1) \cup IF entry.value = NoValue THEN {} ELSE {entry.name}
      BY <3>1, NamedNext
    <3> HIDE DEF T
    <3>5. Same(n)
      <4>1. CASE entry.value = NoValue
        <5>1. f[n] = before /\ g[n] = other /\ NamedTo(entries, n) = NamedTo(entries, n - 1)
          BY <3>3, <3>4, <4>1 DEF WithEntry
        <5> QED BY <3>2, <5>1
      <4>2. CASE entry.value # NoValue
        <5> DEFINE value == Expand(entry.value, before)
        <5>1. Agree(before, other, References(entry.value))
          <6>1. References(entry.value) \subseteq known
            BY <1>6, <3>1, <4>2
          <6> QED BY <3>2, <6>1 DEF Agree
        <5>2. Expand(entry.value, other) = value
          BY <5>1, ExpandSame
        <5>3. f[n] = Assigned(before, entry.name, value) /\ g[n] = Assigned(other, entry.name, value)
          BY <3>3, <4>2, <5>2 DEF WithEntry
        <5> HIDE DEF value, before, other, entry, known
        <5>4. Agree(f[n], g[n], known \cup {entry.name})
          BY <3>2, <5>3, AgreeAssigned
        <5>5. DOMAIN f[n] = DOMAIN before \cup {entry.name}
          BY <5>3 DEF Assigned
        <5>6. NamedTo(entries, n) = NamedTo(entries, n - 1) \cup {entry.name}
          BY <3>4, <4>2
        <5>7. known \cup {entry.name} = free \cup NamedTo(entries, n)
          BY <5>6 DEF known
        <5> QED BY <3>2, <5>4, <5>5, <5>6, <5>7
      <4> QED BY <4>1, <4>2
    <3> QED BY <3>1, <3>5 DEF T
  <2>3. 0 \in 0 .. last
    BY <1>1
  <2> QED BY <2>1, <2>2, <2>3
<1>8. last \in T
  <2> HIDE DEF T
  <2>1. \A n \in 0 .. last : n \in T
    BY <1>1, <1>7, IntervalInd
  <2> QED BY <1>1, <2>1
<1>9. /\ Agree(f[last], g[last], free \cup Named(entries)) /\ Named(entries) \subseteq DOMAIN f[last]
  BY <1>4, <1>8
<1>10. free \cup Named(entries) = (Names \ {Path}) \cup Named(entries)
  BY DEF free
<1> QED BY <1>2, <1>3, <1>9, <1>10

\* What no entry names stays as it was.
LEMMA MergeLeaves ==
    ASSUME NEW entries \in Seq(EntryRecords), NEW environ, NEW names, names \cap Named(entries) = {}
    PROVE  Agree(Merge(entries, environ), environ, names)
<1> DEFINE last == Len(entries)
<1>1. last \in Nat /\ DOMAIN entries = 1 .. last
  BY EntryHas
<1>2. PICK f : /\ f[0] = environ
               /\ \A n \in 1 .. last : f[n] = WithEntry(f[n - 1], entries[n])
               /\ Merge(entries, environ) = f[last]
  BY <1>1, MergeSteps
<1> DEFINE T == {n \in 0 .. last : Agree(f[n], environ, names)}
<1>3. 0 \in T
  BY <1>1, <1>2 DEF Agree
<1>4. ASSUME NEW n \in 0 + 1 .. last, n - 1 \in T PROVE n \in T
  <2> DEFINE entry == entries[n]
             before == f[n - 1]
  <2>1. n \in 1 .. last /\ n \in 0 .. last /\ Agree(before, environ, names)
    BY <1>1, <1>4
  <2>2. f[n] = WithEntry(before, entry)
    BY <1>2, <2>1
  <2>3. entry.value # NoValue => entry.name \notin names
    BY <1>1, <2>1 DEF Named
  <2> HIDE DEF T, entry, before, last
  <2>4. Agree(f[n], environ, names)
    <3>1. CASE entry.value = NoValue
      BY <2>1, <2>2, <3>1 DEF WithEntry
    <3>2. CASE entry.value # NoValue
      <4> DEFINE value == Expand(entry.value, before)
      <4>1. f[n] = Assigned(before, entry.name, value)
        BY <2>2, <3>2 DEF WithEntry
      <4> HIDE DEF value
      <4>2. /\ DOMAIN f[n] = DOMAIN before \cup {entry.name}
            /\ \A m \in DOMAIN before : m # entry.name => f[n][m] = before[m]
        BY <4>1 DEF Assigned
      <4> QED BY <2>1, <2>3, <3>2, <4>2 DEF Agree
    <3> QED BY <3>1, <3>2
  <2> QED BY <2>1, <2>4 DEF T
<1>5. last \in T
  <2> HIDE DEF T, last
  <2>1. \A n \in 0 .. last : n \in T
    BY <1>1, <1>3, <1>4, IntervalInd
  <2> QED BY <1>1, <2>1
<1> QED BY <1>2, <1>5

-----------------------------------------------------------------------------
(* A block that was sourced is not planned again *)

\* In a larger environment the same ordered entries are active: none of them waits.
LEMMA ActiveSame ==
    ASSUME NEW entries \in Seq(EntryRecords), NEW one, NEW two, NEW shell, DOMAIN one \subseteq DOMAIN two,
           Ordered(ActiveEntries(entries, one, shell))
    PROVE  ActiveEntries(entries, two, shell) = ActiveEntries(entries, one, shell)
<1> DEFINE here == {n \in DOMAIN entries : Active(entries[n], one, shell)}
           there == {n \in DOMAIN entries : Active(entries[n], two, shell)}
           active == Picked(entries, here)
<1>1. Len(entries) \in Nat /\ DOMAIN entries = 1 .. Len(entries) /\ active \in Seq(EntryRecords)
  BY EntryHas, PickedType
<1>2. Ordered(active)
  BY DEF ActiveEntries
<1>3. \A k \in 1 .. Len(active) : ~active[k].ifMissing
  <2>1. DOMAIN active = 1 .. Len(active)
    BY <1>1
  <2> HIDE DEF active
  <2> QED BY <1>2, <2>1 DEF Ordered
<1>4. ASSUME NEW n \in 1 .. Len(entries) PROVE n \in here <=> n \in there
  <2>1. ASSUME n \in here PROVE n \in there
    <3>1. PICK k \in 1 .. Len(active) : active[k] = entries[n]
      <4> HIDE DEF here
      <4> QED BY <2>1, PickedHolds
    <3>2. ~entries[n].ifMissing
      BY <1>3, <3>1
    <3> QED BY <2>1, <3>2 DEF Active
  <2>2. ASSUME n \in there PROVE n \in here
    BY <2>2 DEF Active
  <2> QED BY <2>1, <2>2
<1>5. Picked(entries, here) = Picked(entries, there)
  <2> HIDE DEF here, there
  <2> QED BY <1>4, PickedSame
<1> QED BY <1>5 DEF ActiveEntries

ExpandedIn(lists, env) ==
    FlattenSeq([n \in DOMAIN lists |-> [m \in DOMAIN lists[n] |-> Expand(lists[n][m], env)]])

Prepends(active) == [n \in DOMAIN active |-> active[n].prepend]
Appends(active) == [n \in DOMAIN active |-> active[n].append]

Before(active, env) == Distinct(ExpandedIn(Prepends(active), env))
Behind(active, env) == Without(Distinct(ExpandedIn(Appends(active), env)), Before(active, env))
Current(active, env, includeCurrentPath) ==
    IF Path \in DOMAIN env /\ (includeCurrentPath \/ Path \in Named(active))
    THEN Without(Distinct(PathEntries(env[Path])), Before(active, env) \o Behind(active, env)) ELSE <<>>
ValuesOf(active, env) == [name \in Named(active) |-> env[name]]

\* _resolve_env on the active entries and their merge.
Resolved(active, env, includeCurrentPath) ==
    IF Before(active, env) \o Behind(active, env) = <<>> THEN [vars |-> ValuesOf(active, env), edits |-> NoEdits]
    ELSE [vars |-> Assigned(ValuesOf(active, env), Path,
                            Joined(Before(active, env) \o Current(active, env, includeCurrentPath)
                                     \o Behind(active, env))),
          edits |-> IF Path \in Named(active) THEN NoEdits
                    ELSE [prepend |-> Before(active, env), append |-> Behind(active, env)]]

LEMMA ResolveIs ==
    ASSUME NEW entries, NEW environ, NEW shell, NEW include
    PROVE  ResolveEnv(entries, environ, shell, include)
               = Resolved(ActiveEntries(entries, environ, shell),
                          Merge(ActiveEntries(entries, environ, shell), environ), include)
BY DEF ResolveEnv, Resolved, Before, Behind, Current, ValuesOf, ExpandedIn, Prepends, Appends, Named

LEMMA EntriesSame ==
    ASSUME NEW lists, NEW one, NEW two,
           \A n \in DOMAIN lists : \A m \in DOMAIN lists[n] : Agree(one, two, References(lists[n][m]))
    PROVE  ExpandedIn(lists, one) = ExpandedIn(lists, two)
<1>1. ASSUME NEW n \in DOMAIN lists
      PROVE  [m \in DOMAIN lists[n] |-> Expand(lists[n][m], one)] = [m \in DOMAIN lists[n] |-> Expand(lists[n][m], two)]
  <2>1. \A m \in DOMAIN lists[n] : Expand(lists[n][m], one) = Expand(lists[n][m], two)
    BY ExpandSame
  <2> QED BY <2>1, Zenon
<1> DEFINE All1(env, n) == [m \in DOMAIN lists[n] |-> Expand(lists[n][m], env)]
<1>2. \A n \in DOMAIN lists : All1(one, n) = All1(two, n)
  BY <1>1
<1>3. ExpandedIn(lists, one) = FlattenSeq([n \in DOMAIN lists |-> All1(one, n)])
      /\ ExpandedIn(lists, two) = FlattenSeq([n \in DOMAIN lists |-> All1(two, n)])
  BY DEF ExpandedIn
<1> HIDE DEF All1
<1>4. [n \in DOMAIN lists |-> All1(one, n)] = [n \in DOMAIN lists |-> All1(two, n)]
  BY <1>2, Zenon
<1> QED BY <1>3, <1>4, Zenon

\* Without the PATH of the process two environments that agree on the rest resolve alike.
LEMMA ResolvedSame ==
    ASSUME NEW active \in Seq(EntryRecords), Ordered(active), NEW one, NEW two,
           Agree(one, two, (Names \ {Path}) \cup Named(active)), Named(active) \subseteq DOMAIN one
    PROVE  Resolved(active, one, FALSE) = Resolved(active, two, FALSE)
<1> DEFINE known == (Names \ {Path}) \cup Named(active)
           Within(lists) == UNION {References(lists[m]) : m \in DOMAIN lists}
<1>1. ASSUME NEW n \in DOMAIN active
      PROVE  Path \notin Within(active[n].prepend) /\ Path \notin Within(active[n].append)
  BY DEF Ordered
<1>2. ASSUME NEW value, Path \notin References(value) PROVE Agree(one, two, References(value))
  BY <1>2, ReferencesAreNames DEF Agree
<1>3. ExpandedIn(Prepends(active), one) = ExpandedIn(Prepends(active), two)
  <2> DEFINE lists == Prepends(active)
  <2>1. DOMAIN lists = DOMAIN active /\ \A n \in DOMAIN active : lists[n] = active[n].prepend
    BY DEF Prepends
  <2>2. ASSUME NEW n \in DOMAIN lists, NEW m \in DOMAIN lists[n] PROVE Agree(one, two, References(lists[n][m]))
    BY <1>1, <1>2, <2>1
  <2> HIDE DEF lists
  <2>3. ExpandedIn(lists, one) = ExpandedIn(lists, two)
    BY <2>2, EntriesSame
  <2> QED BY <2>3 DEF lists
<1>4. ExpandedIn(Appends(active), one) = ExpandedIn(Appends(active), two)
  <2> DEFINE lists == Appends(active)
  <2>1. DOMAIN lists = DOMAIN active /\ \A n \in DOMAIN active : lists[n] = active[n].append
    BY DEF Appends
  <2>2. ASSUME NEW n \in DOMAIN lists, NEW m \in DOMAIN lists[n] PROVE Agree(one, two, References(lists[n][m]))
    BY <1>1, <1>2, <2>1
  <2> HIDE DEF lists
  <2>3. ExpandedIn(lists, one) = ExpandedIn(lists, two)
    BY <2>2, EntriesSame
  <2> QED BY <2>3 DEF lists
<1>5. Before(active, one) = Before(active, two)
  BY <1>3, Zenon DEF Before
<1>6. Behind(active, one) = Behind(active, two)
  BY <1>4, <1>5, Zenon DEF Behind
<1>7. ValuesOf(active, one) = ValuesOf(active, two)
  BY DEF ValuesOf, Agree
<1>8. Current(active, one, FALSE) = Current(active, two, FALSE)
  <2>1. CASE Path \in Named(active)
    <3>1. Path \in DOMAIN one /\ Path \in DOMAIN two /\ one[Path] = two[Path]
      BY <2>1 DEF Agree
    <3> QED BY <1>5, <1>6, <2>1, <3>1, Zenon DEF Current
  <2>2. CASE Path \notin Named(active)
    BY <2>2, Zenon DEF Current
  <2> QED BY <2>1, <2>2
<1> QED BY <1>5, <1>6, <1>7, <1>8, Zenon DEF Resolved

\* The block of the second environment is that of the first.
LEMMA BlockSame ==
    ASSUME NEW entries \in Seq(EntryRecords), NEW one, NEW two, NEW shell, DOMAIN one \subseteq DOMAIN two,
           Ordered(ActiveEntries(entries, one, shell)),
           Agree(one, two, Names \ (Named(ActiveEntries(entries, one, shell)) \cup {Path}))
    PROVE  ShellBlock(entries, two, shell) = ShellBlock(entries, one, shell)
<1> DEFINE active == ActiveEntries(entries, one, shell)
<1>1. ActiveEntries(entries, two, shell) = active
  BY ActiveSame
<1>2. active \in Seq(EntryRecords)
  BY PickedType DEF ActiveEntries
<1>3. Ordered(active) /\ Agree(one, two, Names \ (Named(active) \cup {Path}))
  OBVIOUS
<1>4. /\ ResolveEnv(entries, one, shell, FALSE) = Resolved(active, Merge(active, one), FALSE)
      /\ ResolveEnv(entries, two, shell, FALSE) = Resolved(active, Merge(active, two), FALSE)
  BY <1>1, ResolveIs
<1> HIDE DEF active
<1>5. /\ Agree(Merge(active, one), Merge(active, two), (Names \ {Path}) \cup Named(active))
      /\ Named(active) \subseteq DOMAIN Merge(active, one)
  BY <1>2, <1>3, MergeAgrees
<1>6. ResolveEnv(entries, one, shell, FALSE) = ResolveEnv(entries, two, shell, FALSE)
  BY <1>2, <1>3, <1>4, <1>5, ResolvedSame
<1> QED BY <1>6, Zenon DEF ShellBlock

BlockOf(block, resolved, active) ==
    LET names == DOMAIN resolved.vars \ IF resolved.edits = NoEdits THEN {} ELSE {Path}
    IN  /\ block.edits = resolved.edits
        /\ DOMAIN block.vars = names
        /\ \A name \in names : block.vars[name] = resolved.vars[name]
        /\ names \subseteq Named(active) \cup {Path}

\* The fields of a block, and the names that it sets.
LEMMA BlockHas ==
    ASSUME NEW entries, NEW environ, NEW shell
    PROVE  BlockOf(ShellBlock(entries, environ, shell), ResolveEnv(entries, environ, shell, FALSE),
                   ActiveEntries(entries, environ, shell))
<1> DEFINE resolved == ResolveEnv(entries, environ, shell, FALSE)
           active == ActiveEntries(entries, environ, shell)
           env == Merge(active, environ)
           names == DOMAIN resolved.vars \ IF resolved.edits = NoEdits THEN {} ELSE {Path}
           block == ShellBlock(entries, environ, shell)
<1>1. resolved = Resolved(active, env, FALSE)
  BY ResolveIs
<1>2. block = [resolved EXCEPT !.vars = [name \in names |-> @[name]]]
  BY DEF ShellBlock
<1> HIDE DEF active, env, resolved, names, block
<1>3. PICK vars, edits : resolved = [vars |-> vars, edits |-> edits]
  BY <1>1 DEF Resolved
<1>4. DOMAIN resolved.vars \subseteq Named(active) \cup {Path}
  BY <1>1 DEF Resolved, Assigned, ValuesOf
<1>5. block.edits = resolved.edits /\ block.vars = [name \in names |-> resolved.vars[name]]
  BY <1>2, <1>3
<1>6. names \subseteq DOMAIN resolved.vars
  BY DEF names
<1>7. BlockOf(block, resolved, active)
  BY <1>4, <1>5, <1>6 DEF names, BlockOf
<1> QED BY <1>7 DEF active, resolved, block

SourcedFrom(after, environ, block) ==
    /\ DOMAIN after = DOMAIN environ \cup DOMAIN block.vars \cup IF block.edits = NoEdits THEN {} ELSE {Path}
    /\ \A name \in DOMAIN block.vars :
          block.edits = NoEdits \/ name # Path => after[name] = block.vars[name]
    /\ \A name \in DOMAIN environ \ DOMAIN block.vars :
          block.edits = NoEdits \/ name # Path => after[name] = environ[name]

LEMMA SourcedHas ==
    ASSUME NEW environ, NEW block
    PROVE  SourcedFrom(Sourced(environ, block), environ, block)
<1> DEFINE vars == block.vars
           edits == block.edits
           env == [name \in DOMAIN environ \cup DOMAIN vars |->
                     IF name \in DOMAIN vars THEN vars[name] ELSE environ[name]]
           path == IF Path \in DOMAIN env THEN env[Path] ELSE <<>>
           relocated == Joined(Relocate(path, edits))
           once == Sourced(environ, block)
<1>1. once = IF edits = NoEdits THEN env ELSE Assigned(env, Path, relocated)
  BY DEF Sourced
<1> HIDE DEF relocated, vars, edits, once
<1>2. DOMAIN env = DOMAIN environ \cup DOMAIN vars
      /\ \A name \in DOMAIN env : env[name] = IF name \in DOMAIN vars THEN vars[name] ELSE environ[name]
  OBVIOUS
<1> HIDE DEF env
<1>3. /\ DOMAIN once = DOMAIN env \cup IF edits = NoEdits THEN {} ELSE {Path}
      /\ \A name \in DOMAIN env : edits = NoEdits \/ name # Path => once[name] = env[name]
  BY <1>1 DEF Assigned
<1>4. SourcedFrom(once, environ, block)
  BY <1>2, <1>3 DEF SourcedFrom, vars, edits
<1> QED BY <1>4 DEF once

LEMMA EnvDoesSettle ==
    ASSUME NEW entries \in Seq(EntryRecords), NEW environ, NEW shell, NEW path,
           Ordered(ActiveEntries(entries, environ, shell))
    PROVE  EnvSettles(entries, environ, shell, path)
<1> DEFINE block == ShellBlock(entries, environ, shell)
           after == Sourced(environ, block)
           other == Assigned(after, Path, path)
           named == Named(ActiveEntries(entries, environ, shell))
           free == Names \ (named \cup {Path})
<1>1. DOMAIN block.vars \subseteq named \cup {Path}
  <2>1. BlockOf(block, ResolveEnv(entries, environ, shell, FALSE), ActiveEntries(entries, environ, shell))
    BY BlockHas
  <2> HIDE DEF block
  <2> QED BY <2>1 DEF BlockOf
<1>2. /\ DOMAIN environ \cup DOMAIN block.vars \subseteq DOMAIN after
      /\ DOMAIN after = DOMAIN environ \cup DOMAIN block.vars \cup IF block.edits = NoEdits THEN {} ELSE {Path}
      /\ \A name \in DOMAIN environ \ DOMAIN block.vars :
                 block.edits = NoEdits \/ name # Path => after[name] = environ[name]
  <2>1. SourcedFrom(after, environ, block)
    BY SourcedHas
  <2> HIDE DEF block, after
  <2> QED BY <2>1 DEF SourcedFrom
<1> HIDE DEF block, after, named
<1>3. Agree(environ, after, free)
  BY <1>1, <1>2 DEF Agree
<1>4. ShellBlock(entries, after, shell) = block
  BY <1>2, <1>3, BlockSame DEF named, block
<1>5. DOMAIN after \subseteq DOMAIN other /\ Agree(environ, other, free)
  BY <1>3 DEF Assigned, Agree
<1>6. ShellBlock(entries, other, shell) = block
  <2>1. DOMAIN environ \subseteq DOMAIN other
    BY <1>2, <1>5
  <2> HIDE DEF other
  <2> QED BY <1>5, <2>1, BlockSame DEF named, block
<1> QED BY <1>4, <1>6 DEF EnvSettles, block, after

-----------------------------------------------------------------------------
(* A shell that sources the block has what was resolved *)

TypedEnv(env) == \A name \in DOMAIN env : env[name] \in Values

LEMMA ExpandTyped ==
    ASSUME NEW value \in Values, NEW env, TypedEnv(env)
    PROVE  Expand(value, env) \in Values
<1> DEFINE Put(n) == IF IsRef(value[n]) /\ value[n][1] \in DOMAIN env THEN env[value[n][1]] ELSE <<value[n]>>
<1>1. Len(value) \in Nat /\ DOMAIN value = 1 .. Len(value) /\ \A n \in 1 .. Len(value) : value[n] \in Parts
  BY DEF Values
<1>2. ASSUME NEW n \in 1 .. Len(value) PROVE Put(n) \in Seq(Parts)
  <2>1. <<value[n]>> \in Seq(Parts)
    BY <1>1
  <2> QED BY <2>1 DEF TypedEnv, Values
<1>3. Expand(value, env) = FlattenSeq([n \in 1 .. Len(value) |-> Put(n)])
  BY <1>1, Zenon DEF Expand
<1> HIDE DEF Put
<1>4. [n \in 1 .. Len(value) |-> Put(n)] \in Seq(Seq(Parts))
  BY <1>1, <1>2
<1> QED BY <1>3, <1>4, FlattenType DEF Values

LEMMA MergeTyped ==
    ASSUME NEW entries \in Seq(EntryRecords), NEW environ, TypedEnv(environ)
    PROVE  TypedEnv(Merge(entries, environ))
<1> DEFINE last == Len(entries)
<1>1. last \in Nat /\ \A n \in 1 .. last : EntryFields(entries[n])
  BY EntryHas
<1>2. PICK f : /\ f[0] = environ
               /\ \A n \in 1 .. last : f[n] = WithEntry(f[n - 1], entries[n])
               /\ Merge(entries, environ) = f[last]
  BY <1>1, MergeSteps
<1> DEFINE T == {n \in 0 .. last : TypedEnv(f[n])}
<1>3. 0 \in T
  BY <1>1, <1>2
<1>4. ASSUME NEW n \in 0 + 1 .. last, n - 1 \in T PROVE n \in T
  <2> DEFINE entry == entries[n]
             before == f[n - 1]
  <2>1. n \in 1 .. last /\ n \in 0 .. last /\ TypedEnv(before)
    BY <1>1, <1>4
  <2>2. f[n] = WithEntry(before, entry) /\ entry.value \in Values \cup {NoValue}
    BY <1>1, <1>2, <2>1 DEF EntryFields
  <2> HIDE DEF T, entry, before, last
  <2>3. TypedEnv(f[n])
    <3>1. CASE entry.value = NoValue
      BY <2>1, <2>2, <3>1 DEF WithEntry
    <3>2. CASE entry.value # NoValue
      <4> DEFINE value == Expand(entry.value, before)
      <4>1. f[n] = Assigned(before, entry.name, value)
        BY <2>2, <3>2 DEF WithEntry
      <4>2. value \in Values
        BY <2>1, <2>2, <3>2, ExpandTyped
      <4> HIDE DEF value
      <4> QED BY <2>1, <4>1, <4>2 DEF TypedEnv, Assigned
    <3> QED BY <3>1, <3>2
  <2> QED BY <2>1, <2>3 DEF T
<1>5. last \in T
  <2> HIDE DEF T, last
  <2>1. \A n \in 0 .. last : n \in T
    BY <1>1, <1>3, <1>4, IntervalInd
  <2> QED BY <1>1, <2>1
<1> QED BY <1>2, <1>5

LEMMA EntriesTyped ==
    ASSUME NEW lists \in Seq(Seq(Values)), NEW env, TypedEnv(env)
    PROVE  ExpandedIn(lists, env) \in Seq(Values)
<1> DEFINE All1(n) == [m \in DOMAIN lists[n] |-> Expand(lists[n][m], env)]
<1>1. Len(lists) \in Nat /\ DOMAIN lists = 1 .. Len(lists) /\ \A n \in 1 .. Len(lists) : lists[n] \in Seq(Values)
  OBVIOUS
<1>2. ASSUME NEW list \in Seq(Values) PROVE [m \in DOMAIN list |-> Expand(list[m], env)] \in Seq(Values)
  <2>1. \A m \in DOMAIN list : Expand(list[m], env) \in Values
    BY ExpandTyped
  <2>2. DOMAIN list = 1 .. Len(list) /\ Len(list) \in Nat
    OBVIOUS
  <2> QED BY <2>1, <2>2
<1>3. \A n \in 1 .. Len(lists) : All1(n) \in Seq(Values)
  BY <1>1, <1>2
<1>4. ExpandedIn(lists, env) = FlattenSeq([n \in 1 .. Len(lists) |-> All1(n)])
  BY <1>1, Zenon DEF ExpandedIn
<1> HIDE DEF All1
<1>5. [n \in 1 .. Len(lists) |-> All1(n)] \in Seq(Seq(Values))
  BY <1>1, <1>3
<1> QED BY <1>4, <1>5, FlattenType

LEMMA EditsTyped ==
    ASSUME NEW active \in Seq(EntryRecords), NEW env, TypedEnv(env)
    PROVE  Before(active, env) \in Seq(Values) /\ Behind(active, env) \in Seq(Values)
<1>1. Prepends(active) \in Seq(Seq(Values)) /\ Appends(active) \in Seq(Seq(Values))
  <2> DEFINE S == Seq(Values)
  <2>1. /\ Len(active) \in Nat /\ DOMAIN active = 1 .. Len(active)
        /\ \A n \in 1 .. Len(active) : active[n].prepend \in S /\ active[n].append \in S
    BY EntryHas DEF EntryFields
  <2> HIDE DEF S
  <2>2. Prepends(active) \in Seq(S) /\ Appends(active) \in Seq(S)
    BY <2>1 DEF Prepends, Appends
  <2> QED BY <2>2 DEF S
<1>2. ExpandedIn(Prepends(active), env) \in Seq(Values) /\ ExpandedIn(Appends(active), env) \in Seq(Values)
  BY <1>1, EntriesTyped
<1>3. ASSUME NEW s \in Seq(Values) PROVE Distinct(s) \in Seq(Values)
  BY PickedType DEF Distinct
<1>4. ASSUME NEW s \in Seq(Values), NEW t PROVE Without(s, t) \in Seq(Values)
  BY PickedType DEF Without
<1> QED BY <1>2, <1>3, <1>4 DEF Before, Behind

\* Sourcing a block without edits of PATH again changes nothing.
LEMMA SourcedTwice ==
    ASSUME NEW environ, NEW block, block.edits = NoEdits
    PROVE  Sourced(Sourced(environ, block), block) = Sourced(environ, block)
<1> DEFINE vars == block.vars
           Mixed(env, name) == IF name \in DOMAIN vars THEN vars[name] ELSE env[name]
           After(env) == [name \in DOMAIN env \cup DOMAIN vars |-> Mixed(env, name)]
           once == After(environ)
<1>1. \A env : Sourced(env, block) = After(env)
  BY DEF Sourced
<1> HIDE DEF vars
<1>2. DOMAIN once = DOMAIN environ \cup DOMAIN vars
      /\ \A name \in DOMAIN environ \cup DOMAIN vars : once[name] = Mixed(environ, name)
  OBVIOUS
<1>3. /\ DOMAIN once \cup DOMAIN vars = DOMAIN environ \cup DOMAIN vars
      /\ \A name \in DOMAIN environ \cup DOMAIN vars : Mixed(once, name) = Mixed(environ, name)
  <2> HIDE DEF once
  <2> QED BY <1>2
<1>4. After(once) = once
  <2>1. After(once) = [name \in DOMAIN environ \cup DOMAIN vars |-> Mixed(once, name)]
    <3> HIDE DEF once
    <3> QED BY <1>3
  <2>2. [name \in DOMAIN environ \cup DOMAIN vars |-> Mixed(once, name)]
           = [name \in DOMAIN environ \cup DOMAIN vars |-> Mixed(environ, name)]
    <3> HIDE DEF Mixed, once
    <3> QED BY <1>3
  <2> QED BY <2>1, <2>2
<1> QED BY <1>1, <1>4

\* Edits of PATH put what they are about in its place, once.
LEMMA RelocateTwice ==
    ASSUME NEW pre \in Seq(Directories), NEW app \in Seq(Directories), NEW path \in Values,
           Separator \in Parts
    PROVE  LET edits == [prepend |-> pre, append |-> app]
               kept == Without(PathEntries(path), pre \o app)
           IN  /\ Relocate(path, edits) = (pre \o kept) \o app
               /\ Relocate(path, edits) \in Seq(Directories) /\ kept \in Seq(Directories)
               /\ Relocate(Joined(Relocate(path, edits)), edits) = Relocate(path, edits)
<1> DEFINE edits == [prepend |-> pre, append |-> app]
           both == pre \o app
           old == PathEntries(path)
           kept == Without(old, both)
           list == Relocate(path, edits)
<1>1. list = (pre \o kept) \o app
  BY DEF Relocate
<1>2. old \in Seq(Directories)
  BY PathEntriesHolds DEF Values
<1>3. both \in Seq(Directories)
  OBVIOUS
<1> HIDE DEF both, old
<1>4. kept \in Seq(Directories)
  BY <1>2, PickedType DEF Without
<1>5. \A e : Contains(kept, e) => ~Contains(both, e)
  BY <1>2, WithoutHolds
<1>6. \A e : (Contains(pre, e) => Contains(both, e)) /\ (Contains(app, e) => Contains(both, e))
  BY ContainsConcat DEF both
<1>7. Relocate(Joined(list), edits) = (pre \o Without(PathEntries(Joined(list)), both)) \o app
  BY DEF Relocate, both
<1> HIDE DEF kept, list, edits
<1>8. pre \o kept \in Seq(Directories) /\ list \in Seq(Directories)
  BY <1>1, <1>4
<1>9. PathEntries(Joined(list)) = list
  BY <1>8, PathEntriesJoined
<1>10. Without(list, both) = kept
  <2>1. Without(list, both) = (Without(pre, both) \o Without(kept, both)) \o Without(app, both)
    <3>1. Without(list, both) = Without(pre \o kept, both) \o Without(app, both)
      BY <1>1, <1>8, WithoutConcat, ZenonT(30)
    <3>2. Without(pre \o kept, both) = Without(pre, both) \o Without(kept, both)
      BY <1>4, WithoutConcat
    <3> QED BY <3>1, <3>2
  <2>2. Without(pre, both) = <<>> /\ Without(app, both) = <<>>
    BY <1>6, WithoutAll
  <2>3. Without(kept, both) = kept
    BY <1>4, <1>5, WithoutKeeps
  <2>4. (<<>> \o kept) \o <<>> = kept
    BY <1>4
  <2> QED BY <2>1, <2>2, <2>3, <2>4
<1>11. Relocate(Joined(list), edits) = list
  BY <1>1, <1>7, <1>9, <1>10
<1> QED BY <1>1, <1>4, <1>8, <1>11 DEF kept, list, edits, old, both

\* Without edits of PATH the block is what was resolved, with PATH or without.
LEMMA BlockWithoutEdits ==
    ASSUME NEW entries \in Seq(EntryRecords), NEW environ, TypedEnv(environ), NEW shell,
           ShellBlock(entries, environ, shell).edits = NoEdits
    PROVE  SourcedAsResolved(entries, environ, shell)
<1> DEFINE active == ActiveEntries(entries, environ, shell)
           env == Merge(active, environ)
           block == ShellBlock(entries, environ, shell)
           plan == ResolveEnv(entries, environ, shell, FALSE)
           result == ResolveEnv(entries, environ, shell, TRUE)
           once == Sourced(environ, block)
           pre == Before(active, env)
           app == Behind(active, env)
<1>1. active \in Seq(EntryRecords)
  BY PickedType DEF ActiveEntries
<1>2. plan = Resolved(active, env, FALSE) /\ result = Resolved(active, env, TRUE)
  BY ResolveIs
<1>3. /\ block.edits = NoEdits /\ plan.edits = NoEdits /\ DOMAIN block.vars = DOMAIN plan.vars
      /\ \A name \in DOMAIN plan.vars : block.vars[name] = plan.vars[name]
  <2>1. BlockOf(block, plan, active) /\ block.edits = NoEdits
    BY BlockHas
  <2> HIDE DEF block, plan, active
  <2> QED BY <2>1 DEF BlockOf
<1>4. pre \in Seq(Values) /\ app \in Seq(Values)
  <2> HIDE DEF active
  <2> QED BY <1>1, MergeTyped, EditsTyped
<1>5. Sourced(once, block) = once
  BY SourcedTwice
<1>6. \A name \in DOMAIN block.vars : name \in DOMAIN once /\ once[name] = block.vars[name]
  <2>1. SourcedFrom(once, environ, block)
    BY SourcedHas
  <2> HIDE DEF block, once
  <2> QED BY <1>3, <2>1 DEF SourcedFrom
<1> HIDE DEF active, env, block, plan, result, once
<1>7. pre \o app = <<>> \/ Path \in Named(active)
  <2> SUFFICES ASSUME pre \o app # <<>>, Path \notin Named(active) PROVE FALSE
    OBVIOUS
  <2>1. plan.edits = [prepend |-> pre, append |-> app]
    BY <1>2 DEF Resolved
  <2>2. [prepend |-> pre, append |-> app] \in [prepend : Seq(Values), append : Seq(Values)]
    BY <1>4
  <2> QED BY <1>3, <2>1, <2>2, PartsAssumption
<1>8. Path \in Named(active) => Current(active, env, TRUE) = Current(active, env, FALSE)
  BY DEF Current
<1>9. result = plan
  BY <1>2, <1>7, <1>8 DEF Resolved
<1>10. ASSUME NEW name \in DOMAIN result.vars PROVE once[name] = result.vars[name]
  BY <1>3, <1>6, <1>9, <1>10
<1> QED BY <1>5, <1>10 DEF SourcedAsResolved, block, once, result

\* With edits of PATH each of them is in its place, and the rest of PATH between them.
LEMMA BlockWithEdits ==
    ASSUME NEW entries \in Seq(EntryRecords), NEW environ, TypedEnv(environ), NEW shell,
           ShellBlock(entries, environ, shell).edits # NoEdits,
           SingleDirectories(ShellBlock(entries, environ, shell))
    PROVE  SourcedAsResolved(entries, environ, shell)
<1> DEFINE active == ActiveEntries(entries, environ, shell)
           env == Merge(active, environ)
           block == ShellBlock(entries, environ, shell)
           plan == ResolveEnv(entries, environ, shell, FALSE)
           result == ResolveEnv(entries, environ, shell, TRUE)
           once == Sourced(environ, block)
           twice == Sourced(once, block)
           pre == Before(active, env)
           app == Behind(active, env)
           named == Named(active)
           values == ValuesOf(active, env)
           edits == [prepend |-> pre, append |-> app]
           path == IF Path \in DOMAIN environ THEN environ[Path] ELSE <<>>
           kept == Without(PathEntries(path), pre \o app)
           list == Relocate(path, edits)
           current == Current(active, env, TRUE)
<1>1. active \in Seq(EntryRecords)
  BY PickedType DEF ActiveEntries
<1>2. plan = Resolved(active, env, FALSE) /\ result = Resolved(active, env, TRUE)
  BY ResolveIs
<1>3. /\ block.edits = plan.edits
      /\ block.edits # NoEdits => DOMAIN block.vars = DOMAIN plan.vars \ {Path}
      /\ \A name \in DOMAIN block.vars : block.vars[name] = plan.vars[name]
  <2>1. BlockOf(block, plan, active)
    BY BlockHas
  <2> HIDE DEF block, plan, active
  <2> QED BY <2>1 DEF BlockOf
<1>4. block.edits # NoEdits /\ SingleDirectories(block)
  OBVIOUS
<1>5. pre \in Seq(Values) /\ app \in Seq(Values)
  <2> HIDE DEF active
  <2> QED BY <1>1, MergeTyped, EditsTyped
<1>6. \A name \in named \cup {Path} : name \notin named => Agree(env, environ, {name})
  <2> HIDE DEF active
  <2> QED BY <1>1, MergeLeaves
<1>7. /\ DOMAIN once = DOMAIN environ \cup DOMAIN block.vars \cup {Path}
      /\ DOMAIN twice = DOMAIN once \cup DOMAIN block.vars \cup {Path}
      /\ \A name \in DOMAIN block.vars : name # Path =>
            once[name] = block.vars[name] /\ twice[name] = block.vars[name]
      /\ \A name \in DOMAIN environ \ DOMAIN block.vars : name # Path => once[name] = environ[name]
      /\ \A name \in DOMAIN once \ DOMAIN block.vars : name # Path => twice[name] = once[name]
  <2>1. SourcedFrom(once, environ, block)
    BY SourcedHas
  <2>2. SourcedFrom(twice, once, block)
    <3> HIDE DEF once, block
    <3> QED BY SourcedHas
  <2> HIDE DEF block, once, twice
  <2> QED BY <1>4, <2>1, <2>2 DEF SourcedFrom
<1> HIDE DEF active, env, block, plan, result
<1>8. pre \o app # <<>> /\ Path \notin named
  BY <1>2, <1>3, <1>4 DEF Resolved
<1>9. block.edits = edits /\ plan.vars = Assigned(values, Path, Joined((pre \o Current(active, env, FALSE)) \o app))
  BY <1>2, <1>3, <1>8 DEF Resolved
<1>10. result.vars = Assigned(values, Path, Joined((pre \o current) \o app))
  BY <1>2, <1>8 DEF Resolved
<1>11. /\ DOMAIN block.vars = named /\ Path \notin DOMAIN block.vars
       /\ \A name \in named : block.vars[name] = values[name]
  <2>1. DOMAIN plan.vars = named \cup {Path} /\ \A name \in named : plan.vars[name] = values[name]
    BY <1>8, <1>9 DEF Assigned, ValuesOf
  <2> QED BY <1>3, <1>4, <1>8, <2>1
<1>12. once[Path] = Joined(list) /\ twice[Path] = Joined(Relocate(once[Path], edits))
  <2> DEFINE Env(e) == [name \in DOMAIN e \cup DOMAIN block.vars |->
                          IF name \in DOMAIN block.vars THEN block.vars[name] ELSE e[name]]
             Old(e) == IF Path \in DOMAIN Env(e) THEN Env(e)[Path] ELSE <<>>
  <2>1. ASSUME NEW e PROVE Sourced(e, block) = Assigned(Env(e), Path, Joined(Relocate(Old(e), edits)))
    BY <1>4, <1>9 DEF Sourced
  <2>2. ASSUME NEW e PROVE Old(e) = IF Path \in DOMAIN e THEN e[Path] ELSE <<>>
    BY <1>11
  <2> HIDE DEF Env, Old
  <2>3. ASSUME NEW e PROVE Sourced(e, block)[Path] = Joined(Relocate(Old(e), edits))
    BY <2>1 DEF Assigned
  <2> HIDE DEF once, edits
  <2>4. Old(environ) = path /\ Old(once) = once[Path]
    BY <1>7, <2>2
  <2> QED BY <2>3, <2>4, Zenon DEF once
<1>13. path \in Values
  BY DEF TypedEnv, Values
<1>14. pre \in Seq(Directories) /\ app \in Seq(Directories)
  <2> DEFINE both == pre \o app
  <2>1. \A n \in DOMAIN both : both[n] # <<>> /\ ~Contains(both[n], Separator)
    BY <1>4, <1>9 DEF SingleDirectories
  <2> HIDE DEF pre, app
  <2>2. /\ Len(both) = Len(pre) + Len(app) /\ DOMAIN both = 1 .. Len(pre) + Len(app)
        /\ Len(pre) \in Nat /\ Len(app) \in Nat
        /\ \A n \in 1 .. Len(pre) : both[n] = pre[n]
        /\ \A n \in 1 .. Len(app) : both[Len(pre) + n] = app[n]
    BY <1>5
  <2> HIDE DEF both
  <2>3. ASSUME NEW n \in 1 .. Len(pre) PROVE pre[n] \in Directories
    <3>1. n \in DOMAIN both /\ pre[n] \in Seq(Parts)
      BY <1>5, <2>2 DEF Values
    <3> QED BY <2>1, <2>2, <3>1 DEF Directories, Pieces
  <2>4. ASSUME NEW n \in 1 .. Len(app) PROVE app[n] \in Directories
    <3>1. Len(pre) + n \in DOMAIN both /\ app[n] \in Seq(Parts)
      BY <1>5, <2>2 DEF Values
    <3> QED BY <2>1, <2>2, <3>1 DEF Directories, Pieces
  <2>5. ASSUME NEW S, NEW R, NEW s \in Seq(S), \A n \in 1 .. Len(s) : s[n] \in R PROVE s \in Seq(R)
    BY <2>5
  <2> QED BY <1>5, <2>3, <2>4, <2>5, Zenon
<1> HIDE DEF path, pre, app
<1>15. /\ list = (pre \o kept) \o app
       /\ list \in Seq(Directories) /\ kept \in Seq(Directories)
       /\ Relocate(Joined(list), edits) = list
  BY <1>13, <1>14, RelocateTwice, PartsAssumption
<1>16. current = Distinct(kept)
  <2>1. Path \in DOMAIN env <=> Path \in DOMAIN environ
    BY <1>6, <1>8 DEF Agree
  <2>2. CASE Path \in DOMAIN environ
    <3>1. env[Path] = path
      BY <1>6, <1>8, <2>1, <2>2 DEF Agree, path
    <3>2. current = Without(Distinct(PathEntries(path)), pre \o app)
      BY <2>1, <2>2, <3>1, Zenon DEF Current, pre, app
    <3>3. PathEntries(path) \in Seq(Directories)
      BY <1>13, PathEntriesHolds DEF Values
    <3> QED BY <3>2, <3>3, WithoutDistinct
  <2>3. CASE Path \notin DOMAIN environ
    <3>1. current = <<>>
      BY <2>1, <2>3 DEF Current
    <3>2. kept = <<>>
      BY <2>3, PathEntriesEmpty, WithoutNone DEF path
    <3> QED BY <3>1, <3>2, DistinctNone
  <2> QED BY <2>2, <2>3
<1> HIDE DEF kept, list, current, edits, named, values, once, twice
<1>17. Distinct(PathEntries(Joined((pre \o current) \o app))) = Distinct(PathEntries(Joined(list)))
  <2>1. current \in Seq(Directories)
    BY <1>15, <1>16, PickedType DEF Distinct
  <2>2. pre \o current \in Seq(Directories) /\ pre \o kept \in Seq(Directories)
        /\ (pre \o current) \o app \in Seq(Directories)
    BY <1>14, <1>15, <2>1
  <2>3. PathEntries(Joined((pre \o current) \o app)) = (pre \o current) \o app /\ PathEntries(Joined(list)) = list
    BY <1>15, <2>2, PathEntriesJoined, PartsAssumption
  <2>4. Distinct(pre \o current) = Distinct(pre \o kept)
    BY <1>14, <1>15, <1>16, DistinctMiddle
  <2>5. Distinct((pre \o current) \o app) = Distinct((pre \o kept) \o app)
    BY <1>14, <2>2, <2>4, DistinctTail
  <2> QED BY <1>15, <2>3, <2>5
<1>18. twice = once
  <2>1. DOMAIN twice = DOMAIN once
    BY <1>7
  <2>2. ASSUME NEW name \in DOMAIN once PROVE twice[name] = once[name]
    <3>1. CASE name = Path
      BY <1>12, <1>15, <3>1
    <3>2. CASE name # Path
      BY <1>7, <2>2, <3>2
    <3> QED BY <3>1, <3>2
  <2>3. ASSUME NEW e, NEW new PROVE Sourced(e, block) = [name \in DOMAIN Sourced(e, block) |-> Sourced(e, block)[name]]
    BY <1>4 DEF Sourced, Assigned
  <2>4. once = [name \in DOMAIN once |-> once[name]] /\ twice = [name \in DOMAIN twice |-> twice[name]]
    BY <2>3 DEF once, twice
  <2> QED BY <2>1, <2>2, <2>4
<1>19. ASSUME NEW name \in DOMAIN result.vars
       PROVE  IF name = Path THEN Distinct(PathEntries(once[name])) = Distinct(PathEntries(result.vars[name]))
              ELSE once[name] = result.vars[name]
  <2>1. /\ DOMAIN result.vars = named \cup {Path} /\ result.vars[Path] = Joined((pre \o current) \o app)
        /\ \A n \in named : n # Path => result.vars[n] = values[n]
    BY <1>10 DEF Assigned, values, ValuesOf, named
  <2>2. CASE name = Path
    BY <1>12, <1>17, <2>1, <2>2
  <2>3. CASE name # Path
    BY <1>7, <1>11, <1>19, <2>1, <2>3
  <2> QED BY <2>2, <2>3
<1> QED BY <1>18, <1>19, Zenon DEF SourcedAsResolved, block, once, twice, result

LEMMA EnvIsResolved ==
    ASSUME NEW entries \in Seq(EntryRecords), NEW environ, TypedEnv(environ), NEW shell,
           SingleDirectories(ShellBlock(entries, environ, shell))
    PROVE  SourcedAsResolved(entries, environ, shell)
BY BlockWithEdits, BlockWithoutEdits

-----------------------------------------------------------------------------
(* The inputs *)

\* The first half of an input, and what each of the five is about.
Half(about, objects) ==
    \E object \in objects : input = [about |-> about, whole |-> FALSE, object |-> object]

HalfInput ==
    \/ Half("scopes", Scopes) \/ Half("lines", Texts) \/ Half("env", EntryLists)
    \/ Half("targets", FileTargets) \/ Half("location", Locations)

WholeScopes ==
    \E left, right \in Scopes :
        input = [about |-> "scopes", whole |-> TRUE, left |-> left, right |-> right]

WholeLinesInput ==
    \E text \in Texts, id \in BlockIds, first, second \in DesiredBlocks :
        input = [about |-> "lines", whole |-> TRUE, text |-> text, id |-> id,
                 first |-> first, second |-> second]

WholeEnv ==
    \E entries \in EntryLists, environ \in Environs, shell \in Shells \cup {AnyShell}, path \in OtherPaths :
        input = [about |-> "env", whole |-> TRUE, entries |-> entries, environ |-> environ,
                 shell |-> shell, path |-> path]

WholeTargets ==
    \E left, right \in FileTargets :
        input = [about |-> "targets", whole |-> TRUE, left |-> left, right |-> right]

WholeLocation ==
    \E location \in Locations, files \in FileSystems, append \in Appendices, created \in NewPaths :
        input = [about |-> "location", whole |-> TRUE, location |-> location, files |-> files,
                 append |-> append, created |-> created]

\* What the proofs need of an input: each part is one of those it was chosen from.
InputInv ==
    \/ input = [about |-> "nothing", whole |-> FALSE]
    \/ HalfInput
    \/ WholeScopes \/ WholeLinesInput \/ WholeEnv \/ WholeTargets \/ WholeLocation

LEMMA HalfIs ==
    ASSUME InputInv
    PROVE  /\ With("scopes") => input.object \in Scopes
           /\ With("lines") => input.object \in Texts
           /\ With("env") => input.object \in EntryLists
           /\ With("targets") => input.object \in FileTargets
           /\ With("location") => input.object \in Locations
<1>1. CASE input = [about |-> "nothing", whole |-> FALSE]
  BY <1>1 DEF With
<1>2. CASE HalfInput
  BY <1>2 DEF HalfInput, Half, With
<1>3. CASE WholeScopes \/ WholeLinesInput \/ WholeEnv \/ WholeTargets \/ WholeLocation
  <2>1. input.whole
    BY <1>3 DEF WholeScopes, WholeLinesInput, WholeEnv, WholeTargets, WholeLocation
  <2> QED BY <2>1 DEF With
<1> QED BY <1>1, <1>2, <1>3 DEF InputInv

LEMMA WholeIs ==
    ASSUME InputInv
    PROVE  /\ Complete("scopes") => WholeScopes
           /\ Complete("lines") => WholeLinesInput
           /\ Complete("env") => WholeEnv
           /\ Complete("targets") => WholeTargets
           /\ Complete("location") => WholeLocation
<1>1. CASE input = [about |-> "nothing", whole |-> FALSE] \/ HalfInput
  <2>1. ~input.whole
    BY <1>1 DEF HalfInput, Half
  <2> QED BY <2>1 DEF Complete
<1>2. /\ WholeScopes => input.about = "scopes"
      /\ WholeLinesInput => input.about = "lines"
      /\ WholeEnv => input.about = "env"
      /\ WholeTargets => input.about = "targets"
      /\ WholeLocation => input.about = "location"
  BY DEF WholeScopes, WholeLinesInput, WholeEnv, WholeTargets, WholeLocation
<1>3. CASE WholeScopes \/ WholeLinesInput \/ WholeEnv \/ WholeTargets \/ WholeLocation
  BY <1>2, <1>3 DEF Complete
<1> QED BY <1>1, <1>3 DEF InputInv

LEMMA InputInductive == InputInv /\ [Next]_input => InputInv'
<1> SUFFICES ASSUME InputInv, [Next]_input PROVE InputInv'
  OBVIOUS
<1>1. CASE UNCHANGED input
  BY <1>1 DEF InputInv, HalfInput, Half, WholeScopes, WholeLinesInput, WholeEnv, WholeTargets, WholeLocation
<1>2. CASE ChooseScope \/ ChooseLines \/ ChooseEntries \/ ChooseTarget \/ ChooseLocation
  BY <1>2 DEF ChooseScope, ChooseLines, ChooseEntries, ChooseTarget, ChooseLocation, Choose,
              InputInv, HalfInput, Half
<1>3. CASE CompareScopes
  BY <1>3, HalfIs DEF CompareScopes, InputInv, WholeScopes
<1>4. CASE WriteBlockTwice
  BY <1>4, HalfIs DEF WriteBlockTwice, InputInv, WholeLinesInput
<1>5. CASE ResolveEntries
  BY <1>5, HalfIs DEF ResolveEntries, InputInv, WholeEnv
<1>6. CASE CompareTargets
  BY <1>6, HalfIs DEF CompareTargets, InputInv, WholeTargets
<1>7. CASE ResolveAgain
  BY <1>7, HalfIs DEF ResolveAgain, InputInv, WholeLocation
<1> QED BY <1>1, <1>2, <1>3, <1>4, <1>5, <1>6, <1>7 DEF Next

\* Every input is made of parts of the sets that the constants name.
LEMMA InputsAreChosen == Spec => []InputInv
<1>1. Init => InputInv
  BY DEF Init, InputInv
<1> QED BY <1>1, InputInductive, PTL DEF Spec

\* claims_overlap is right about any two claims (claim_scopes.py).
THEOREM OverlapHolds == Spec => []OverlapIsSharedPlace
<1>1. ASSUME InputInv PROVE OverlapIsSharedPlace
  <2> SUFFICES ASSUME Complete("scopes")
               PROVE  Overlap(input.left, input.right) <=> SharedPlace(input.left, input.right, ClaimedPlaces)
    BY DEF OverlapIsSharedPlace
  <2>1. input.left \in Scopes /\ input.right \in Scopes
    BY <1>1, WholeIs DEF WholeScopes
  <2> DEFINE left == input.left
             right == input.right
  <2>2. /\ ClaimOver(left, ScopePaths, ScopeKeys, ScopeBlocks) /\ ClaimOver(right, ScopePaths, ScopeKeys, ScopeBlocks)
        /\ ScopePaths \in SUBSET Seq(PathParts) /\ ScopeKeys \in SUBSET Seq(KeyWords) /\ ScopeBlocks # {}
    BY <2>1, ScopesAssumption
  <2> HIDE DEF left, right
  <2>3. Overlap(left, right) <=> SharedPlace(left, right, PlacesOver(ScopePaths, ScopeKeys, ScopeBlocks))
    BY <2>2, OverlapMeansSharedPlace
  <2> QED BY <2>3 DEF ClaimedPlaces, left, right
<1> QED BY <1>1, InputsAreChosen, PTL

\* No two targets that may stand together are active on one machine (spec.py).
THEOREM AlternativesHold == Spec => []AlternativesAreExclusive
<1>1. AlternativesAreExclusive
  BY AlternativesDoExclude DEF AlternativesAreExclusive
<1> QED BY <1>1, PTL

\* A location leads to the same path again (spec.py, _resolve_location).
THEOREM LocationsHold == Spec => []LocationsAreStable
<1>1. ASSUME InputInv PROVE LocationsAreStable
  <2> SUFFICES ASSUME Complete("location")
               PROVE  SelectedStays(input.location, input.append, Here, input.files, input.created)
    BY DEF LocationsAreStable
  <2> DEFINE location == input.location
             append == input.append
             files == input.files
             created == input.created
  <2>1. location \in Locations /\ append \in Appendices /\ created \in NewPaths
    BY <1>1, WholeIs DEF WholeLocation
  <2> HIDE DEF location, append, files, created
  <2>2. /\ \A one \in Candidates : one.path \in Seq(PathParts)
        /\ location.candidates \in Seq(Candidates)
        /\ location.mode \in {"first", "create_parent", "first_existing", "required", "first_existing_parent"}
        /\ append \in Seq(PathParts) /\ created \in Seq(PathParts)
    BY <2>1, LocationsAssumption
  <2>3. SelectedStays(location, append, Here, files, created)
    BY <2>2, SelectedPathsStay
  <2> QED BY <2>3 DEF location, append, files, created
<1> QED BY <1>1, InputsAreChosen, PTL

\* Managed blocks read back, and rollback gives back the text (adapters/line.py).
THEOREM BlocksHold == Spec => []BlocksAreUndone
<1>1. ASSUME InputInv PROVE BlocksAreUndone
  <2> SUFFICES ASSUME Complete("lines")
               PROVE  /\ BlockSettles(input.text, input.id, input.first)
                      /\ BlockUndone(input.text, input.id, input.first, input.second)
    BY DEF BlocksAreUndone
  <2> DEFINE text == input.text
             id == input.id
             first == input.first
             second == input.second
  <2>1. text \in Texts /\ id \in BlockIds /\ first \in DesiredBlocks /\ second \in DesiredBlocks
    BY <1>1, WholeIs DEF WholeLinesInput
  <2> HIDE DEF text, id, first, second
  <2>2. Good(text) /\ first \in Seq(Entries) /\ SingleLines(first) /\ second \in Seq(Entries) /\ SingleLines(second)
    BY <2>1, TextsAssumption DEF Good
  <2>3. BlockSettles(text, id, first) /\ BlockUndone(text, id, first, second)
    BY <2>1, <2>2, WrittenBlockSettles, WrittenBlockUndone
  <2> QED BY <2>3 DEF text, id, first, second
<1> QED BY <1>1, InputsAreChosen, PTL

\* The block of a shell profile stays what it is when apply runs in a shell that has sourced
\* it, for any entries that are in order and any environment (orchestrator.py, shell.py).
THEOREM EnvSettlesHold == Spec => []EnvBlockSettles
<1>1. ASSUME InputInv PROVE EnvBlockSettles
  <2> SUFFICES ASSUME Complete("env"), InOrder
               PROVE  EnvSettles(input.entries, input.environ, input.shell, input.path)
    BY DEF EnvBlockSettles
  <2> DEFINE entries == input.entries
             environ == input.environ
             shell == input.shell
             path == input.path
  <2>1. entries \in EntryLists /\ Ordered(ActiveEntries(entries, environ, shell))
    BY <1>1, WholeIs DEF WholeEnv, InOrder
  <2> HIDE DEF entries, environ, shell, path
  <2>2. entries \in Seq(EntryRecords)
    BY <2>1, EnvAssumption
  <2>3. EnvSettles(entries, environ, shell, path)
    BY <2>1, <2>2, EnvDoesSettle
  <2> QED BY <2>3 DEF entries, environ, shell, path
<1> QED BY <1>1, InputsAreChosen, PTL

\* A shell that sources the block, once or twice, has the variables and the PATH that
\* _resolve_env names, for any entries, environment and shell (orchestrator.py, shell.py).
THEOREM EnvResolvedHold == Spec => []EnvBlockIsResolved
<1>1. ASSUME InputInv PROVE EnvBlockIsResolved
  <2> SUFFICES ASSUME Complete("env"),
                      SingleDirectories(ShellBlock(input.entries, input.environ, input.shell))
               PROVE  SourcedAsResolved(input.entries, input.environ, input.shell)
    BY DEF EnvBlockIsResolved
  <2> DEFINE entries == input.entries
             environ == input.environ
             shell == input.shell
  <2>1. entries \in EntryLists /\ environ \in Environs
    BY <1>1, WholeIs DEF WholeEnv
  <2>2. SingleDirectories(ShellBlock(entries, environ, shell))
    OBVIOUS
  <2> HIDE DEF entries, environ, shell
  <2>3. entries \in Seq(EntryRecords) /\ TypedEnv(environ)
    BY <2>1, EnvAssumption DEF TypedEnv
  <2>4. SourcedAsResolved(entries, environ, shell)
    BY <2>2, <2>3, EnvIsResolved
  <2> QED BY <2>4 DEF entries, environ, shell
<1> QED BY <1>1, InputsAreChosen, PTL
=============================================================================
