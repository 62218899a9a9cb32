------------------------- MODULE ModelCache_proofs --------------------------
(***************************************************************************)
(* What the cache of model directories keeps for any set of names.  The    *)
(* lookups are lemmas about states (ResolveType, ResolveCached); the       *)
(* properties about steps follow from them and from what Put changes.      *)
(***************************************************************************)
EXTENDS ModelCache, TLAPS

USE CacheAssumption DEF Roots

\* The directory that pull and rm work in is one of the roots.
LEMMA CacheDirType == CacheDir \in Roots
  BY DEF CacheDir

\* A lookup ends in a model directory of some root, or nowhere.
LEMMA ResolveType ==
  ASSUME TypeOK, NEW ref \in Names \cup Paths
  PROVE  Resolve(ref) \in (Roots \X Models) \cup {NotFound}
<1>1. CASE ref \in Names
  <2>1. PICK n \in Models : ref = Bare(n) \/ ref = Tagged(n)
    BY <1>1 DEF Names
  <2>2. StripModelTag(ref) = Bare(n)
    BY <2>1 DEF StripModelTag, Bare, Tagged
  <2> QED BY <2>2 DEF Resolve, Bare
<1>2. CASE ref \in Paths
  <2>1. PICK d \in Roots \X Models : ref = Path(d) BY <1>2 DEF Paths
  <2>2. StripModelTag(ref) \in {Path(d), Drive}
    BY <2>1 DEF StripModelTag, Path
  <2> QED BY <2>2 DEF Resolve, Path, Drive
<1> QED BY <1>1, <1>2

\* A name is looked up in the roots of the environment, tagged or not.
LEMMA StrippedName ==
  \A n : StripModelTag(Bare(n)) = Bare(n) /\ StripModelTag(Tagged(n)) = Bare(n)
  BY DEF StripModelTag, Bare, Tagged

\* The order of the lookup: the environment's root, then the local one.
LEMMA ResolveName ==
  ASSUME NEW n \in Models, NEW ref \in {Bare(n), Tagged(n)}
  PROVE  Resolve(ref) =
           IF "env" \in set /\ dirs["env"][n].there THEN <<"env", n>>
           ELSE IF "local" \in set /\ dirs["local"][n].there THEN <<"local", n>>
           ELSE NotFound
<1>1. StripModelTag(ref) = Bare(n) BY StrippedName
<1> QED BY <1>1 DEF Resolve, Bare

\* What one directory's replacement changes.
LEMMA PutChanges ==
  ASSUME TypeOK, NEW r \in Roots, NEW n \in Models, NEW d \in Dir, Put(r, n, d)
  PROVE  /\ dirs' \in [Roots -> [Models -> Dir]]
         /\ dirs'[r][n] = d
         /\ \A q \in Roots, m \in Models : <<q, m>> # <<r, n>> => dirs'[q][m] = dirs[q][m]
         /\ UNCHANGED <<set, pc, at, name>>
  BY DEF TypeOK, Put

\* Replacing one directory leaves the others well-formed.
LEMMA PutTypeOK ==
  ASSUME TypeOK, NEW r \in Roots, NEW n \in Models, NEW d \in Dir,
         ~d.there => d = Absent, Put(r, n, d)
  PROVE  TypeOK'
<1>1. /\ dirs' \in [Roots -> [Models -> Dir]]
      /\ dirs'[r][n] = d
      /\ \A q \in Roots, m \in Models : <<q, m>> # <<r, n>> => dirs'[q][m] = dirs[q][m]
      /\ UNCHANGED <<set, pc, at, name>>
  BY PutChanges
<1>2. \A q \in Roots, m \in Models : ~dirs'[q][m].there => dirs'[q][m] = Absent
  BY <1>1 DEF TypeOK
<1> QED BY <1>1, <1>2 DEF TypeOK

\* An absent and a present directory are directories.
LEMMA DirTypes ==
  /\ Absent \in Dir /\ ~Absent.there
  /\ \A m \in Models \cup {"none", "bad"}, w \in BOOLEAN :
       Present(m, w) \in Dir /\ Present(m, w).there /\ Present(m, w).manifest = m
  BY DEF Absent, Present, Dir

\* A removal, whole or cut short, leaves well-formed directories.
LEMMA RemoveLocalTypeOK ==
  ASSUME TypeOK, NEW n \in Models, RemoveLocal(n)
  PROVE  TypeOK'
<1>1. CacheDir \in Roots BY CacheDirType
<1>2. CASE Remove(n) BY <1>1, <1>2, DirTypes, PutTypeOK DEF Remove
<1>3. CASE RemoveCut(n)
  <2>1. dirs[CacheDir][n].manifest \in Models \cup {"none", "bad"}
    BY <1>1 DEF TypeOK, Dir
  <2>2. PICK m \in {dirs[CacheDir][n].manifest, "none"} :
          Put(CacheDir, n, Present(m, FALSE))
    BY <1>3 DEF RemoveCut
  <2> QED BY <1>1, <2>1, <2>2, DirTypes, PutTypeOK
<1> QED BY <1>2, <1>3 DEF RemoveLocal

\* Pulls, conversions and removals keep the types.
LEMMA CacheTypeOK == TypeOK /\ Cache => TypeOK'
<1> SUFFICES ASSUME TypeOK, Cache PROVE TypeOK'
  OBVIOUS
<1>1. CacheDir \in Roots BY CacheDirType
<1>2. ASSUME NEW r \in Roots, NEW n \in Models, NEW m \in Models \cup {"none", "bad"},
             NEW w \in BOOLEAN, Convert(r, n, m, w)
      PROVE  TypeOK'
  BY <1>2, DirTypes, PutTypeOK DEF Convert
<1>3. ASSUME NEW n \in Known, PullFinish(n)
      PROVE  TypeOK'
  BY <1>1, <1>3, DirTypes, PutTypeOK DEF PullFinish
<1>4. ASSUME NEW n \in Known, PullFails(n)
      PROVE  TypeOK'
  <2>1. dirs[CacheDir][n].manifest \in Models \cup {"none", "bad"}
    BY <1>1 DEF TypeOK, Dir
  <2>2. PICK m \in {dirs[CacheDir][n].manifest, "bad"}, w \in BOOLEAN :
          Put(CacheDir, n, Present(m, w))
    BY <1>4 DEF PullFails
  <2> QED BY <1>1, <2>1, <2>2, DirTypes, PutTypeOK
<1>5. ASSUME NEW ref \in Names, Rm(ref)
      PROVE  TypeOK'
  <2>1. ref.name \in Models BY DEF Names, Bare, Tagged
  <2> QED BY <1>5, <2>1, RemoveLocalTypeOK DEF Rm
<1>6. ASSUME NEW ref \in Names, ApiDelete(ref)
      PROVE  TypeOK'
  <2>1. StripModelTag(ref).name \in Models BY DEF Names, Bare, Tagged, StripModelTag
  <2> QED BY <1>6, <2>1, RemoveLocalTypeOK DEF ApiDelete
<1> QED BY <1>2, <1>3, <1>4, <1>5, <1>6 DEF Cache

\* Starting, loading and stopping a server keep the types.
LEMMA ServerTypeOK == TypeOK /\ Server => TypeOK'
<1> SUFFICES ASSUME TypeOK, Server PROVE TypeOK'
  OBVIOUS
<1> NotFound \notin Roots \X Models BY DEF NotFound
<1>1. ASSUME NEW ref \in Names \cup Paths, Serve(ref)
      PROVE  TypeOK'
  <2>1. Resolve(ref) \in (Roots \X Models) \cup {NotFound} BY ResolveType
  <2> QED BY <1>1, <2>1 DEF Serve, TypeOK
<1>2. CASE ServeEmpty BY <1>2 DEF ServeEmpty, TypeOK
<1>3. CASE ReadManifest BY <1>3 DEF ReadManifest, TypeOK
<1>4. CASE CreateDialog BY <1>4 DEF CreateDialog, TypeOK
<1>5. CASE LoadFails BY <1>5 DEF LoadFails, TypeOK
<1>6. CASE Stop BY <1>6 DEF Stop, TypeOK
<1> QED BY <1>1, <1>2, <1>3, <1>4, <1>5, <1>6 DEF Server

\* Directories, the server and its name are well-formed: an absent directory
\* holds nothing, and the server has a name exactly when it was given one.
THEOREM CacheTypeCorrect == Spec => []TypeOK
<1>1. Init => TypeOK
  BY DirTypes DEF Init, TypeOK
<1>2. TypeOK /\ [Next]_vars => TypeOK'
  <2>1. CASE Next BY <2>1, CacheTypeOK, ServerTypeOK DEF Next
  <2>2. CASE UNCHANGED vars BY <2>2 DEF vars, TypeOK
  <2> QED BY <2>1, <2>2
<1> QED BY <1>1, <1>2, PTL DEF Spec

-----------------------------------------------------------------------------
\* What is removed is the copy that `run` would have used, and only that; the
\* server shows no more of it than what it has loaded.
THEOREM RemovesTheOneUsed == Spec => RemovesWhatRunUses
<1>1. TypeOK /\ [Next]_vars =>
        [\A n \in Models : Remove(n) /\ set # {} =>
           /\ Resolve(Bare(n)) = <<CacheDir, n>>
           /\ Resolve(Tagged(n))' \in {NotFound, <<"local", n>>} \ {<<CacheDir, n>>}
           /\ \A d \in Roots \X Models : d # <<CacheDir, n>> => DirAt(d)' = DirAt(d)
           /\ \A ref \in {Bare(n), Tagged(n)} \cup Advertised :
                ApiShow(ref)' = IF ref \in Advertised THEN name ELSE "404"]_vars
  <2> SUFFICES ASSUME TypeOK, NEW n \in Models, Remove(n), set # {}
               PROVE  /\ Resolve(Bare(n)) = <<CacheDir, n>>
                      /\ Resolve(Tagged(n))' \in {NotFound, <<"local", n>>} \ {<<CacheDir, n>>}
                      /\ \A d \in Roots \X Models : d # <<CacheDir, n>> => DirAt(d)' = DirAt(d)
                      /\ \A ref \in {Bare(n), Tagged(n)} \cup Advertised :
                           ApiShow(ref)' = IF ref \in Advertised THEN name ELSE "404"
    OBVIOUS
  <2>1. CacheDir \in {"env", "local"} /\ CacheDir \in set
        /\ (CacheDir = "local" => "env" \notin set)
    BY DEF CacheDir, TypeOK
  <2>2. dirs[CacheDir][n].there BY DEF Remove, RemoveStatus
  <2>3. Resolve(Bare(n)) = <<CacheDir, n>> BY <2>1, <2>2, ResolveName
  <2>4. /\ dirs'[CacheDir][n] = Absent /\ set' = set
        /\ \A q \in Roots, m \in Models : <<q, m>> # <<CacheDir, n>> => dirs'[q][m] = dirs[q][m]
    BY CacheDirType, DirTypes, PutChanges DEF Remove
  <2>5. Resolve(Tagged(n))' =
          IF "env" \in set' /\ dirs'["env"][n].there THEN <<"env", n>>
          ELSE IF "local" \in set' /\ dirs'["local"][n].there THEN <<"local", n>>
          ELSE NotFound
    BY StrippedName DEF Resolve, Bare
  <2>6. Resolve(Tagged(n))' \in {NotFound, <<"local", n>>} \ {<<CacheDir, n>>}
    <3>1. ~dirs'[CacheDir][n].there BY <2>4, DirTypes
    <3> QED BY <2>1, <2>4, <2>5, <3>1 DEF NotFound
  <2>7. \A d \in Roots \X Models : d # <<CacheDir, n>> => DirAt(d)' = DirAt(d)
    BY <2>4 DEF DirAt
  <2>8. ASSUME NEW ref \in {Bare(n), Tagged(n)} \cup Advertised
        PROVE  ApiShow(ref)' = IF ref \in Advertised THEN name ELSE "404"
    <3>1. name' = name /\ CacheDir' = CacheDir /\ dirs'[CacheDir][n].manifest = "none"
      BY <2>4, CacheDirType, DirTypes, PutChanges DEF Remove, CacheDir, Absent
    <3>2. Advertised = IF name = "none" THEN {} ELSE {Bare(name), Tagged(name)}
      BY DEF Advertised, ApiTags, V1Models
    <3>3. CASE ref \in Advertised
      <4>1. StripModelTag(ref).name = name BY <3>2, <3>3, StrippedName DEF Bare
      <4> QED BY <3>1, <3>3, <4>1 DEF ApiShow, Loaded
    <3>4. CASE ref \notin Advertised
      <4>1. StripModelTag(ref).name = n /\ ref \in {Bare(n), Tagged(n)}
        BY <3>4, StrippedName DEF Bare
      <4>2. n # name BY <3>2, <3>4, <4>1
      <4> QED BY <3>1, <3>4, <4>1, <4>2 DEF ApiShow, Loaded
    <3> QED BY <3>3, <3>4
  <2> QED BY <2>3, <2>6, <2>7, <2>8
<1> QED BY <1>1, CacheTypeCorrect, PTL DEF Spec, RemovesWhatRunUses

\* A model that was pulled is found, shown and listed under its name.
THEOREM PulledFound == Spec => PulledIsFound
<1>1. TypeOK /\ [Next]_vars =>
        [\A n \in Known : PullFinish(n) /\ set # {} =>
           /\ \A ref \in {Bare(n), Tagged(n)} :
                Resolve(ref)' = <<CacheDir, n>> /\ ShowModel(ref)' = n
           /\ <<CacheDir, n>> \in Listed' /\ n \in ListLocal']_vars
  <2> SUFFICES ASSUME TypeOK, NEW n \in Known, PullFinish(n), set # {}
               PROVE  /\ \A ref \in {Bare(n), Tagged(n)} :
                           Resolve(ref)' = <<CacheDir, n>> /\ ShowModel(ref)' = n
                      /\ <<CacheDir, n>> \in Listed' /\ n \in ListLocal'
    OBVIOUS
  <2>1. n \in Models /\ CacheDir \in {"env", "local"} /\ CacheDir \in set
        /\ (CacheDir = "local" => "env" \notin set)
    BY DEF CacheDir, TypeOK
  <2>2. dirs'[CacheDir][n] = Present(n, TRUE) /\ set' = set
    <3> DEFINE d == Present(n, TRUE)
    <3>1. d \in Dir BY <2>1, DirTypes
    <3>2. Put(CacheDir, n, d) BY DEF PullFinish
    <3> HIDE DEF d
    <3>3. dirs'[CacheDir][n] = d /\ set' = set
      BY <2>1, <3>1, <3>2, CacheDirType, PutChanges
    <3> QED BY <3>3 DEF d
  <2>3. CacheDir' = CacheDir BY <2>2 DEF CacheDir
  <2>4. Present(n, TRUE).there /\ Present(n, TRUE).manifest = n BY DEF Present
  <2>5. ASSUME NEW ref \in {Bare(n), Tagged(n)}
        PROVE  Resolve(ref)' = <<CacheDir, n>> /\ ShowModel(ref)' = n
    <3>1. Resolve(ref)' =
            IF "env" \in set' /\ dirs'["env"][n].there THEN <<"env", n>>
            ELSE IF "local" \in set' /\ dirs'["local"][n].there THEN <<"local", n>>
            ELSE NotFound
      BY StrippedName DEF Resolve, Bare
    <3>2. Resolve(ref)' = <<CacheDir, n>> BY <2>1, <2>2, <2>4, <3>1
    <3>3. dirs'[CacheDir][n].manifest = n BY <2>2, <2>4
    <3> QED BY <2>1, <3>2, <3>3 DEF ShowModel, DirAt, NotFound
  <2>6. <<CacheDir, n>> \in Listed' BY <2>1, <2>2, <2>4 DEF Listed, DirAt
  <2>7. n \in ListLocal' BY <2>1, <2>2, <2>3, <2>4 DEF ListLocal
  <2> QED BY <2>5, <2>6, <2>7
<1> QED BY <1>1, CacheTypeCorrect, PTL DEF Spec, PulledIsFound
=============================================================================
