---------------------------- MODULE CatalogProofs ----------------------------
(***************************************************************************)
(* The catalog stays consistent under any sequence of its statements.      *)
(*                                                                         *)
(* A statement like SaveScan changes the two tables in several parts, so   *)
(* what has to hold is first stated of any pair of tables (Consistent) and *)
(* each part is shown to keep it; the statements then follow.              *)
(***************************************************************************)
EXTENDS Catalog, JobTableProofs

\* The invariants of the two tables, of any values of them.
Typed(table, rows) ==
  /\ table \in [ArtifactId -> Artifact \cup {NoArtifact}]
  /\ rows \in [File -> Row \cup {NoRow}]

Agreeing(table, rows) ==
  \A f \in File :
    /\ rows[f].state # "none" => rows[f].torrent \in {Torrent(f), NoTorrent}
    /\ rows[f].state # "none" /\ rows[f].artifact # Null
         => /\ table[rows[f].artifact].state = "active"
            /\ rows[f].torrent = table[rows[f].artifact].torrent

Made(table) ==
  /\ \A a \in ArtifactId : table[a].state = "active" /\ table[a].creator # Null =>
       \E g \in Gid : /\ Exists(g) /\ jobs[g].id = table[a].creator
                      /\ InfoHash(g) = table[a].torrent
  /\ \A a, b \in ArtifactId :
       /\ table[a].state = "active" /\ table[b].state = "active"
       /\ table[a].creator = table[b].creator /\ table[a].creator # Null
       => a = b

Numbered(rows) ==
  \A f, k \in File :
    rows[f].state # "none" /\ rows[k].state # "none" /\ rows[f].id = rows[k].id => f = k

Consistent(table, rows) ==
  Typed(table, rows) /\ Agreeing(table, rows) /\ Made(table) /\ Numbered(rows)

\* The inductive invariant.
Sound == /\ TypeOK /\ IdsUnique
         /\ Consistent(artifact, location)
         /\ listed \in [Hash -> SUBSET Content]

LEMMA SoundMeans ==
  Sound <=> CatTypeOK /\ IdsUnique /\ RowsAgree /\ MakersAgree /\ RowIdsUnique
<1>1. RowsAgree <=> Agreeing(artifact, location)
  BY DEF RowsAgree, Agreeing, Saved, Recorded
<1>2. MakersAgree <=> Made(artifact)
  BY DEF MakersAgree, Made, Recorded
<1>3. RowIdsUnique <=> Numbered(location)
  BY DEF RowIdsUnique, Numbered, Saved
<1> QED BY <1>1, <1>2, <1>3 DEF Sound, CatTypeOK, Consistent, Typed

----------------------------------------------------------------------------
(* The parts of statements.                                                *)

\* Deleting artifacts and, with them, their locations keeps the tables consistent.
LEMMA DropKeeps ==
  ASSUME NEW table, NEW rows, NEW gone, Consistent(table, rows), TypeOK,
         DropArtifacts(table, rows, gone), UNCHANGED jobs
  PROVE  Consistent(artifact, location)'
<1>1. \A a \in ArtifactId : artifact'[a] = IF a \in gone THEN NoArtifact ELSE table[a]
  BY DEF DropArtifacts
<1>2. \A f \in File : location'[f] = IF rows[f].state # "none" /\ rows[f].artifact \in gone
                                     THEN NoRow ELSE rows[f]
  BY DEF DropArtifacts
<1>3. Typed(table, rows) /\ Agreeing(table, rows) /\ Made(table) /\ Numbered(rows)
  BY DEF Consistent
<1>4. Typed(artifact, location)'
  BY <1>3 DEF DropArtifacts, Typed
<1>5. Agreeing(artifact, location)'
  <2> SUFFICES ASSUME NEW f \in File, location'[f].state # "none"
               PROVE  /\ location'[f].torrent \in {Torrent(f), NoTorrent}
                      /\ location'[f].artifact # Null
                           => /\ artifact'[location'[f].artifact].state = "active"
                              /\ location'[f].torrent = artifact'[location'[f].artifact].torrent
    BY DEF Agreeing
  <2>1. rows[f].state # "none" /\ rows[f].artifact \notin gone /\ location'[f] = rows[f]
    BY <1>2 DEF NoRow
  <2>2. rows[f].artifact \in 0..MaxArtifact
    BY <1>3, <2>1 DEF Typed, Row, NoRow
  <2>3. rows[f].artifact # Null => rows[f].artifact \in ArtifactId
    BY <2>2, CatalogAssumption DEF ArtifactId, Null
  <2> QED BY <1>1, <1>3, <2>1, <2>3 DEF Agreeing
<1>6. Made(artifact)'
  <2>1. \A a \in ArtifactId : artifact'[a].state = "active" => artifact'[a] = table[a]
    BY <1>1 DEF NoArtifact
  <2> QED BY <1>3, <2>1 DEF Made, Exists
<1>7. Numbered(location)'
  <2>1. \A f \in File : location'[f].state # "none" => location'[f] = rows[f]
    BY <1>2 DEF NoRow
  <2> QED BY <1>3, <2>1 DEF Numbered
<1> QED BY <1>4, <1>5, <1>6, <1>7 DEF Consistent

\* The artifact of a task that SaveTask and SaveScan use is one of its torrent.
LEMMA UpsertKeeps ==
  ASSUME Sound, NEW g \in Gid, Exists(g), NEW r \in Copy \cup {NoCopy},
         NEW d \in Copy \cup {NoCopy}, NEW a \in UpsertTarget(g)
  PROVE  /\ a \in ArtifactId
         /\ Consistent(Upserted(g, r, d, a), location)
         /\ Upserted(g, r, d, a)[a].state = "active"
         /\ Upserted(g, r, d, a)[a].torrent = InfoHash(g)
<1> DEFINE T == Upserted(g, r, d, a)
<1>0. /\ Typed(artifact, location) /\ Agreeing(artifact, location) /\ Made(artifact)
      /\ Numbered(location) /\ TypeOK /\ IdsUnique
  BY DEF Sound, Consistent
<1>1. jobs[g].id \in 1..MaxId /\ InfoHash(g) \in Hash
  BY <1>0 DEF TypeOK, Exists, Job, NoJob, Gid, InfoHash
<1>2. a \in ArtifactId
  BY DEF UpsertTarget, MadeBy
<1>3. CASE MadeBy(g) # {}
  <2>1. Recorded(a) /\ artifact[a].creator = jobs[g].id /\ artifact[a] \in Artifact
    BY <1>0, <1>2, <1>3 DEF UpsertTarget, MadeBy, Recorded, Typed, NoArtifact
  <2>2. artifact[a].torrent = InfoHash(g)
    <3>1. artifact[a].creator # Null
      BY <1>1, <2>1, TableAssumption DEF Null
    <3>2. PICK k \in Gid : /\ Exists(k) /\ jobs[k].id = artifact[a].creator
                           /\ InfoHash(k) = artifact[a].torrent
      BY <1>0, <1>2, <2>1, <3>1 DEF Made, Recorded
    <3>3. k = g
      BY <1>0, <2>1, <3>2 DEF IdsUnique
    <3> QED BY <3>2, <3>3
  <2>3. T = [artifact EXCEPT ![a] = [artifact[a] EXCEPT !.result = Given(r, artifact[a].result),
                                                        !.source = Given(d, artifact[a].source)]]
    BY <1>0, <1>2, <1>3, <2>1 DEF Upserted, Typed
  <2>a. T[a] = [artifact[a] EXCEPT !.result = Given(r, artifact[a].result),
                                   !.source = Given(d, artifact[a].source)]
    BY <1>0, <1>2, <2>3 DEF Typed
  <2>b. Given(r, artifact[a].result) \in Copy \cup {NoCopy} /\ Given(d, artifact[a].source) \in Copy \cup {NoCopy}
    BY <2>1 DEF Artifact, Given
  <2>4. /\ T[a] \in Artifact /\ T[a].state = "active" /\ T[a].torrent = artifact[a].torrent
        /\ T[a].creator = artifact[a].creator
    <3> HIDE DEF T
    <3> QED BY <2>1, <2>a, <2>b DEF Artifact
  <2>5. \A b \in ArtifactId : b # a => T[b] = artifact[b]
    BY <1>0, <1>2, <2>3 DEF Typed
  <2>6. Typed(T, location)
    BY <1>0, <1>2, <2>3, <2>4 DEF Typed
  <2>7. \A b \in ArtifactId : /\ T[b].state = "active" <=> artifact[b].state = "active"
                              /\ T[b].state = "active" =>
                                   /\ T[b].torrent = artifact[b].torrent
                                   /\ T[b].creator = artifact[b].creator
    BY <2>1, <2>4, <2>5 DEF Recorded
  <2>8. \A f \in File : location[f].state # "none" /\ location[f].artifact # Null
          => location[f].artifact \in ArtifactId
    BY <1>0, CatalogAssumption DEF Typed, Row, NoRow, ArtifactId, Null
  <2>9. Agreeing(T, location)
    BY <1>0, <2>7, <2>8 DEF Agreeing
  <2>10. Made(T)
    BY <1>0, <2>7 DEF Made
  <2> QED BY <1>0, <1>2, <2>2, <2>4, <2>6, <2>9, <2>10 DEF Consistent
<1>4. CASE MadeBy(g) = {}
  <2> DEFINE R == [state |-> "active", torrent |-> InfoHash(g), creator |-> jobs[g].id,
                   result |-> r, source |-> d, old |-> FALSE]
  <2>1. IsNextArtifact(a) /\ T = [artifact EXCEPT ![a] = R]
    BY <1>4 DEF UpsertTarget, Upserted
  <2>2. R \in Artifact
    BY <1>1 DEF Artifact
  <2>3. ~Recorded(a)
    BY <1>2, <2>1 DEF IsNextArtifact, ArtifactId
  <2>4. Typed(T, location)
    BY <1>0, <1>2, <2>1, <2>2 DEF Typed
  <2>5. T[a] = R /\ \A b \in ArtifactId : b # a => T[b] = artifact[b]
    BY <1>0, <1>2, <2>1 DEF Typed
  <2>6. \A f \in File : location[f].state # "none" /\ location[f].artifact # Null
          => location[f].artifact \in ArtifactId
    BY <1>0, CatalogAssumption DEF Typed, Row, NoRow, ArtifactId, Null
  <2>7. Agreeing(T, location)
    <3> SUFFICES ASSUME NEW f \in File, location[f].state # "none"
                 PROVE  /\ location[f].torrent \in {Torrent(f), NoTorrent}
                        /\ location[f].artifact # Null
                             => /\ T[location[f].artifact].state = "active"
                                /\ location[f].torrent = T[location[f].artifact].torrent
      BY DEF Agreeing
    <3>1. location[f].artifact # Null => location[f].artifact # a
      BY <1>0, <2>3 DEF Agreeing, Recorded
    <3> HIDE DEF T
    <3> QED BY <1>0, <2>5, <2>6, <3>1 DEF Agreeing
  <2>8. \A b \in ArtifactId : artifact[b].state = "active" => artifact[b].creator # jobs[g].id
    BY <1>4 DEF MadeBy, Recorded
  <2>9. Made(T)
    BY <1>0, <1>2, <2>5, <2>8 DEF Made
  <2> QED BY <1>0, <1>2, <2>4, <2>5, <2>7, <2>9 DEF Consistent
<1> QED BY <1>3, <1>4

\* Giving the files of one torrent live rows, of an artifact of that torrent,
\* keeps the tables consistent.
LEMMA ReplacedKeeps ==
  ASSUME NEW table, Consistent(table, location), NEW S \in SUBSET File, NEW h \in Hash,
         \A f \in S : Torrent(f) = h,
         NEW a \in 0..MaxArtifact,
         a # Null => table[a].state = "active" /\ table[a].torrent = h,
         NEW num \in NewIds({f \in S : ~Saved(f)})
  PROVE  Consistent(table, Replaced(S, h, a, num))
<1> DEFINE L == Replaced(S, h, a, num)
<1>0. Typed(table, location) /\ Agreeing(table, location) /\ Made(table) /\ Numbered(location)
  BY DEF Consistent
<1>1. /\ num \in [{f \in S : ~Saved(f)} -> 1..MaxRow]
      /\ \A f \in S, k \in File : ~Saved(f) /\ Saved(k) => location[k].id < num[f]
      /\ \A f, k \in S : ~Saved(f) /\ ~Saved(k) /\ num[f] = num[k] => f = k
  BY DEF NewIds
<1>2. \A f \in S : L[f] = [state |-> "live", id |-> IF Saved(f) THEN location[f].id ELSE num[f],
                           torrent |-> h, artifact |-> a]
  BY DEF Replaced
<1>a. \A f \in S : /\ L[f].state = "live" /\ L[f].torrent = h /\ L[f].artifact = a
                   /\ L[f].id = IF Saved(f) THEN location[f].id ELSE num[f]
  <2> TAKE f \in S
  <2> DEFINE i == IF Saved(f) THEN location[f].id ELSE num[f]
  <2>1. L[f] = [state |-> "live", id |-> i, torrent |-> h, artifact |-> a]
    BY <1>2
  <2>2. i = IF Saved(f) THEN location[f].id ELSE num[f]
    OBVIOUS
  <2> HIDE DEF L, i
  <2> QED BY <2>1, <2>2
<1>b. DOMAIN L = File /\ L = [f \in File |-> L[f]]
  BY DEF Replaced
<1>3. \A f \in File \ S : \/ L[f] = location[f]
                          \/ Live(f) /\ L[f] = [location[f] EXCEPT !.state = "deleted"]
  <2> TAKE f \in File \ S
  <2>1. L[f] = IF /\ Live(f) /\ location[f].torrent \in {h, NoTorrent}
                 /\ ContentOf(f) \in {ContentOf(k) : k \in S}
              THEN [location[f] EXCEPT !.state = "deleted"] ELSE location[f]
    BY DEF Replaced
  <2> HIDE DEF L
  <2> QED BY <2>1
<1> HIDE DEF L
<1>4. \A f \in File : Saved(f) => location[f] \in Row
  BY <1>0 DEF Typed, Saved, NoRow
<1>5. \A f \in File \ S : L[f].state # "none"
        => /\ Saved(f) /\ L[f].id = location[f].id /\ L[f].torrent = location[f].torrent
           /\ L[f].artifact = location[f].artifact /\ L[f] \in Row
  <2> TAKE f \in File \ S
  <2> HAVE L[f].state # "none"
  <2>1. Saved(f)
    BY <1>3 DEF Live, Saved
  <2> QED BY <1>3, <1>4, <2>1 DEF Row
<1>6. \A f \in S : L[f] \in Row
  <2> TAKE f \in S
  <2> DEFINE i == IF Saved(f) THEN location[f].id ELSE num[f]
  <2>1. i \in 1..MaxRow
    BY <1>1, <1>4 DEF Row
  <2>2. L[f] = [state |-> "live", id |-> i, torrent |-> h, artifact |-> a]
    BY <1>2
  <2> HIDE DEF i
  <2> QED BY <2>1, <2>2 DEF Row
<1>7. L \in [File -> Row \cup {NoRow}]
  <2>1. \A f \in File \ S : L[f].state # "none" \/ L[f] = NoRow
    <3> TAKE f \in File \ S
    <3>1. CASE L[f] = location[f]
      BY <1>0, <1>4, <3>1 DEF Typed, NoRow, Row
    <3>2. CASE Live(f) /\ L[f] = [location[f] EXCEPT !.state = "deleted"]
      <4>1. location[f] \in Row
        BY <1>4, <3>2 DEF Live, Saved
      <4>2. L[f] \in Row
        BY <4>1, <3>2 DEF Row
      <4> QED BY <4>2 DEF Row
    <3> QED BY <1>3, <3>1, <3>2
  <2>2. \A f \in File : L[f] \in Row \cup {NoRow}
    BY <1>5, <1>6, <2>1
  <2> QED BY <1>b, <2>2
<1>8. Agreeing(table, L)
  <2> SUFFICES ASSUME NEW f \in File, L[f].state # "none"
               PROVE  /\ L[f].torrent \in {Torrent(f), NoTorrent}
                      /\ L[f].artifact # Null
                           => /\ table[L[f].artifact].state = "active"
                              /\ L[f].torrent = table[L[f].artifact].torrent
    BY DEF Agreeing
  <2>1. CASE f \in S
    <3>1. L[f].torrent = h /\ L[f].artifact = a /\ Torrent(f) = h
      BY <1>a, <2>1
    <3> QED BY <3>1
  <2>2. CASE f \notin S
    <3>1. /\ Saved(f) /\ L[f].torrent = location[f].torrent
          /\ L[f].artifact = location[f].artifact
      BY <1>5, <2>2
    <3> QED BY <1>0, <3>1 DEF Agreeing, Saved
  <2> QED BY <2>1, <2>2
<1>9. Numbered(L)
  <2> SUFFICES ASSUME NEW f \in File, NEW k \in File, L[f].state # "none", L[k].state # "none",
                      L[f].id = L[k].id
               PROVE  f = k
    BY DEF Numbered
  <2>1. \A x \in File : L[x].state # "none" => L[x].id = IF Saved(x) THEN location[x].id ELSE num[x]
    BY <1>a, <1>5
  <2>2. \A x \in File : L[x].state # "none" => Saved(x) \/ x \in S
    BY <1>5
  <2>3. CASE Saved(f) /\ Saved(k)
    BY <1>0, <2>1, <2>3 DEF Numbered, Saved
  <2>4. CASE ~Saved(f) /\ ~Saved(k)
    BY <1>1, <2>1, <2>2, <2>4
  <2>5. CASE Saved(f) /\ ~Saved(k)
    <3>1. location[f].id < num[k] /\ location[f].id \in Nat /\ num[k] \in Nat
      BY <1>1, <1>4, <2>2, <2>5, CatalogAssumption DEF Row
    <3> QED BY <2>1, <2>5, <3>1
  <2>6. CASE ~Saved(f) /\ Saved(k)
    <3>1. location[k].id < num[f] /\ location[k].id \in Nat /\ num[f] \in Nat
      BY <1>1, <1>4, <2>2, <2>6, CatalogAssumption DEF Row
    <3> QED BY <2>1, <2>6, <3>1
  <2> QED BY <2>3, <2>4, <2>5, <2>6
<1> QED BY <1>0, <1>7, <1>8, <1>9 DEF Consistent, Typed, L

\* Marking rows deleted, or live again, keeps the tables consistent.
LEMMA MarkKeeps ==
  ASSUME NEW rows, Consistent(artifact, location), rows \in [File -> Row \cup {NoRow}],
         \A f \in File : rows[f].state # "none" =>
           /\ Saved(f) /\ rows[f].id = location[f].id
           /\ rows[f].torrent = location[f].torrent /\ rows[f].artifact = location[f].artifact
  PROVE  Consistent(artifact, rows)
<1>1. Agreeing(artifact, rows)
  BY DEF Consistent, Agreeing, Saved
<1>2. Numbered(rows)
  BY DEF Consistent, Numbered, Saved
<1> QED BY <1>1, <1>2 DEF Consistent, Typed

----------------------------------------------------------------------------
(* The statements.                                                         *)

\* A statement of the catalog leaves the tasks table alone: it is enough that
\* it keeps the two tables consistent.
LEMMA SoundIfConsistent ==
  ASSUME Sound, UNCHANGED jobs, listed' \in [Hash -> SUBSET Content],
         Consistent(artifact, location)'
  PROVE  Sound'
BY DEF Sound, TypeOK, IdsUnique, Exists

LEMMA Assigned ==
  ASSUME NEW table, NEW rows, Consistent(table, rows),
         artifact' = table, location' = rows, UNCHANGED jobs
  PROVE  Consistent(artifact, location)'
BY DEF Consistent, Typed, Agreeing, Made, Numbered, Exists

LEMMA SaveTaskSound ==
  ASSUME Sound, NEW g \in Gid, NEW r \in Copy \cup {NoCopy}, NEW d \in Copy \cup {NoCopy},
         SaveTask(g, r, d)
  PROVE  Sound'
<1>1. PICK a \in UpsertTarget(g) : artifact' = Upserted(g, r, d, a)
  BY DEF SaveTask
<1>2. Consistent(Upserted(g, r, d, a), location)
  BY UpsertKeeps DEF SaveTask
<1>3. Consistent(artifact, location)'
  BY <1>1, <1>2, Assigned DEF SaveTask
<1> QED BY <1>3, SoundIfConsistent DEF SaveTask, Sound

LEMMA SaveScanSound ==
  ASSUME Sound, NEW g \in Gid, NEW r \in Copy, NEW d \in Copy \cup {NoCopy},
         NEW S \in SUBSET File, \A f \in S : Torrent(f) = InfoHash(g),
         SaveScan(g, r, d, S)
  PROVE  Sound'
<1> DEFINE h == InfoHash(g)
<1>1. PICK a \in UpsertTarget(g), num \in NewIds({f \in S : ~Saved(f)}) :
        DropArtifacts(Upserted(g, r, d, a), Replaced(S, h, a, num),
                      Leftover(Upserted(g, r, d, a), Replaced(S, h, a, num), h, a))
  BY DEF SaveScan
<1> DEFINE table == Upserted(g, r, d, a)
           rows  == Replaced(S, h, a, num)
<1>2. /\ a \in ArtifactId /\ Consistent(table, location)
      /\ table[a].state = "active" /\ table[a].torrent = h
  BY UpsertKeeps DEF SaveScan
<1>3. h \in Hash
  BY DEF Gid, InfoHash
<1>4. a \in 0..MaxArtifact
  BY <1>2, CatalogAssumption DEF ArtifactId
<1> HIDE DEF table
<1>5. Consistent(table, rows)
  BY <1>2, <1>3, <1>4, ReplacedKeeps
<1>6. Consistent(artifact, location)'
  BY <1>1, <1>5, DropKeeps DEF SaveScan, Sound, table
<1>7. listed' \in [Hash -> SUBSET Content]
  <2>1. {ContentOf(f) : f \in S} \in SUBSET Content
    BY DEF ContentOf, File
  <2> QED BY <1>3, <2>1 DEF SaveScan, Sound
<1> QED BY <1>6, <1>7, SoundIfConsistent DEF SaveScan

LEMMA SaveRestoredSound ==
  ASSUME Sound, NEW f \in File, SaveRestored(f, Torrent(f))
  PROVE  Sound'
<1> DEFINE h == Torrent(f)
           kept == IF Saved(f) THEN location[f].artifact ELSE Null
           a == IF LatestArtifact(h) = {} THEN kept ELSE CHOOSE b \in LatestArtifact(h) : TRUE
<1>0. Typed(artifact, location) /\ Agreeing(artifact, location)
  BY DEF Sound, Consistent
<1>1. PICK num \in NewIds({f} \ {k \in File : Saved(k)}) : location' = Replaced({f}, h, a, num)
  BY DEF SaveRestored
<1>2. h \in Hash
  BY DEF Torrent, File, Copy
<1>3. {f} \ {k \in File : Saved(k)} = {k \in {f} : ~Saved(k)}
  OBVIOUS
<1>4. a \in 0..MaxArtifact /\ (a # Null => Recorded(a) /\ artifact[a].torrent = h)
  <2>1. CASE LatestArtifact(h) = {}
    <3>1. a = kept
      BY <2>1
    <3>2. CASE Saved(f)
      <4>1. location[f].artifact \in 0..MaxArtifact
        BY <1>0, <3>2 DEF Typed, Saved, Row, NoRow
      <4>2. location[f].artifact # Null => location[f].artifact \in ArtifactId
        BY <4>1, CatalogAssumption DEF Null, ArtifactId
      <4>3. location[f].artifact # Null =>
              /\ Recorded(location[f].artifact)
              /\ artifact[location[f].artifact].torrent \in {h, NoTorrent}
        BY <1>0, <3>2 DEF Agreeing, Saved, Recorded
      <4>4. \A b \in ArtifactId : Recorded(b) => artifact[b].torrent \in Hash
        BY <1>0 DEF Typed, Recorded, Artifact, NoArtifact
      <4> QED BY <3>1, <3>2, <4>1, <4>2, <4>3, <4>4, CatalogAssumption
    <3>3. CASE ~Saved(f)
      <4>1. a = Null
        BY <3>1, <3>3
      <4> HIDE DEF a
      <4> QED BY <4>1, CatalogAssumption DEF Null
    <3> QED BY <3>2, <3>3
  <2>2. CASE LatestArtifact(h) # {}
    <3>1. a \in LatestArtifact(h)
      BY <2>2
    <3> HIDE DEF a, h
    <3> QED BY <3>1, CatalogAssumption DEF LatestArtifact, ArtifactId
  <2> QED BY <2>1, <2>2
<1>a. UNCHANGED <<jobs, artifact, listed>>
  BY DEF SaveRestored
<1> HIDE DEF a, h
<1>5. Consistent(artifact, Replaced({f}, h, a, num))
  <2>1. num \in NewIds({k \in {f} : ~Saved(k)})
    BY <1>3
  <2>2. \A k \in {f} : Torrent(k) = h
    BY DEF h
  <2>3. a # Null => artifact[a].state = "active" /\ artifact[a].torrent = h
    BY <1>4 DEF Recorded
  <2> QED BY <1>2, <1>4, <2>1, <2>2, <2>3, ReplacedKeeps DEF Sound
<1>6. Consistent(artifact, location)'
  BY <1>1, <1>5, <1>a, Assigned
<1> QED BY <1>6, <1>a, SoundIfConsistent DEF Sound

LEMMA SaveFoundSound ==
  ASSUME Sound, NEW f \in File, SaveFound(f)
  PROVE  Sound'
<1>0. Typed(artifact, location) /\ Agreeing(artifact, location) /\ Numbered(location)
  BY DEF Sound, Consistent
<1>1. PICK num \in NewIds({f} \ {k \in File : Saved(k)}) :
        location' = [location EXCEPT ![f] =
          IF Saved(f) THEN [@ EXCEPT !.state = "live"]
          ELSE [state |-> "live", id |-> num[f], torrent |-> NoTorrent, artifact |-> Null]]
  BY DEF SaveFound
<1>2. UNCHANGED <<jobs, artifact, listed>>
  BY DEF SaveFound
<1>3. CASE Saved(f)
  <2>1. location' = [location EXCEPT ![f] = [location[f] EXCEPT !.state = "live"]]
    BY <1>0, <1>1, <1>3 DEF Typed
  <2>2. location[f] \in Row
    BY <1>0, <1>3 DEF Typed, Saved, NoRow
  <2>3. [location[f] EXCEPT !.state = "live"] \in Row
    BY <2>2 DEF Row
  <2>4. location' \in [File -> Row \cup {NoRow}]
    BY <1>0, <2>1, <2>3 DEF Typed
  <2>5. \A k \in File : location'[k].state # "none" =>
          /\ Saved(k) /\ location'[k].id = location[k].id
          /\ location'[k].torrent = location[k].torrent
          /\ location'[k].artifact = location[k].artifact
    <3> TAKE k \in File
    <3>1. CASE k = f
      BY <1>0, <1>3, <2>1, <2>2, <3>1 DEF Typed, Row
    <3>2. CASE k # f
      BY <1>0, <2>1, <3>2 DEF Typed, Saved
    <3> QED BY <3>1, <3>2
  <2>6. Consistent(artifact, location')
    BY <2>4, <2>5, MarkKeeps DEF Sound
  <2>7. Consistent(artifact, location)'
    BY <1>2, <2>6, Assigned
  <2> QED BY <1>2, <2>7, SoundIfConsistent DEF Sound
<1>4. CASE ~Saved(f)
  <2> DEFINE R == [state |-> "live", id |-> num[f], torrent |-> NoTorrent, artifact |-> Null]
  <2>1. location' = [location EXCEPT ![f] = R]
    BY <1>0, <1>1, <1>4 DEF Typed
  <2>2. num[f] \in 1..MaxRow /\ \A k \in File : Saved(k) => location[k].id < num[f]
    BY <1>4 DEF NewIds
  <2>3. R \in Row
    BY <2>2, CatalogAssumption DEF Row, Null
  <2>4. location'[f] = R /\ \A k \in File : k # f => location'[k] = location[k]
    BY <1>0, <2>1 DEF Typed
  <2>5. Typed(artifact, location')
    BY <1>0, <2>1, <2>3 DEF Typed
  <2>6. Agreeing(artifact, location')
    <3> SUFFICES ASSUME NEW k \in File, location'[k].state # "none"
                 PROVE  /\ location'[k].torrent \in {Torrent(k), NoTorrent}
                        /\ location'[k].artifact # Null
                             => /\ artifact[location'[k].artifact].state = "active"
                                /\ location'[k].torrent
                                     = artifact[location'[k].artifact].torrent
      BY DEF Agreeing
    <3>1. CASE k = f
      BY <2>4, <3>1
    <3>2. CASE k # f
      BY <1>0, <2>4, <3>2 DEF Agreeing
    <3> QED BY <3>1, <3>2
  <2>7. Numbered(location')
    <3> SUFFICES ASSUME NEW k \in File, NEW l \in File, location'[k].state # "none",
                        location'[l].state # "none", location'[k].id = location'[l].id
                 PROVE  k = l
      BY DEF Numbered
    <3>1. \A x \in File : Saved(x) => location[x].id \in Nat /\ location[x].id # num[f]
      BY <1>0, <2>2, CatalogAssumption DEF Typed, Saved, Row, NoRow
    <3>2. location'[f].id = num[f]
      BY <2>4
    <3>3. CASE k # f /\ l # f
      BY <1>0, <2>4, <3>3 DEF Numbered
    <3>4. CASE k = f /\ l # f
      BY <2>4, <3>1, <3>2, <3>4 DEF Saved
    <3>5. CASE k # f /\ l = f
      BY <2>4, <3>1, <3>2, <3>5 DEF Saved
    <3> QED BY <3>3, <3>4, <3>5
  <2>8. Consistent(artifact, location')
    BY <2>5, <2>6, <2>7 DEF Sound, Consistent
  <2>9. Consistent(artifact, location)'
    BY <1>2, <2>8, Assigned
  <2> QED BY <1>2, <2>9, SoundIfConsistent DEF Sound
<1> QED BY <1>3, <1>4

LEMMA MarkLocationDeletedSound ==
  ASSUME Sound, NEW n, MarkLocationDeleted(n)
  PROVE  Sound'
<1> DEFINE named == {f \in File : Saved(f) /\ location[f].id = n}
           rows == [f \in File |-> IF f \in named THEN [location[f] EXCEPT !.state = "deleted"]
                                   ELSE location[f]]
<1>0. Typed(artifact, location)
  BY DEF Sound, Consistent
<1>1. PICK gone : DropArtifacts(artifact, rows, gone)
  BY DEF MarkLocationDeleted
<1>2. \A f \in File : \/ rows[f] = location[f]
                      \/ Saved(f) /\ rows[f] = [location[f] EXCEPT !.state = "deleted"]
  <2> TAKE f \in File
  <2>1. rows[f] = IF f \in named THEN [location[f] EXCEPT !.state = "deleted"] ELSE location[f]
    OBVIOUS
  <2>2. f \in named => Saved(f)
    OBVIOUS
  <2> HIDE DEF rows, named
  <2> QED BY <2>1, <2>2
<1>3. rows = [f \in File |-> rows[f]]
  OBVIOUS
<1> HIDE DEF rows
<1>4. \A f \in File : /\ rows[f] \in Row \cup {NoRow}
                      /\ rows[f].state # "none" =>
                           /\ Saved(f) /\ rows[f].id = location[f].id
                           /\ rows[f].torrent = location[f].torrent
                           /\ rows[f].artifact = location[f].artifact
  <2> TAKE f \in File
  <2>1. CASE rows[f] = location[f]
    BY <1>0, <2>1 DEF Typed, Saved
  <2>2. CASE Saved(f) /\ rows[f] = [location[f] EXCEPT !.state = "deleted"]
    <3>1. location[f] \in Row
      BY <1>0, <2>2 DEF Typed, Saved, NoRow
    <3> QED BY <2>2, <3>1 DEF Row
  <2> QED BY <1>2, <2>1, <2>2
<1>5. Consistent(artifact, rows)
  BY <1>3, <1>4, MarkKeeps DEF Sound
<1> QED BY <1>1, <1>5, DropKeeps, SoundIfConsistent DEF MarkLocationDeleted, Sound

LEMMA DropSound ==
  ASSUME Sound, NEW gone, DropArtifacts(artifact, location, gone), UNCHANGED <<jobs, listed>>
  PROVE  Sound'
BY DropKeeps, SoundIfConsistent DEF Sound

\* A change of artifacts that keeps which exist, their torrent and their task.
LEMMA RenewKeeps ==
  ASSUME Sound, NEW table, table \in [ArtifactId -> Artifact \cup {NoArtifact}],
         \A a \in ArtifactId : /\ table[a].state = "active" <=> Recorded(a)
                               /\ Recorded(a) => /\ table[a].torrent = artifact[a].torrent
                                                 /\ table[a].creator = artifact[a].creator
  PROVE  Consistent(table, location)
<1>0. Typed(artifact, location) /\ Agreeing(artifact, location) /\ Made(artifact)
  BY DEF Sound, Consistent
<1>1. \A f \in File : location[f].state # "none" /\ location[f].artifact # Null
        => location[f].artifact \in ArtifactId
  BY <1>0, CatalogAssumption DEF Typed, Row, NoRow, ArtifactId, Null
<1>2. Agreeing(table, location)
  BY <1>0, <1>1 DEF Agreeing, Recorded
<1>3. Made(table)
  BY <1>0 DEF Made, Recorded
<1> QED BY <1>0, <1>2, <1>3 DEF Sound, Consistent, Typed

LEMMA TouchAssetSound ==
  ASSUME Sound, NEW c \in Content, TouchAsset(c)
  PROVE  Sound'
<1>0. Typed(artifact, location) /\ UNCHANGED <<jobs, location, listed>>
  BY DEF Sound, Consistent, TouchAsset
<1>1. artifact' = [a \in ArtifactId |-> artifact'[a]]
  BY DEF TouchAsset
<1>2. \A a \in ArtifactId : \/ artifact'[a] = artifact[a]
                            \/ Recorded(a) /\ artifact'[a] = [artifact[a] EXCEPT !.old = FALSE]
  BY DEF TouchAsset
<1>3. \A a \in ArtifactId :
        /\ artifact'[a] \in Artifact \cup {NoArtifact}
        /\ artifact'[a].state = "active" <=> Recorded(a)
        /\ Recorded(a) => /\ artifact'[a].torrent = artifact[a].torrent
                          /\ artifact'[a].creator = artifact[a].creator
  <2> TAKE a \in ArtifactId
  <2>1. CASE artifact'[a] = artifact[a]
    BY <1>0, <2>1 DEF Typed, Recorded
  <2>2. CASE Recorded(a) /\ artifact'[a] = [artifact[a] EXCEPT !.old = FALSE]
    <3>1. artifact[a] \in Artifact
      BY <1>0, <2>2 DEF Typed, Recorded, NoArtifact
    <3> QED BY <2>2, <3>1 DEF Artifact, Recorded
  <2> QED BY <1>2, <2>1, <2>2
<1>4. Consistent(artifact', location)
  BY <1>1, <1>3, RenewKeeps
<1> QED BY <1>0, <1>4, Assigned, SoundIfConsistent DEF Sound

LEMMA AgeSound ==
  ASSUME Sound, NEW a \in ArtifactId, Age(a)
  PROVE  Sound'
<1>0. Typed(artifact, location) /\ UNCHANGED <<jobs, location, listed>>
  BY DEF Sound, Consistent, Age
<1>1. artifact[a] \in Artifact
  BY <1>0 DEF Typed, Age, Recorded, NoArtifact
<1>2. artifact' = [artifact EXCEPT ![a] = [artifact[a] EXCEPT !.old = TRUE]]
  BY <1>0 DEF Age, Typed
<1>3. [artifact[a] EXCEPT !.old = TRUE] \in Artifact
  BY <1>1 DEF Artifact
<1>4. artifact' \in [ArtifactId -> Artifact \cup {NoArtifact}]
  BY <1>0, <1>2, <1>3 DEF Typed
<1>5. /\ artifact'[a] = [artifact[a] EXCEPT !.old = TRUE]
      /\ \A b \in ArtifactId : b # a => artifact'[b] = artifact[b]
  BY <1>0, <1>2 DEF Typed
<1>6. \A b \in ArtifactId :
        /\ artifact'[b].state = "active" <=> Recorded(b)
        /\ Recorded(b) => /\ artifact'[b].torrent = artifact[b].torrent
                          /\ artifact'[b].creator = artifact[b].creator
  BY <1>1, <1>5 DEF Recorded, Artifact
<1>7. Consistent(artifact', location)
  BY <1>4, <1>6, RenewKeeps
<1> QED BY <1>0, <1>7, Assigned, SoundIfConsistent DEF Sound

\* A row that stays in the tasks table keeps its id.
LEMMA IdsStay ==
  ASSUME TypeOK, [Next]_jobs, NEW g \in Gid, Exists(g), Exists(g)'
  PROVE  jobs'[g].id = jobs[g].id
<1> USE DEF TypeOK, Exists
<1>1. ASSUME NEW x \in Gid, NEW s \in Source, CreateJob(x, s) PROVE jobs'[g].id = jobs[g].id
  BY <1>1 DEF CreateJob, CreateRefused
<1>2. ASSUME NEW x \in Gid, NEW st \in JobState, UpdateJob(x, st)
      PROVE  jobs'[g].id = jobs[g].id
  <2>1. jobs' = [jobs EXCEPT ![x] = [jobs[x] EXCEPT !.state = st]] /\ Exists(x)
    BY <1>2 DEF UpdateJob, UpdateOutcome
  <2>2. jobs[x] \in Job
    BY <2>1 DEF NoJob
  <2> QED BY <2>1, <2>2 DEF Job
<1>3. ASSUME NEW x \in Gid, CancelJob(x) PROVE jobs'[g].id = jobs[g].id
  <2>1. jobs' = [jobs EXCEPT ![x] = [jobs[x] EXCEPT !.state = "canceled"]]
    BY <1>3 DEF CancelJob
  <2>2. jobs[g] \in Job
    BY DEF NoJob
  <2> QED BY <2>1, <2>2 DEF Job
<1>4. ASSUME NEW x \in Gid, DeleteJob(x) \/ DeleteJobAny(x) PROVE jobs'[g].id = jobs[g].id
  BY <1>4 DEF DeleteJob, DeleteJobAny, NoJob
<1>5. ASSUME NEW S \in SUBSET Source, RecoverRunningJobs(S) PROVE jobs'[g].id = jobs[g].id
  <2>1. jobs[g] \in Job
    BY DEF NoJob
  <2>2. jobs'[g] = jobs[g] \/ jobs'[g] = [jobs[g] EXCEPT !.state = "queued"]
    BY <1>5 DEF RecoverRunningJobs, Recovered
  <2> QED BY <2>1, <2>2 DEF Job
<1>6. CASE UNCHANGED jobs
  BY <1>6
<1> QED BY <1>1, <1>2, <1>3, <1>4, <1>5, <1>6 DEF Next

LEMMA TableStepSound ==
  ASSUME Sound, Next, \A g \in Gid : Exists(g) => Exists(g)', UNCHANGED catalog
  PROVE  Sound'
<1>0. TypeOK /\ IdsUnique /\ Made(artifact) /\ UNCHANGED <<artifact, location, listed>>
  BY DEF Sound, Consistent, catalog
<1>1. TypeOK' /\ IdsUnique'
  BY <1>0, TypeStep, IdsStep
<1>2. \A g \in Gid : Exists(g) => Exists(g)' /\ jobs'[g].id = jobs[g].id
  BY <1>0, IdsStay
<1>3. Made(artifact)'
  BY <1>0, <1>2 DEF Made
<1> QED BY <1>0, <1>1, <1>3 DEF Sound, Consistent, Typed, Agreeing, Numbered

\* The artifacts of a deleted task name no task any more.
LEMMA DeleteRowSound ==
  ASSUME Sound, NEW g \in Gid, DeleteRow(g)
  PROVE  Sound'
<1>0. /\ TypeOK /\ IdsUnique /\ Typed(artifact, location) /\ Agreeing(artifact, location)
      /\ Made(artifact) /\ UNCHANGED <<location, listed>>
  BY DEF Sound, Consistent, DeleteRow
<1>1. Exists(g) /\ jobs' = [jobs EXCEPT ![g] = NoJob]
  BY DEF DeleteRow, DeleteJob, DeleteJobAny, Deletable, Exists, State
<1>2. [Next]_jobs
  BY DEF DeleteRow, Next
<1>3. TypeOK' /\ IdsUnique'
  BY <1>0, <1>2, TypeStep, IdsStep
<1>4. artifact' = [a \in ArtifactId |-> artifact'[a]]
  BY DEF DeleteRow, Forget
<1>5. \A a \in ArtifactId :
        IF Recorded(a) /\ artifact[a].creator # Null /\ jobs[g].id = artifact[a].creator
        THEN artifact'[a] = [artifact[a] EXCEPT !.creator = Null]
        ELSE artifact'[a] = artifact[a]
  BY <1>1 DEF DeleteRow, Forget
<1>6. \A a \in ArtifactId :
        /\ artifact'[a] \in Artifact \cup {NoArtifact}
        /\ artifact'[a].state = "active" <=> Recorded(a)
        /\ Recorded(a) => /\ artifact'[a].torrent = artifact[a].torrent
                          /\ artifact'[a].creator # Null =>
                               /\ artifact'[a].creator = artifact[a].creator
                               /\ jobs[g].id # artifact[a].creator
  <2> TAKE a \in ArtifactId
  <2>1. CASE Recorded(a) /\ artifact[a].creator # Null /\ jobs[g].id = artifact[a].creator
    <3>1. artifact[a] \in Artifact /\ artifact'[a] = [artifact[a] EXCEPT !.creator = Null]
      BY <1>0, <1>5, <2>1 DEF Typed, Recorded, NoArtifact
    <3> QED BY <3>1, TableAssumption DEF Artifact, Null, Recorded
  <2>2. CASE ~(Recorded(a) /\ artifact[a].creator # Null /\ jobs[g].id = artifact[a].creator)
    BY <1>0, <1>5, <2>2 DEF Typed, Recorded
  <2> QED BY <2>1, <2>2
<1>7. Typed(artifact, location)'
  BY <1>0, <1>4, <1>6 DEF Typed
<1>8. Agreeing(artifact, location)'
  <2>1. \A f \in File : location[f].state # "none" /\ location[f].artifact # Null
          => location[f].artifact \in ArtifactId
    BY <1>0, CatalogAssumption DEF Typed, Row, NoRow, ArtifactId, Null
  <2> QED BY <1>0, <1>6, <2>1 DEF Agreeing, Recorded
<1>9. Made(artifact)'
  <2>1. \A k \in Gid : Exists(k) /\ k # g => Exists(k)' /\ jobs'[k] = jobs[k]
    BY <1>0, <1>1 DEF Exists, TypeOK
  <2> QED BY <1>0, <1>6, <2>1 DEF Made, Recorded
<1> QED BY <1>0, <1>3, <1>7, <1>8, <1>9 DEF Sound, Consistent, Numbered

----------------------------------------------------------------------------
LEMMA SoundInit == CatInit => Sound
<1> SUFFICES ASSUME CatInit PROVE Sound
  OBVIOUS
<1>1. TypeOK /\ IdsUnique
  BY TypeInit DEF CatInit, Init, IdsUnique, Exists, NoJob
<1>2. \A a \in ArtifactId : artifact[a].state = "none"
  BY DEF CatInit, NoArtifact
<1>3. \A f \in File : location[f].state = "none"
  BY DEF CatInit, NoRow
<1>4. Typed(artifact, location) /\ listed \in [Hash -> SUBSET Content]
  BY DEF CatInit, Typed
<1>5. Consistent(artifact, location)
  BY <1>2, <1>3, <1>4 DEF Consistent, Agreeing, Made, Numbered
<1> QED BY <1>1, <1>4, <1>5 DEF Sound

LEMMA SoundStep == Sound /\ [CatNext]_catVars => Sound'
<1> SUFFICES ASSUME Sound, [CatNext]_catVars PROVE Sound'
  OBVIOUS
<1>1. CASE Next /\ (\A g \in Gid : Exists(g) => Exists(g)') /\ UNCHANGED catalog
  BY <1>1, TableStepSound
<1>2. ASSUME NEW g \in Gid, DeleteRow(g) PROVE Sound'
  BY <1>2, DeleteRowSound
<1>a. \A g \in Gid : /\ InfoHash(g) \in Hash
                     /\ Folders(InfoHash(g)) \subseteq Copy \cup {NoCopy}
  BY DEF Gid, InfoHash, Folders, Copy
<1>3. ASSUME NEW g \in Gid, NEW r \in Folders(InfoHash(g)), NEW d \in Folders(InfoHash(g)),
             SaveTask(g, r, d)
      PROVE  Sound'
  BY <1>3, <1>a, SaveTaskSound
<1>4. ASSUME NEW g \in Gid, NEW n \in 1..MaxCopy, NEW S \in Scanned(<<InfoHash(g), n>>),
             NEW d \in Folders(InfoHash(g)), SaveScan(g, <<InfoHash(g), n>>, d, S)
      PROVE  Sound'
  <2>1. <<InfoHash(g), n>> \in Copy
    BY <1>a DEF Copy
  <2>2. S \in SUBSET File /\ \A f \in S : Torrent(f) = InfoHash(g)
    BY DEF Scanned, Torrent
  <2> QED BY <1>4, <1>a, <2>1, <2>2, SaveScanSound
<1>5. ASSUME NEW f \in File, SaveRestored(f, Torrent(f)) \/ SaveFound(f) PROVE Sound'
  BY <1>5, SaveRestoredSound, SaveFoundSound
<1>6. ASSUME NEW n \in 1..MaxRow, MarkLocationDeleted(n) PROVE Sound'
  BY <1>6, MarkLocationDeletedSound
<1>7. ASSUME NEW a \in ArtifactId, MarkArtifactDeleted(a) \/ Age(a) PROVE Sound'
  BY <1>7, DropSound, AgeSound DEF MarkArtifactDeleted
<1>8. ASSUME NEW h \in Hash, MarkSourceLocationsDeleted(h) PROVE Sound'
  BY <1>8, DropSound DEF MarkSourceLocationsDeleted
<1>9. ASSUME NEW c \in Content, TouchAsset(c) PROVE Sound'
  BY <1>9, TouchAssetSound
<1>10. CASE UNCHANGED catVars
  BY <1>10 DEF catVars, Sound, TypeOK, IdsUnique, Exists, Consistent, Typed, Agreeing, Made,
               Numbered
<1> QED BY <1>1, <1>2, <1>3, <1>4, <1>5, <1>6, <1>7, <1>8, <1>9, <1>10 DEF CatNext

LEMMA SoundAlways == CatSpec => []Sound
BY SoundInit, SoundStep, PTL DEF CatSpec

\* Whatever statements run, the three tables of the catalog hold well-formed rows.
THEOREM CatTypeCorrect == CatSpec => []CatTypeOK
<1>1. Sound => CatTypeOK
  BY SoundMeans
<1> QED BY <1>1, SoundAlways, PTL

\* Locations, artifacts and torrents agree: deleting the folder of an artifact
\* never reaches the files of another torrent.
THEOREM RowsAlwaysAgree == CatSpec => []RowsAgree
<1>1. Sound => RowsAgree
  BY SoundMeans
<1> QED BY <1>1, SoundAlways, PTL

\* A task that is given the id of a deleted one never inherits its folder.
THEOREM MakersAlwaysAgree == CatSpec => []MakersAgree
<1>1. Sound => MakersAgree
  BY SoundMeans
<1> QED BY <1>1, SoundAlways, PTL

\* An id names one location, although ids are given again.
THEOREM RowIdsAlwaysUnique == CatSpec => []RowIdsUnique
<1>1. Sound => RowIdsUnique
  BY SoundMeans
<1> QED BY <1>1, SoundAlways, PTL

\* A step of the catalog is a statement on the tasks table or leaves it alone.
LEMMA CatStepIsNext == CatNext \/ UNCHANGED catVars => [Next]_jobs
<1> SUFFICES ASSUME CatNext \/ UNCHANGED catVars PROVE [Next]_jobs
  OBVIOUS
<1>1. ASSUME NEW g \in Gid, DeleteRow(g) PROVE Next
  BY <1>1 DEF DeleteRow, Next
<1> QED BY <1>1 DEF CatNext, catVars, SaveTask, SaveScan, SaveRestored, SaveFound,
                    MarkLocationDeleted, MarkArtifactDeleted, MarkSourceLocationsDeleted,
                    TouchAsset, Age

\* The catalog implements the tasks table: what holds of the table alone holds beside
\* the catalog.
THEOREM CatalogImplementsTable == CatSpec => Spec
<1>1. CatInit => Init
  BY DEF CatInit
<1>2. [CatNext]_catVars => [Next]_jobs
  BY CatStepIsNext
<1> QED BY <1>1, <1>2, PTL DEF CatSpec, Spec
=============================================================================
