------------------------------- MODULE Catalog -------------------------------
(***************************************************************************)
(* The catalog of the SQLite store beside the tasks table: what 115 folder *)
(* a task has made (managed_artifacts), where each file was last seen      *)
(* (remote_locations) and what a torrent contains (torrent_files), as the  *)
(* statements of ingest.Repository and materialize.Repository change it.   *)
(* A method is one transaction, so a method is one step.                   *)
(*                                                                         *)
(* A copy is a folder of 115 with the files of a torrent; a file is a      *)
(* content within a copy.  A copy holds a content once.  Ids of rows are   *)
(* numbers that SQLite uses again after the last row is deleted.           *)
(* Left out: the columns nobody branches on, the ownership 'external' and  *)
(* the artifact states other than 'active' (nothing writes them), tasks    *)
(* without a gid (nothing in the program makes them).                      *)
(***************************************************************************)
EXTENDS JobTable

CONSTANTS
  Content,      \* the files by content (SHA1)
  MaxCopy,      \* bound on the folders a torrent has had on 115
  MaxArtifact,  \* bound on managed_artifacts.id
  MaxRow        \* bound on remote_locations.id

VARIABLES
  artifact,     \* managed_artifacts, by id
  location,     \* remote_locations, by file (provider, remote_file_id is UNIQUE)
  listed        \* torrent_files: the contents of a torrent that are not removed

catalog == <<artifact, location, listed>>
catVars == <<jobs, artifact, location, listed>>

Copy == Hash \X (1..MaxCopy)
File == Copy \X Content
Torrent(f)   == f[1][1]
ContentOf(f) == f[2]

NoCopy    == <<>>      \* the empty string in a column that names a folder
NoTorrent == "none"    \* NULL in remote_locations.torrent_id
Null      == 0         \* NULL in a column that names a row

ASSUME CatalogAssumption ==
  MaxCopy \in Nat /\ MaxArtifact \in Nat /\ MaxRow \in Nat /\ NoTorrent \notin Hash

ArtifactId == 1..MaxArtifact
Artifact   == [state : {"active"}, torrent : Hash, creator : 0..MaxId,
               result : Copy \cup {NoCopy}, source : Copy \cup {NoCopy}, old : BOOLEAN]
NoArtifact == [state |-> "none"]
Recorded(a) == artifact[a].state = "active"

Row   == [state : {"live", "deleted"}, id : 1..MaxRow,
          torrent : Hash \cup {NoTorrent}, artifact : 0..MaxArtifact]
NoRow == [state |-> "none"]
Saved(f) == location[f].state # "none"
Live(f)  == location[f].state = "live"

----------------------------------------------------------------------------
(* Queries.                                                                *)

\* The locations AssetBySHA1 returns: not deleted, of an active artifact.
Visible(c) ==
  {f \in File : ContentOf(f) = c /\ Live(f) /\ location[f].artifact # Null
                /\ Recorded(location[f].artifact)}

\* The torrents AssetBySHA1 returns as sources.
Sources(c) == {h \in Hash : c \in listed[h]}

\* ManagedCacheArtifacts.
CacheArtifacts == {a \in ArtifactId : Recorded(a)
                     /\ \E f \in File : Live(f) /\ location[f].artifact = a}

\* ExpiredManagedLocations: one row per location of an artifact that nobody has
\* used for longer than the retention.
ExpiredLocations ==
  {f \in File : /\ Live(f) /\ location[f].artifact \in CacheArtifacts
                /\ artifact[location[f].artifact].old}

\* upsertManagedArtifact and TaskCleanupInfo look the artifact up by its task.
MadeBy(g) ==
  {a \in ArtifactId : Exists(g) /\ Recorded(a) /\ artifact[a].creator = jobs[g].id}

LatestArtifact(h) ==
  LET own == {a \in ArtifactId : Recorded(a) /\ artifact[a].torrent = h}
  IN  {a \in own : \A b \in own : b <= a}

----------------------------------------------------------------------------
(* Parts of statements.                                                    *)

IsNextArtifact(a) ==
  /\ \A b \in ArtifactId : Recorded(b) => b < a
  /\ a = 1 \/ \E b \in ArtifactId : Recorded(b) /\ b = a - 1

\* Faulty variant of NewIds: counted from the number of rows.
NewIdsByCount(N) ==
  {num \in [N -> 1..MaxRow] :
     /\ \A f, k \in N : num[f] = num[k] => f = k
     /\ \A f \in N : \/ num[f] = Cardinality({k \in File : Saved(k)}) + 1
                     \/ \E k \in N : num[k] = num[f] - 1}

\* The ids that the new rows of a statement get, in any order of the rows.
NewIds(N) ==
  {num \in [N -> 1..MaxRow] :
     /\ \A f \in N, k \in File : Saved(k) => location[k].id < num[f]
     /\ \A f, k \in N : num[f] = num[k] => f = k
     /\ \A f \in N : \/ num[f] = 1
                     \/ \E k \in File : Saved(k) /\ location[k].id = num[f] - 1
                     \/ \E k \in N : num[k] = num[f] - 1}

Given(new, was) == IF new = NoCopy THEN was ELSE new

\* upsertManagedArtifact: the row of the task, or a new one.
UpsertTarget(g) ==
  IF MadeBy(g) # {} THEN MadeBy(g) ELSE {a \in ArtifactId : IsNextArtifact(a)}

Upserted(g, result, source, a) ==
  IF MadeBy(g) # {}
  THEN [artifact EXCEPT ![a].result = Given(result, @), ![a].source = Given(source, @)]
  ELSE [artifact EXCEPT ![a] = [state |-> "active", torrent |-> InfoHash(g),
                                creator |-> jobs[g].id, result |-> result,
                                source |-> source, old |-> FALSE]]

\* The other live rows of the contents of S that belong to the torrent, or to
\* none, are marked deleted; the files of S get a live row.
Replaced(S, h, a, num) ==
  [f \in File |->
     IF f \in S
     THEN [state |-> "live", id |-> IF Saved(f) THEN location[f].id ELSE num[f],
           torrent |-> h, artifact |-> a]
     ELSE IF /\ Live(f) /\ location[f].torrent \in {h, NoTorrent}
             /\ ContentOf(f) \in {ContentOf(k) : k \in S}
          THEN [location[f] EXCEPT !.state = "deleted"]
          ELSE location[f]]

HasLive(rows, a) == \E f \in File : rows[f].state = "live" /\ rows[f].artifact = a

\* Artifacts are deleted; their locations go with them (ON DELETE CASCADE).
DropArtifacts(table, rows, gone) ==
  /\ artifact' = [a \in ArtifactId |-> IF a \in gone THEN NoArtifact ELSE table[a]]
  /\ location' = [f \in File |-> IF rows[f].state # "none" /\ rows[f].artifact \in gone
                                 THEN NoRow ELSE rows[f]]

----------------------------------------------------------------------------
(* Statements.  One that fails leaves the tables alone.                    *)

\* SaveTask of a task that names its folder or its working directory; without
\* them it writes columns that are left out here.
SaveTask(g, result, source) ==
  /\ Exists(g)
  /\ UNCHANGED <<jobs, location, listed>>
  /\ \E a \in UpsertTarget(g) : artifact' = Upserted(g, result, source, a)

Ended(n) == \E g \in Gid : /\ Exists(g) /\ jobs[g].id = n
                          /\ State(g) \in {"succeeded", "failed", "canceled"}

\* The artifacts of the torrent that SaveScan deletes: no location left, and
\* no task that may still fill it.
Leftover(table, rows, h, a) ==
  {b \in ArtifactId \ {a} :
     /\ table[b].state = "active" /\ table[b].torrent = h
     /\ ~HasLive(rows, b)
     /\ table[b].creator = Null \/ Ended(table[b].creator)}

\* SaveScan: the artifact of the task, the locations of the files S that were
\* found in its folder, the contents of the torrent, and the left artifacts.
SaveScan(g, result, source, S) ==
  /\ Exists(g)
  /\ UNCHANGED jobs
  /\ listed' = [listed EXCEPT ![InfoHash(g)] = {ContentOf(f) : f \in S}]
  /\ \E a \in UpsertTarget(g), num \in NewIds({f \in S : ~Saved(f)}) :
       LET h     == InfoHash(g)
           table == Upserted(g, result, source, a)
           rows  == Replaced(S, h, a, num)
       IN  DropArtifacts(table, rows, Leftover(table, rows, h, a))

\* Faulty variant of SaveLocation: the latest artifact of any torrent.
SaveLocationAnywhere(f, h) ==
  \E num \in NewIds({f} \ {k \in File : Saved(k)}), a \in {b \in ArtifactId : Recorded(b)} :
    /\ location' = [Replaced({f}, h, a, num) EXCEPT ![f].torrent = h]
    /\ UNCHANGED <<jobs, artifact, listed>>

\* SaveLocation of a file that was restored from torrent h: it joins the latest
\* artifact of the torrent, or keeps the one it had if there is none.
SaveRestored(f, h) ==
  \E num \in NewIds({f} \ {k \in File : Saved(k)}) :
    LET kept == IF Saved(f) THEN location[f].artifact ELSE Null
        a    == IF LatestArtifact(h) = {} THEN kept ELSE CHOOSE b \in LatestArtifact(h) : TRUE
    IN  /\ location' = Replaced({f}, h, a, num)
        /\ UNCHANGED <<jobs, artifact, listed>>

\* SaveLocation of a file that was found where it had been: the row keeps its
\* torrent and artifact and is live, whatever happened to it since it was read.
SaveFound(f) ==
  \E num \in NewIds({f} \ {k \in File : Saved(k)}) :
    /\ location' = [location EXCEPT ![f] =
         IF Saved(f) THEN [@ EXCEPT !.state = "live"]
         ELSE [state |-> "live", id |-> num[f], torrent |-> NoTorrent, artifact |-> Null]]
    /\ UNCHANGED <<jobs, artifact, listed>>

\* MarkLocationDeleted: the row with that id, and its artifact if that was its
\* last live location.
MarkLocationDeleted(n) ==
  LET named == {f \in File : Saved(f) /\ location[f].id = n}
      rows  == [f \in File |-> IF f \in named THEN [location[f] EXCEPT !.state = "deleted"]
                               ELSE location[f]]
  IN  /\ DropArtifacts(artifact, rows,
            {a \in ArtifactId : /\ \E f \in named : location[f].artifact = a
                                /\ ~HasLive(rows, a)})
      /\ UNCHANGED <<jobs, listed>>

MarkArtifactDeleted(a) ==
  /\ DropArtifacts(artifact, location, {a})
  /\ UNCHANGED <<jobs, listed>>

\* MarkSourceLocationsDeleted.
MarkSourceLocationsDeleted(h) ==
  /\ DropArtifacts(artifact, location,
       {a \in ArtifactId : Recorded(a) /\ artifact[a].torrent = h})
  /\ UNCHANGED <<jobs, listed>>

\* TouchAsset: the artifacts that hold the content have been used just now.
TouchAsset(c) ==
  /\ artifact' = [a \in ArtifactId |->
       IF Recorded(a) /\ \E f \in File : /\ Live(f) /\ ContentOf(f) = c
                                        /\ location[f].artifact = a
       THEN [artifact[a] EXCEPT !.old = FALSE] ELSE artifact[a]]
  /\ UNCHANGED <<jobs, location, listed>>

\* Faulty variant of Forget: the foreign key of the artifact is not enforced.
ForgetNothing(gone) == artifact' = artifact

\* ON DELETE SET NULL: the artifacts of deleted tasks have no task any more.
Forget(gone) ==
  artifact' = [a \in ArtifactId |->
    IF /\ Recorded(a) /\ artifact[a].creator # Null
       /\ \E g \in gone : Exists(g) /\ jobs[g].id = artifact[a].creator
    THEN [artifact[a] EXCEPT !.creator = Null] ELSE artifact[a]]

\* DeleteJob or DeleteJobAny, with what the foreign keys do.
DeleteRow(g) ==
  /\ DeleteJob(g) \/ DeleteJobAny(g)
  /\ Forget({g})
  /\ UNCHANGED <<location, listed>>

\* The retention of an artifact passes without use.
Age(a) ==
  /\ Recorded(a) /\ ~artifact[a].old
  /\ artifact' = [artifact EXCEPT ![a].old = TRUE]
  /\ UNCHANGED <<jobs, location, listed>>

----------------------------------------------------------------------------
CatInit ==
  /\ Init
  /\ artifact = [a \in ArtifactId |-> NoArtifact]
  /\ location = [f \in File |-> NoRow]
  /\ listed = [h \in Hash |-> {}]

\* What 115 may say of the result and of the source of a task, and the files a
\* scan of its folder may list.
Folders(h) == {NoCopy} \cup {<<h, n>> : n \in 1..MaxCopy}
Scanned(c) == SUBSET {f \in File : f[1] = c}

CatNext ==
  \/ Next /\ (\A g \in Gid : Exists(g) => Exists(g)') /\ UNCHANGED catalog
  \/ \E g \in Gid : DeleteRow(g)
  \/ \E c \in Content : TouchAsset(c)
  \/ \E a \in ArtifactId : MarkArtifactDeleted(a) \/ Age(a)
  \/ \E n \in 1..MaxRow : MarkLocationDeleted(n)
  \/ \E h \in Hash : MarkSourceLocationsDeleted(h)
  \/ \E f \in File : SaveRestored(f, Torrent(f)) \/ SaveFound(f)
  \/ \E g \in Gid : \E r, d \in Folders(InfoHash(g)) : SaveTask(g, r, d)
  \/ \E g \in Gid, n \in 1..MaxCopy :
       \E S \in Scanned(<<InfoHash(g), n>>), d \in Folders(InfoHash(g)) :
         SaveScan(g, <<InfoHash(g), n>>, d, S)

CatSpec == CatInit /\ [][CatNext]_catVars

----------------------------------------------------------------------------
(* Properties.                                                             *)

\* Every id, file and torrent has no row or a well-formed one.
CatTypeOK ==
  /\ TypeOK
  /\ artifact \in [ArtifactId -> Artifact \cup {NoArtifact}]
  /\ location \in [File -> Row \cup {NoRow}]
  /\ listed \in [Hash -> SUBSET Content]

\* A location and the artifact it points to belong together: the artifact
\* exists and is of the torrent the location and the file are of.  A cleanup that
\* deletes the folder of an artifact therefore never takes a file of another
\* torrent along, whatever scans, restores, cleanups and deletions went before and
\* although the ids of artifacts are used again.
RowsAgree ==
  \A f \in File :
    /\ Saved(f) => location[f].torrent \in {Torrent(f), NoTorrent}
    /\ Saved(f) /\ location[f].artifact # Null
         => /\ Recorded(location[f].artifact)
            /\ location[f].torrent = artifact[location[f].artifact].torrent

\* An artifact that names a task names one that exists and is of its torrent,
\* and no task has two artifacts: a task that reuses the id of a deleted one does
\* not inherit its folder, which its deletion would remove.
MakersAgree ==
  /\ \A a \in ArtifactId : Recorded(a) /\ artifact[a].creator # Null =>
       \E g \in Gid : /\ Exists(g) /\ jobs[g].id = artifact[a].creator
                      /\ InfoHash(g) = artifact[a].torrent
  /\ \A a, b \in ArtifactId :
       /\ Recorded(a) /\ Recorded(b)
       /\ artifact[a].creator = artifact[b].creator /\ artifact[a].creator # Null
       => a = b

\* No two locations share an id, although ids are used again: MarkLocationDeleted
\* never marks a row beside the one it is called for.
RowIdsUnique ==
  \A f, k \in File : Saved(f) /\ Saved(k) /\ location[f].id = location[k].id => f = k
=============================================================================
