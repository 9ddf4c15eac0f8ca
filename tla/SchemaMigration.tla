-------------------------- MODULE SchemaMigration --------------------------
(***************************************************************************)
(* Opening a database file that another program may be opening, using or   *)
(* upgrading (mf-agent migration.rs, schema.rs, store.rs, catalog_store.rs *)
(* and catalog_migration.rs).                                              *)
(*                                                                         *)
(* A program of version `known' looks at the file, refuses one from the    *)
(* future, and if the file is older or incomplete takes SQLite's writer    *)
(* lock, looks again, publishes a backup, and only then changes the schema *)
(* in the transaction that holds the lock.  A backup is an artifact        *)
(* directory that counts from the moment its COMPLETE marker is written    *)
(* in full.  The second catalog is filled once from the first, which older *)
(* programs go on writing.                                                 *)
(*                                                                         *)
(* A program is a process: it may stop at any step, which frees its lock,  *)
(* rolls its transaction back and leaves whatever files it made.           *)
(***************************************************************************)
EXTENDS Integers, FiniteSets

CONSTANTS
    Programs,      \* processes
    Versions,      \* schema versions that some build knows
    MaxOpens,      \* bound: attempts to open the file
    MaxWrites      \* bound: commits of data

ASSUME MigrationBounds ==
    /\ 0 \notin Programs /\ Versions \subseteq Nat \ {0}
    /\ MaxOpens \in Nat /\ MaxWrites \in Nat

VARIABLES
    file,        \* the database: kind, version, data, and is its schema incomplete?
    writer,      \* who holds SQLite's writer lock
    opener,      \* the programs: where each is, and what it knows
    artifacts,   \* the backup directory: one record per artifact
    catalogs,    \* the first catalog, the second one, and what importers have read
    opens,       \* attempts made
    failures,    \* attempts that ended after their backup had begun
    past         \* observer: contents committed, upgrades done, edits of the second catalog

migrationVars == <<file, writer, opener, artifacts, catalogs, opens, failures, past>>

Nobody == 0
Contents == [version |-> file.version, data |-> file.data, damaged |-> file.damaged]

\* published_artifact_dirs: what a recovery would find.
Enumerated == {a \in artifacts : a.part = "complete" /\ a.db /\ a.manifest}

MigrationInit ==
    /\ file = [kind |-> "none", version |-> 0, data |-> 0, damaged |-> FALSE]
    /\ writer = Nobody
    /\ opener = [p \in Programs |-> [at |-> "closed", known |-> 0, mode |-> "none", read |-> 0]]
    /\ artifacts = {}
    /\ catalogs = [first |-> 0, rows |-> {}, marker |-> FALSE]
    /\ opens = 0
    /\ failures = 0
    /\ past = [contents |-> {}, upgrades |-> {}, edits |-> {}, firsts |-> {}]

\* What the programs find: a new file, a file of an old build, an early
\* development catalog that lacks tables, or the pair of catalogs.
Find ==
    /\ file.kind = "none"
    /\ \E kind \in {"project", "catalog", "pair"}, v \in {0} \cup Versions, d \in BOOLEAN :
          /\ d => kind = "catalog" /\ v # 0
          /\ kind = "catalog" => \A w \in Versions : v <= w
          /\ kind = "pair" => v = 0
          /\ file' = [kind |-> kind, version |-> v, data |-> 0, damaged |-> d]
          /\ past' = [past EXCEPT !.contents = {[version |-> v, data |-> 0, damaged |-> d]},
                                  !.firsts = {0}]
    /\ UNCHANGED <<writer, opener, artifacts, catalogs, opens, failures>>

-----------------------------------------------------------------------------
(* Opening *)

To(p, at) == opener' = [opener EXCEPT ![p].at = at]
Releases(p) == writer' = IF writer = p THEN Nobody ELSE writer
SameFile == UNCHANGED <<file, artifacts, catalogs, opens, failures, past>>

\* What a build does with a file that is not from the future: a catalog knows
\* one version only, and is repaired or has its version written again.
Way(known) ==
    IF file.version < known THEN "upgrade"
    ELSE IF file.kind = "project" THEN "none"
    ELSE IF file.damaged THEN "repair" ELSE "reaffirm"

\* guard_future_version, before anything is written.
Guard(p) ==
    /\ file.kind \in {"project", "catalog"} /\ opener[p].at = "closed" /\ opens < MaxOpens
    /\ \E known \in Versions :
          /\ file.kind = "catalog" => \A w \in Versions : known <= w
          /\ opener' = IF file.version > known THEN opener
                       ELSE [opener EXCEPT ![p] =
                                [@ EXCEPT !.known = known, !.mode = Way(known),
                                          !.at = IF Way(known) = "none" THEN "open" ELSE "locking"]]
    /\ opens' = opens + 1
    /\ UNCHANGED <<file, writer, artifacts, catalogs, failures, past>>

\* BEGIN IMMEDIATE, and everything read again under the lock.
AsExpected(p) == file.version = opener[p].known
Overtaken(p) == file.version > opener[p].known
Waits(p) == opener[p].at = "locking" /\ writer = Nobody

Refused(p) ==
    /\ Overtaken(p)
    /\ To(p, "closed")
    /\ UNCHANGED writer

NothingToDo(p) ==
    /\ AsExpected(p) /\ (opener[p].mode = "repair" => ~file.damaged)
    /\ To(p, "open")
    /\ UNCHANGED writer

HasToChange(p) ==
    /\ \/ opener[p].mode = "upgrade" /\ file.version < opener[p].known
       \/ opener[p].mode = "repair" /\ AsExpected(p) /\ file.damaged
    /\ To(p, IF file.version = 0 THEN "change" ELSE "stage")
    /\ writer' = p

\* A change of the code that trusts the reading made without the lock.
TrustsOldReading(p) ==
    /\ Waits(p) /\ SameFile
    /\ To(p, IF opener[p].mode = "reaffirm" THEN "open"
             ELSE IF file.version = 0 THEN "change" ELSE "stage")
    /\ writer' = IF opener[p].mode = "reaffirm" THEN Nobody ELSE p

Lock(p) == Waits(p) /\ SameFile /\ (Refused(p) \/ NothingToDo(p) \/ HasToChange(p))

\* The busy timeout of five seconds ends the attempt.
LockTimeout(p) ==
    /\ opener[p].at = "locking" /\ writer # Nobody
    /\ To(p, "closed")
    /\ SameFile /\ UNCHANGED writer

-----------------------------------------------------------------------------
(* The backup *)

Making(p) == {a \in artifacts : a.by = p /\ a.part \notin {"complete", "left"}}
Step(p, from, to, part, db, manifest) ==
    /\ opener[p].at = from
    /\ To(p, to)
    /\ artifacts' = {IF a \in Making(p)
                     THEN [a EXCEPT !.part = part, !.db = db, !.manifest = manifest]
                     ELSE a : a \in artifacts}
    /\ UNCHANGED <<file, writer, catalogs, opens, failures, past>>

\* The database copied through the pager, checked, and described by a manifest
\* in a staging directory of its own name.
Stage(p) ==
    /\ opener[p].at = "stage"
    /\ To(p, "reserve")
    /\ artifacts' = artifacts \cup
           {[by |-> p, id |-> opens, part |-> "staged", db |-> FALSE, manifest |-> FALSE,
             of |-> Contents, to |-> opener[p].known]}
    /\ UNCHANGED <<file, writer, catalogs, opens, failures, past>>

\* publish_artifact: the final directory is reserved, the two files are moved
\* into it one by one, read back and compared, and the marker comes last.
Reserve(p) == Step(p, "reserve", "move_db", "reserved", FALSE, FALSE)
MoveDb(p) == Step(p, "move_db", "move_manifest", "reserved", TRUE, FALSE)
MoveManifest(p) == Step(p, "move_manifest", "mark", "paired", TRUE, TRUE)
MarkBegins(p) == Step(p, "mark", "marking", "torn", TRUE, TRUE)
MarkEnds(p) == Step(p, "marking", "change", "complete", TRUE, TRUE)

-----------------------------------------------------------------------------
(* The change *)

\* The schema of every version up to `known' in one transaction, which also
\* sets user_version; the commit frees the lock.
Change(p) ==
    LET me == opener[p]
    IN  /\ me.at = "change"
        /\ file' = [file EXCEPT !.version = me.known, !.damaged = FALSE]
        /\ To(p, "open")
        /\ writer' = Nobody
        /\ past' = [past EXCEPT
               !.contents = @ \cup {[version |-> me.known, data |-> file.data, damaged |-> FALSE]},
               !.upgrades = @ \cup {Contents}]
        /\ UNCHANGED <<artifacts, catalogs, opens, failures>>

\* A program that has the file open commits data: the lock is free.  A build
\* that opened the file before it was upgraded goes on doing so.
Write(p) ==
    /\ file.kind # "pair" /\ opener[p].at = "open" /\ writer = Nobody
    /\ file.data < MaxWrites
    /\ file' = [file EXCEPT !.data = @ + 1]
    /\ past' = [past EXCEPT !.contents = @ \cup {[Contents EXCEPT !.data = @ + 1]}]
    /\ UNCHANGED <<writer, opener, artifacts, catalogs, opens, failures>>

\* An I/O error, the end of the process, or its ordinary end: the lock is
\* freed, the transaction rolled back, files stay as they are.
Stop(p) ==
    LET left == Making(p)
    IN  /\ opener[p].at # "closed"
        /\ opener' = [opener EXCEPT ![p] = [at |-> "closed", known |-> 0, mode |-> "none", read |-> 0]]
        /\ Releases(p)
        /\ artifacts' = {IF a \in left THEN [a EXCEPT !.part = "left"] ELSE a : a \in artifacts}
        /\ failures' = IF opener[p].at = "change" \/ left # {} THEN failures + 1 ELSE failures
        /\ UNCHANGED <<file, catalogs, opens, past>>

-----------------------------------------------------------------------------
(* The second catalog is filled from the first *)

\* load_v1_snapshot: the first catalog is read whole, without its lock.
SnapshotOfFirst == catalogs.first

\* CatalogV2Store::open_migrating_v1: the marker closes the question.
OpenSecond(p) ==
    /\ file.kind = "pair" /\ opener[p].at = "closed" /\ opens < MaxOpens
    /\ opener' = [opener EXCEPT ![p].at = IF catalogs.marker \/ catalogs.first = 0
                                           THEN "open" ELSE "import",
                                ![p].read = SnapshotOfFirst]
    /\ opens' = opens + 1
    /\ UNCHANGED <<file, writer, artifacts, catalogs, failures, past>>

\* A change of the code that imports what it has read without looking again.
ImportsAnyway(p) ==
    /\ opener[p].at = "import"
    /\ To(p, "open")
    /\ catalogs' = [catalogs EXCEPT !.rows = @ \cup {<<"first", opener[p].read>>}, !.marker = TRUE]
    /\ UNCHANGED <<file, writer, artifacts, opens, failures, past>>

\* import_catalog_v1: one transaction, the marker read again in it; a catalog
\* that has rows but no marker is refused.
Import(p) ==
    /\ opener[p].at = "import"
    /\ LET refused == ~catalogs.marker /\ catalogs.rows # {}
           lands == ~catalogs.marker /\ catalogs.rows = {}
       IN  /\ To(p, IF refused THEN "closed" ELSE "open")
           /\ catalogs' = IF lands
                          THEN [catalogs EXCEPT !.rows = {<<"first", opener[p].read>>}, !.marker = TRUE]
                          ELSE catalogs
    /\ UNCHANGED <<file, writer, artifacts, opens, failures, past>>

\* An older program writes the first catalog, at any time.
FirstChanges ==
    /\ file.kind = "pair" /\ catalogs.first < MaxWrites
    /\ catalogs' = [catalogs EXCEPT !.first = @ + 1]
    /\ past' = [past EXCEPT !.firsts = @ \cup {catalogs.first + 1}]
    /\ UNCHANGED <<file, writer, opener, artifacts, opens, failures>>

\* The second catalog is edited by a program that has it open.
EditSecond(p) ==
    /\ file.kind = "pair" /\ opener[p].at = "open" /\ Cardinality(past.edits) < MaxWrites
    /\ LET edit == <<"edit", Cardinality(past.edits) + 1>>
       IN  /\ catalogs' = [catalogs EXCEPT !.rows = @ \cup {edit}]
           /\ past' = [past EXCEPT !.edits = @ \cup {edit}]
    /\ UNCHANGED <<file, writer, opener, artifacts, opens, failures>>

MigrationNext ==
    \/ Find \/ FirstChanges
    \/ \E p \in Programs :
          \/ Guard(p) \/ Lock(p) \/ LockTimeout(p)
          \/ Stage(p) \/ Reserve(p) \/ MoveDb(p) \/ MoveManifest(p) \/ MarkBegins(p) \/ MarkEnds(p)
          \/ Change(p) \/ Write(p) \/ Stop(p)
          \/ OpenSecond(p) \/ Import(p) \/ EditSecond(p)

MigrationSpec == MigrationInit /\ [][MigrationNext]_migrationVars

-----------------------------------------------------------------------------
(* Properties *)

\* Whatever was upgraded or repaired can be had back: a whole artifact holds
\* exactly what the file contained at the commit, down to the last write.
\* Only a file with no schema is changed without one.
EveryUpgradeIsBackedUp ==
    \A c \in past.upgrades : c.version = 0 \/ \E a \in Enumerated : a.of = c

\* What a recovery would adopt is something the file really contained.
ArtifactsAreTrue == \A a \in Enumerated : a.of \in past.contents

\* Nobody makes a backup of a file that somebody else has upgraded meanwhile:
\* one artifact for each change, and for each attempt that failed.
NoNeedlessBackup ==
    /\ \A a \in artifacts : a.of.version < a.to \/ a.of.damaged
    /\ Cardinality(artifacts) <= Cardinality(past.upgrades) + failures
           + Cardinality({p \in Programs : Making(p) # {} \/ opener[p].at = "change"})

\* The lock is with one program from its second reading to its commit.
OneChanger ==
    \A p \in Programs :
        opener[p].at \in {"stage", "reserve", "move_db", "move_manifest", "mark", "marking", "change"}
            <=> writer = p

\* The second catalog holds one moment of the first and every edit made since.
ImportedOnce ==
    LET firsts == {r \in catalogs.rows : r[1] = "first"}
    IN  /\ Cardinality(firsts) <= 1
        /\ \A r \in firsts : r[2] \in past.firsts
        /\ catalogs.marker <=> firsts # {}
        /\ past.edits \subseteq catalogs.rows

MigrationSafety ==
    /\ EveryUpgradeIsBackedUp
    /\ ArtifactsAreTrue
    /\ NoNeedlessBackup
    /\ OneChanger
    /\ ImportedOnce

\* A file never goes back to an older schema, whichever builds open it, and
\* an artifact that can be adopted stays as it is.
SchemaNeverGoesBack ==
    [][/\ file.kind # "none" => file'.version >= file.version
       /\ Enumerated \subseteq Enumerated']_migrationVars
=============================================================================
