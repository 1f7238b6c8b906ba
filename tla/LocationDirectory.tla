---------------------------- MODULE LocationDirectory ----------------------------
(***************************************************************************)
(* The public directory of places: its files (backend/app/locations.py),   *)
(* its versions in the database and their import (location_database.py).   *)
(*                                                                         *)
(* Two files, a directory and the manifest that names its hash, are        *)
(* written by others, one after the other, and read several times by an    *)
(* import, which compares what it read.  In the database a version is      *)
(* written once; one version is active.  A content is a value; its hash is *)
(* itself.                                                                 *)
(***************************************************************************)
EXTENDS FiniteSets

CONSTANTS
    Content,  \* what directory.json may hold
    Holds,    \* what a content says: its version, districts, localities and coverage
    Import,   \* imports, each once
    None

VARIABLES
    directory,  \* directory.json
    manifest,   \* manifest.json, by the content it names
    versions,   \* the version's rows in the database: what was imported and its hash
    active,
    job,        \* what each import is doing and what it has read
    reader,     \* a request reading the directory from the database
    served      \* the content it was answered with, and the version

directoryVars == <<directory, manifest, versions, active, job, reader, served>>

-----------------------------------------------------------------------------
VersionId == {Holds[c].version : c \in Content}
Names(locality) == {locality.id} \cup locality.aliases

\* Every identifier and alias is used once; a locality is of a district that is
\* there; it can be chosen if it has a point, which is inside its district; and
\* the coverage is what can be chosen.  Licences and provenance are texts.
validate_directory(data) ==
    /\ \A l \in data.localities :
          /\ l.id \notin l.aliases /\ Names(l) \cap DOMAIN data.districts = {}
          /\ \A m \in data.localities \ {l} : Names(l) \cap Names(m) = {}
          /\ l.district \in DOMAIN data.districts
          /\ l.selectable <=> l.point # None
          /\ l.point # None => l.point \in data.districts[l.district]
    /\ data.coverage = Cardinality({l \in data.localities : l.selectable})

NewJob == [pc |-> "new", manifest |-> None, data |-> None, raw |-> None, activate |-> FALSE]
Ended == [NewJob EXCEPT !.pc = "ended"]
Idle == [pc |-> "idle", version |-> None, versions |-> <<>>]

Init ==
    /\ directory \in Content /\ manifest = directory
    /\ versions = [v \in VersionId |-> None] /\ active = None
    /\ job = [i \in Import |-> NewJob] /\ reader = Idle /\ served = None

\* The build script, or an unpacked release, replaces one file after the other.
Replace ==
    /\ \/ directory' \in Content /\ UNCHANGED manifest
       \/ manifest' \in Content /\ UNCHANGED directory
    /\ UNCHANGED <<versions, active, job, reader, served>>

\* LocationStore.load: the manifest, and then the directory it must be that of.
LoadManifest(i, activate) ==
    /\ job[i].pc = "new"
    /\ job' = [job EXCEPT ![i] = [NewJob EXCEPT !.pc = "manifest", !.manifest = manifest, !.activate = activate]]
    /\ UNCHANGED <<directory, manifest, versions, active, reader, served>>

LoadDirectory(i) ==
    /\ job[i].pc = "manifest"
    /\ job' = IF directory = job[i].manifest /\ validate_directory(Holds[directory])
              THEN [job EXCEPT ![i].pc = "loaded", ![i].data = directory]
              ELSE [job EXCEPT ![i] = Ended]
    /\ UNCHANGED <<directory, manifest, versions, active, reader, served>>

\* import_directory reads both files again for their hashes.
ReadAgain(i) ==
    /\ job[i].pc = "loaded"
    /\ job' = [job EXCEPT ![i].pc = "raw", ![i].raw = directory]
    /\ UNCHANGED <<directory, manifest, versions, active, reader, served>>

\* Mutant: what was read second is taken without comparing it.
Unchecked(data, raw, named) == TRUE

\* "Source changed during import validation"
Same(data, raw, named) == raw = data /\ named = data

ManifestAgain(i) ==
    /\ job[i].pc = "raw"
    /\ job' = IF Same(job[i].data, job[i].raw, manifest)
              THEN [job EXCEPT ![i].pc = "checked", ![i].manifest = manifest]
              ELSE [job EXCEPT ![i] = Ended]
    /\ UNCHANGED <<directory, manifest, versions, active, reader, served>>

\* reconstruct: the rows of a valid directory, whose manifest names the file it
\* was imported from.
Whole(row) == row.manifest = row.hash /\ validate_directory(Holds[row.data])

\* The transaction, under an advisory lock: a version that exists must be the same
\* to the byte; one that does not is written and read back.
Transaction(i) ==
    LET new == [data |-> job[i].data, hash |-> job[i].raw, manifest |-> job[i].manifest]
        v == Holds[new.data].version
        mayKeep == versions[v] = None \/ versions[v] = new IN
    /\ job[i].pc = "checked"
    /\ IF mayKeep /\ Whole(new)
       THEN /\ versions' = [versions EXCEPT ![v] = new]
            /\ active' = IF job[i].activate THEN v ELSE active
       ELSE UNCHANGED <<versions, active>>
    /\ job' = [job EXCEPT ![i] = Ended]
    /\ UNCHANGED <<directory, manifest, reader, served>>

\* What the queries of one transaction see (REPEATABLE READ): the database as it
\* was at the first of them.
Snapshot == reader.versions

\* DatabaseLocationStore.load: which version is active, and then its rows.
ReadActive ==
    /\ reader.pc = "idle" /\ active # None
    /\ reader' = [pc |-> "version", version |-> active, versions |-> versions]
    /\ UNCHANGED <<directory, manifest, versions, active, job, served>>

ReadRows ==
    /\ reader.pc = "version" /\ reader' = Idle
    /\ LET row == Snapshot[reader.version] IN
       served' = IF Whole(row) THEN [version |-> reader.version, data |-> row.data] ELSE None
    /\ UNCHANGED <<directory, manifest, versions, active, job>>

Next ==
    \/ Replace \/ ReadActive \/ ReadRows
    \/ \E i \in Import :
          \/ \E activate \in BOOLEAN : LoadManifest(i, activate)
          \/ LoadDirectory(i) \/ ReadAgain(i) \/ ManifestAgain(i) \/ Transaction(i)

Spec == Init /\ [][Next]_directoryVars

-----------------------------------------------------------------------------
(* Properties.                                                             *)

\* "An existing version is immutable" (location_database.py:121): whatever happens
\* to the files while they are read, and whichever imports race, a version is
\* what a valid directory and the manifest beside it said, the active version is
\* there, and readers who say a version mean its content.
DirectoryWhole ==
    /\ \A v \in VersionId : versions[v] # None =>
           /\ validate_directory(Holds[versions[v].data]) /\ Holds[versions[v].data].version = v
           /\ versions[v].hash = versions[v].data /\ versions[v].manifest = versions[v].data
    /\ active # None => versions[active] # None
    /\ served # None => versions[served.version].data = served.data
===============================================================================
