------------------------------- MODULE Stores -------------------------------
(***************************************************************************)
(* colab/dataset_manager.py and colab/artifact_manager.py: the files and   *)
(* the two JSON indexes the server keeps on its own disk.                  *)
(*                                                                         *)
(* The event loop runs one call at a time, so calls do not interleave with *)
(* each other.  They interleave with the death of the process and with a   *)
(* full disk, and write_text truncates a file before it fills it: a call   *)
(* that breaks off in between leaves part of a file, or an index that      *)
(* cannot be parsed (it is in torn).                                       *)
(*                                                                         *)
(* Nothing keeps a call from naming the dataset index as its own path: it  *)
(* lies in the root that PathGuard checks.  Whoever else could write below *)
(* that root (code in a local kernel, a notebook tool whose root contains  *)
(* it) is left out.                                                        *)
(***************************************************************************)
EXTENDS Naturals, SequencesExt

CONSTANTS Name,        \* dataset names
          Path,        \* paths under COLAB_DATASET_ROOT
          IndexPath,   \* _dataset_index.json
          Content,     \* what uploads and responses deliver
          Artifact,    \* what colab_save_model and colab_export_model register
          NoTask,
          MaxEntries   \* bound: entries in both indexes together

ASSUME EntriesAssumption == MaxEntries \in Nat
ASSUME IndexAssumption == IndexPath \in Path

VARIABLES
  file,    \* what a path holds
  index,   \* what was last in an index file that could be read
  torn,    \* indexes that cannot be read now: cut off, absent or no index
  step,    \* where the current call stands
  task,    \* what it works on
  next,    \* the contents _write_index is writing
  history, \* history: versions whose registration was written to the end
  spoiled, \* history: paths written since without a registration
  replaced \* history: whether a call wrote or unlinked the dataset index as
           \* its own path

vars == <<file, index, torn, step, task, next, history, spoiled, replaced>>

Store == {"datasets", "artifacts"}
\* "part" is left by a write that broke off, "cut" is a response that ended
\* early without an error, "index" what _write_index writes.
Contents == Content \cup {"gone", "part", "cut", "json", "index"}
Version == [name : Name, path : Path, sum : Contents]
Task == [name : Name, path : Path, data : Content \cup {"json"}]

TypeOK ==
  /\ file \in [Path -> Contents]
  /\ index.datasets \in Seq(Version)
  /\ index.artifacts \in Seq(Artifact)
  /\ torn \subseteq Store
  /\ step \in {"idle", "writing", "opening", "fetching", "register", "version",
               "artifact", "converting", "down"}
  /\ task \in Task \cup {NoTask}
  /\ next \in Seq(Version) \cup Seq(Artifact)
  /\ history \in Seq(Version)
  /\ spoiled \subseteq Path
  /\ replaced \in BOOLEAN

Init ==
  /\ file = [p \in Path |-> IF p = IndexPath THEN "index" ELSE "gone"]
  /\ index = [st \in Store |-> <<>>]
  /\ torn = {}
  /\ step = "idle"
  /\ task = NoTask
  /\ next = <<>>
  /\ history = <<>>
  /\ spoiled = {}
  /\ replaced = FALSE

Begin(to, n, p, d) == /\ step = "idle" /\ step' = to
                      /\ task' = [name |-> n, path |-> p, data |-> d]

\* The call returns, raises or dies, and leaves what is on the disk.
Leave(from, to) == /\ step \in from
                   /\ step' = to
                   /\ task' = NoTask
                   /\ next' = <<>>

\* A call changes the file at its path, which may be the index: then that
\* cannot be read any more.
Puts(p, c) ==
  /\ file' = [file EXCEPT ![p] = c]
  /\ spoiled' = spoiled \cup {p}
  /\ torn' = IF p = IndexPath THEN torn \cup {"datasets"} ELSE torn
  /\ replaced' = (replaced \/ p = IndexPath)

\* The next contents of a file: nothing at first, then all of it.
Truncate(p) == Puts(p, "part")

\* ... unless what it is filled with is an index too: an older copy or {}, or
\* one made up, of which the properties would say no more.
Fills(p, c) ==
  \/ Puts(p, c) /\ UNCHANGED index
  \/ /\ p = IndexPath
     /\ \E n \in 0..Len(history) :
          index' = [index EXCEPT !.datasets = SubSeq(history, 1, n)]
     /\ file' = [file EXCEPT ![p] = c]
     /\ torn' = torn \ {"datasets"}
     /\ UNCHANGED <<spoiled, replaced>>

Goes(from, to) == step = from /\ step' = to

-----------------------------------------------------------------------------
(* upload and cache_from_url, up to the registration.                      *)

Upload(n, p, d) ==
  /\ Begin("writing", n, p, d)
  /\ Truncate(p)
  /\ UNCHANGED <<index, next, history>>

\* Mutant: a short write goes unnoticed.
Written_Short ==
  /\ Goes("writing", "register")
  /\ UNCHANGED <<file, index, torn, task, next, history, spoiled, replaced>>

Written ==
  /\ Goes("writing", "register")
  /\ Fills(task.path, task.data)
  /\ UNCHANGED <<task, next, history>>

Fetch(n, p, d) ==
  /\ Begin("opening", n, p, d)
  /\ spoiled' = spoiled \cup {p}
  /\ UNCHANGED <<file, index, torn, next, history, replaced>>

FetchOpens ==
  /\ Goes("opening", "fetching")
  /\ Truncate(task.path)
  /\ UNCHANGED <<index, task, next, history>>

\* read returns nothing when all is there, and also when the other side
\* ends the response early.
FetchEnds ==
  /\ Goes("fetching", "register")
  /\ \E c \in {task.data, "cut"} : Fills(task.path, c)
  /\ UNCHANGED <<task, next, history>>

\* Mutant: the clean-up removes every file of the dataset.
FetchFails_RemovesAll ==
  /\ Leave({"opening", "fetching"}, "idle")
  /\ file' = [p \in Path |->
       IF p = task.path \/ \E i \in DOMAIN index.datasets :
            index.datasets[i].name = task.name /\ index.datasets[i].path = p
       THEN "gone" ELSE file[p]]
  /\ UNCHANGED <<index, torn, history, spoiled, replaced>>

\* The URL cannot be opened, the response breaks off with an error or is too
\* large: the path is unlinked, also when it still holds an earlier version.
FetchFails ==
  /\ Leave({"opening", "fetching"}, "idle")
  /\ Puts(task.path, "gone")
  /\ UNCHANGED <<index, history>>

-----------------------------------------------------------------------------
(* The indexes.                                                            *)

HasRoom == Len(history) + Len(index.artifacts) < MaxEntries

StartIndex(st, contents) == next' = contents /\ torn' = torn \cup {st}

\* _register: the file is hashed, the index read, extended and written back.
Register ==
  /\ Goes("register", "version")
  /\ "datasets" \notin torn /\ HasRoom
  /\ StartIndex("datasets", Append(index.datasets,
       [name |-> task.name, path |-> task.path, sum |-> file[task.path]]))
  /\ file' = [file EXCEPT ![IndexPath] = "part"]
  /\ UNCHANGED <<index, task, history, spoiled, replaced>>

\* json.loads raises: the file stays, the call fails.
RegisterFails ==
  /\ "datasets" \in torn
  /\ Leave({"register"}, "idle")
  /\ UNCHANGED <<file, index, torn, history, spoiled, replaced>>

\* Mutant: the versions are written to the other index.
VersionWritten_WrongIndex ==
  /\ Leave({"version"}, "idle")
  /\ index' = [index EXCEPT !.artifacts = next]
  /\ torn' = torn \ {"datasets"}
  /\ file' = [file EXCEPT ![IndexPath] = "index"]
  /\ history' = Append(history, Last(next))
  /\ spoiled' = (spoiled \ {task.path}) \cup {IndexPath}
  /\ UNCHANGED replaced

\* _write_index is done, and the call returns the new version.  A version
\* at the index's own path is spoiled by that.
VersionWritten ==
  /\ Leave({"version"}, "idle")
  /\ index' = [index EXCEPT !.datasets = next]
  /\ torn' = torn \ {"datasets"}
  /\ file' = [file EXCEPT ![IndexPath] = "index"]
  /\ history' = Append(history, Last(next))
  /\ spoiled' = (spoiled \ {task.path}) \cup {IndexPath}
  /\ UNCHANGED replaced

\* ArtifactManager.register takes an index it cannot read for an empty one.
RegisterArtifact(a) ==
  /\ Goes("idle", "artifact") /\ HasRoom
  /\ StartIndex("artifacts",
                Append(IF "artifacts" \in torn THEN <<>> ELSE index.artifacts, a))
  /\ UNCHANGED <<file, index, task, history, spoiled, replaced>>

ArtifactWritten ==
  /\ Leave({"artifact"}, "idle")
  /\ index' = [index EXCEPT !.artifacts = next]
  /\ torn' = torn \ {"artifacts"}
  /\ UNCHANGED <<file, history, spoiled, replaced>>

-----------------------------------------------------------------------------
(* convert_csv_to_json; download, validate, inspect and list change        *)
(* nothing.                                                                *)

Convert(i, p) ==
  /\ "datasets" \notin torn
  /\ file[index.datasets[i].path] # "gone"
  /\ Begin("converting", index.datasets[i].name, p, "json")
  /\ Truncate(p)
  /\ UNCHANGED <<index, next, history>>

\* The rows are a JSON list, which no dataset call can use as an index.
Converted ==
  /\ Leave({"converting"}, "idle")
  /\ Puts(task.path, "json")
  /\ UNCHANGED <<index, history>>

-----------------------------------------------------------------------------
\* The disk is full: the write raises and what it wrote stays.
WriteFails ==
  /\ Leave({"writing", "converting", "version", "artifact"}, "idle")
  /\ UNCHANGED <<file, index, torn, history, spoiled, replaced>>

Crash ==
  /\ step # "down" /\ Leave({step}, "down")
  /\ UNCHANGED <<file, index, torn, history, spoiled, replaced>>

\* Mutant: an index that cannot be read is created anew.
Restart_Recreates ==
  /\ Goes("down", "idle")
  /\ index' = [st \in Store |-> IF st \in torn THEN <<>> ELSE index[st]]
  /\ torn' = {}
  /\ UNCHANGED <<file, task, next, history, spoiled, replaced>>

\* __init__ creates an index only if its file does not exist.
Restart ==
  /\ Goes("down", "idle")
  /\ IF file[IndexPath] = "gone"
       THEN /\ file' = [file EXCEPT ![IndexPath] = "index"]
            /\ index' = [index EXCEPT !.datasets = <<>>]
            /\ torn' = torn \ {"datasets"}
       ELSE UNCHANGED <<file, index, torn>>
  /\ UNCHANGED <<task, next, history, spoiled, replaced>>

Next == \/ \E n \in Name, p \in Path, d \in Content : Upload(n, p, d) \/ Fetch(n, p, d)
        \/ \E p \in Path, i \in DOMAIN index.datasets : Convert(i, p)
        \/ \E a \in Artifact : RegisterArtifact(a)
        \/ Written \/ FetchOpens \/ FetchEnds \/ FetchFails
        \/ Register \/ RegisterFails \/ VersionWritten \/ ArtifactWritten \/ Converted
        \/ WriteFails \/ Crash \/ Restart

Spec == Init /\ [][Next]_vars

-----------------------------------------------------------------------------
(* What must hold.                                                         *)

(* No dataset version is silently lost or renumbered: as long as the index *)
(* can be read, it holds every version that was ever registered, in the    *)
(* order in which they were, whatever broke off in between                 *)
(* (dataset_manager.py:45-49, 55-67), unless a call wrote or unlinked the  *)
(* index as its own path, which nothing forbids (73, 90, 109-112, 171).    *)
NothingSilentlyLost ==
  "datasets" \notin torn => IsPrefix(history, index.datasets) \/ replaced

(* A version was registered only for a file the server wrote to its end:   *)
(* not after a download that raised, a full disk or a crash.  What a       *)
(* response that ended early delivered counts as its end (99-101).         *)
RegisteredIsWhole ==
  \A i \in DOMAIN history : history[i].sum \in Content \cup {"cut"}

(* The newest version stored at a path can be downloaded as it was         *)
(* registered, unless a later write of that path did not end in its        *)
(* registration, or the index has been replaced.                           *)
NewestAt(p) == {i \in DOMAIN index.datasets :
                  /\ index.datasets[i].path = p
                  /\ \A k \in DOMAIN index.datasets :
                       index.datasets[k].path = p => k <= i}

NewestIntact ==
  ~replaced => \A p \in Path \ spoiled :
                 \A i \in NewestAt(p) : file[p] = index.datasets[i].sum
=============================================================================
