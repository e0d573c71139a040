---------------------------- MODULE StoresProofs ----------------------------
(***************************************************************************)
(* Proofs about Stores, for any names, paths, contents and artifacts, and  *)
(* calls that break off anywhere.                                          *)
(***************************************************************************)
EXTENDS Stores, SequenceTheorems, TLAPS

(***************************************************************************)
(* The inductive invariant.                                                *)
(***************************************************************************)
IndexShape == index \in [Store -> Seq(Version) \cup Seq(Artifact)]

Uploading == {"writing", "opening", "fetching", "register", "version"}
OnFile == {"writing", "fetching", "register", "version", "converting"}

Complete(c) == c \in Content \cup {"cut"}

(* A call works on one path, which is spoiled until its version is in the  *)
(* index; what it registers is what it has written there.  If the path is  *)
(* the index's own, the index counts as replaced.                          *)
Working ==
  /\ step \in Uploading => task \in Task /\ task.data \in Content /\ task.path \in spoiled
  /\ step = "converting" => task \in Task /\ task.path \in spoiled
  /\ step \in OnFile /\ task.path = IndexPath => replaced
  /\ step = "register" => Complete(file[task.path])

(* What _write_index is writing is the old contents and one entry, whose   *)
(* sum is that of its file, or of the index that is being overwritten.     *)
IsNew(v) == /\ v.path = task.path /\ Complete(v.sum)
            /\ v.path # IndexPath => file[v.path] = v.sum

Extending ==
  /\ step = "version" => \E v \in Version : next = Append(index.datasets, v) /\ IsNew(v)
  /\ step = "artifact" => next \in Seq(Artifact)

(* Until the index is replaced it holds what was registered; its own path  *)
(* is spoiled by the first registration, and only a call unlinks it.       *)
Indexed ==
  /\ file[IndexPath] = "gone" => replaced
  /\ ~replaced => history = index.datasets
  /\ IndexPath \in spoiled \/ history = <<>>

Entries == Indexed /\ RegisteredIsWhole /\ NewestIntact

Inv == IndexShape /\ Working /\ Extending /\ Entries


-----------------------------------------------------------------------------
LEMMA AppendOf ==
  ASSUME NEW S, NEW q \in Seq(S), NEW e \in S, NEW t, t = Append(q, e)
  PROVE  /\ t \in Seq(S) /\ Len(t) = Len(q) + 1 /\ Len(q) \in Nat
         /\ DOMAIN q = 1..Len(q) /\ DOMAIN t = 1..Len(t)
         /\ \A i \in 1..Len(q) : t[i] = q[i]
         /\ t[Len(q) + 1] = e
BY AppendProperties, LenProperties

\* A step that leaves the index and the files that are not spoiled alone.
LEMMA FileStep ==
  ASSUME TypeOK, Inv, UNCHANGED history, spoiled \subseteq spoiled', replaced => replaced',
         ~replaced' => UNCHANGED index,
         \A p \in Path \ spoiled' : file'[p] = file[p],
         file'[IndexPath] = "gone" => file[IndexPath] = "gone" \/ replaced'
  PROVE  Entries'
<1>1. Indexed'
  BY DEF Inv, Entries, Indexed
<1>2. RegisteredIsWhole'
  BY DEF Inv, Entries, RegisteredIsWhole
<1>3. NewestIntact'
  BY DEF Inv, Entries, NewestIntact, NewestAt
<1>4. QED
  BY <1>1, <1>2, <1>3 DEF Entries

\* What a call does to the file at its path.
FilesOK == /\ file \in [Path -> Contents]
           /\ torn \subseteq Store
           /\ spoiled \subseteq Path
           /\ replaced \in BOOLEAN

Holds(p, c) == /\ file[p] = c /\ p \in spoiled
               /\ p = IndexPath => replaced

LEMMA PutKeeps ==
  ASSUME TypeOK, Inv, NEW p \in Path, NEW c \in Contents,
         Puts(p, c), UNCHANGED <<index, history>>
  PROVE  FilesOK' /\ Holds(p, c)' /\ Entries'
<1>1. FilesOK' /\ Holds(p, c)'
  BY DEF TypeOK, Puts, Store, FilesOK, Holds
<1>2. /\ \A r \in Path \ {p} : file'[r] = file[r]
      /\ spoiled' = spoiled \cup {p}
      /\ replaced => replaced'
  BY DEF TypeOK, Puts
<1>3. \A r \in Path \ spoiled' : file'[r] = file[r]
  BY <1>2
<1>4. file'[IndexPath] = "gone" => file[IndexPath] = "gone" \/ replaced'
  BY <1>1, <1>2, IndexAssumption DEF Holds
<1>5. Entries'
  BY <1>2, <1>3, <1>4, FileStep
<1>6. QED
  BY <1>1, <1>5

LEMMA FillKeeps ==
  ASSUME TypeOK, Inv, NEW p \in Path, NEW c \in Contents, Fills(p, c),
         UNCHANGED history, p \in spoiled, p = IndexPath => replaced
  PROVE  FilesOK' /\ Holds(p, c)' /\ Entries'
<1>1. CASE Puts(p, c) /\ UNCHANGED index
  BY <1>1, PutKeeps
<1>2. CASE ~(Puts(p, c) /\ UNCHANGED index)
  <2>1. /\ p = IndexPath /\ file' = [file EXCEPT ![p] = c] /\ replaced /\ replaced'
        /\ torn' = torn \ {"datasets"} /\ UNCHANGED <<spoiled, replaced>>
    BY <1>2 DEF Fills
  <2>2. FilesOK' /\ Holds(p, c)'
    BY <2>1 DEF TypeOK, FilesOK, Holds
  <2>3. \A r \in Path \ spoiled' : file'[r] = file[r]
    BY <2>1
  <2>4. Entries'
    BY <2>1, <2>3, FileStep
  <2>5. QED
    BY <2>2, <2>4
<1>3. QED
  BY <1>1, <1>2

\* The index after it is filled with an older copy.
LEMMA FilledIndex ==
  ASSUME TypeOK, Inv, NEW p \in Path, NEW c \in Contents, Fills(p, c)
  PROVE  /\ IndexShape' /\ index'.datasets \in Seq(Version)
         /\ index'.artifacts \in Seq(Artifact)
<1>1. CASE UNCHANGED index
  BY <1>1 DEF TypeOK, Inv, IndexShape
<1>2. CASE ~UNCHANGED index
  <2>1. PICK n \in 0..Len(history) :
          index' = [index EXCEPT !.datasets = SubSeq(history, 1, n)]
    BY <1>2 DEF Fills
  <2>2. SubSeq(history, 1, n) \in Seq(Version)
    <3>1. Len(history) \in Nat /\ history \in Seq(Version)
      BY LenProperties DEF TypeOK
    <3>2. \A i \in 1..n : history[i] \in Version
      BY <3>1, ElementOfSeq
    <3>3. QED
      BY <3>1, <3>2, SubSeqProperties
  <2>3. QED
    BY <2>1, <2>2 DEF TypeOK, Inv, IndexShape, Store
<1>3. QED
  BY <1>1, <1>2

-----------------------------------------------------------------------------
(***************************************************************************)
(* The steps of the calls.                                                 *)
(***************************************************************************)
LEMMA UploadKeeps ==
  ASSUME TypeOK, Inv, NEW n \in Name, NEW p \in Path, NEW d \in Content, Upload(n, p, d)
  PROVE  TypeOK' /\ Inv'
<1>1. /\ Puts(p, "part") /\ "part" \in Contents /\ step' = "writing"
      /\ task' = [name |-> n, path |-> p, data |-> d]
      /\ UNCHANGED <<index, next, history>>
  BY DEF Upload, Truncate, Contents, Begin
<1>2. FilesOK' /\ Holds(p, "part")' /\ Entries'
  BY <1>1, PutKeeps
<1>3. task' \in Task /\ task'.path = p /\ task'.data = d
  BY <1>1 DEF Task
<1>4. TypeOK'
  BY <1>1, <1>2, <1>3 DEF TypeOK, FilesOK
<1>5. Working'
  BY <1>1, <1>2, <1>3 DEF Working, Uploading, OnFile, Holds
<1>6. IndexShape' /\ Extending'
  BY <1>1 DEF Inv, IndexShape, Extending
<1>7. QED
  BY <1>2, <1>4, <1>5, <1>6 DEF Inv

LEMMA FetchKeeps ==
  ASSUME TypeOK, Inv, NEW n \in Name, NEW p \in Path, NEW d \in Content, Fetch(n, p, d)
  PROVE  TypeOK' /\ Inv'
<1>1. TypeOK'
  BY DEF TypeOK, Fetch, Begin, Task
<1>2. Entries'
  BY FileStep DEF Fetch
<1>3. Working'
  BY DEF Working, Uploading, OnFile, Fetch, Begin, Task
<1>4. IndexShape' /\ Extending'
  BY DEF Inv, IndexShape, Extending, Fetch, Begin
<1>5. QED
  BY <1>1, <1>2, <1>3, <1>4 DEF Inv

LEMMA FetchOpensKeeps ==
  ASSUME TypeOK, Inv, FetchOpens
  PROVE  TypeOK' /\ Inv'
<1>1. task \in Task /\ task.path \in Path /\ task.data \in Content
  BY DEF Inv, Working, Uploading, FetchOpens, Goes, Task
<1>2. PICK p \in Path : p = task.path
  BY <1>1
<1>3. /\ Puts(p, "part") /\ "part" \in Contents /\ step' = "fetching"
      /\ UNCHANGED <<index, task, next, history>>
  BY <1>2 DEF FetchOpens, Truncate, Contents, Goes
<1>4. FilesOK' /\ Holds(p, "part")' /\ Entries'
  BY <1>3, PutKeeps
<1>5. TypeOK'
  BY <1>3, <1>4 DEF TypeOK, FilesOK
<1>6. Working'
  BY <1>1, <1>2, <1>3, <1>4 DEF Working, Uploading, OnFile, Holds
<1>7. IndexShape' /\ Extending'
  BY <1>3 DEF Inv, IndexShape, Extending
<1>8. QED
  BY <1>4, <1>5, <1>6, <1>7 DEF Inv

LEMMA WritingKeeps ==
  ASSUME TypeOK, Inv, Written \/ FetchEnds
  PROVE  TypeOK' /\ Inv'
<1>1. /\ task \in Task /\ task.path \in Path /\ task.data \in Content
      /\ task.path \in spoiled
      /\ task.path = IndexPath => replaced
  BY DEF Inv, Working, Uploading, OnFile, Written, FetchEnds, Goes, Task
<1>2. PICK p \in Path : p = task.path
  BY <1>1
<1>3. PICK c \in Content \cup {"cut"} : Fills(p, c)
  BY <1>1, <1>2 DEF Written, FetchEnds
<1>4. c \in Contents /\ Complete(c)
  BY DEF Contents, Complete
<1>5. step' = "register" /\ UNCHANGED <<task, next, history>>
  BY DEF Written, FetchEnds, Goes
<1>6. FilesOK' /\ Holds(p, c)' /\ Entries'
  BY <1>1, <1>2, <1>3, <1>4, <1>5, FillKeeps
<1>7. /\ IndexShape' /\ index'.datasets \in Seq(Version)
      /\ index'.artifacts \in Seq(Artifact)
  BY <1>3, <1>4, FilledIndex
<1>8. TypeOK'
  BY <1>5, <1>6, <1>7 DEF TypeOK, FilesOK
<1>9. Working'
  BY <1>1, <1>2, <1>4, <1>5, <1>6 DEF Working, Uploading, OnFile, Complete, Holds
<1>10. Extending'
  BY <1>5 DEF Extending
<1>11. QED
  BY <1>6, <1>7, <1>8, <1>9, <1>10 DEF Inv

\* A call ends, having put what it put at its path.
LEMMA EndsKeeps ==
  ASSUME TypeOK, Inv, FetchFails \/ Converted
  PROVE  TypeOK' /\ Inv'
<1>1. task \in Task /\ task.path \in Path
  BY DEF Inv, Working, Uploading, FetchFails, Converted, Leave, Task
<1>2. PICK p \in Path : p = task.path
  BY <1>1
<1>3. PICK c \in Contents : Puts(p, c)
  BY <1>2 DEF FetchFails, Converted, Contents
<1>4. step' = "idle" /\ task' = NoTask /\ next' = <<>> /\ UNCHANGED <<index, history>>
  BY DEF FetchFails, Converted, Leave
<1>5. <<>> \in Seq(Version)
  BY EmptySeq
<1>6. FilesOK' /\ Entries'
  BY <1>3, <1>4, PutKeeps
<1>7. TypeOK'
  BY <1>4, <1>5, <1>6 DEF TypeOK, FilesOK
<1>8. IndexShape' /\ Working' /\ Extending'
  BY <1>4 DEF Inv, IndexShape, Working, Uploading, OnFile, Extending
<1>9. QED
  BY <1>6, <1>7, <1>8 DEF Inv

\* A call returns or breaks off, and the process dies or starts, with the
\* files and the index as they are.
LEMMA LeavesKeeps ==
  ASSUME TypeOK, Inv, step' \in {"idle", "down"},
         task' \in {task, NoTask}, next' \in {next, <<>>},
         UNCHANGED <<file, index, torn, history, spoiled, replaced>>
  PROVE  TypeOK' /\ Inv'
<1>1. <<>> \in Seq(Version)
  BY EmptySeq
<1>2. TypeOK'
  BY <1>1 DEF TypeOK
<1>3. Entries'
  BY FileStep
<1>4. IndexShape' /\ Working' /\ Extending'
  BY DEF Inv, IndexShape, Working, Uploading, OnFile, Extending
<1>5. QED
  BY <1>2, <1>3, <1>4 DEF Inv

LEMMA ConvertKeeps ==
  ASSUME TypeOK, Inv, NEW i \in DOMAIN index.datasets, NEW p \in Path, Convert(i, p)
  PROVE  TypeOK' /\ Inv'
<1>1. index.datasets[i] \in Version
  BY ElementOfSeq, LenProperties DEF TypeOK
<1>2. PICK n \in Name : n = index.datasets[i].name
  BY <1>1 DEF Version
<1>3. /\ Puts(p, "part") /\ "part" \in Contents /\ step' = "converting"
      /\ task' = [name |-> n, path |-> p, data |-> "json"]
      /\ UNCHANGED <<index, next, history>>
  BY <1>2 DEF Convert, Truncate, Contents, Begin
<1>4. FilesOK' /\ Holds(p, "part")' /\ Entries'
  BY <1>3, PutKeeps
<1>5. task' \in Task /\ task'.path = p
  BY <1>3 DEF Task
<1>6. TypeOK'
  BY <1>3, <1>4, <1>5 DEF TypeOK, FilesOK
<1>7. Working'
  BY <1>3, <1>4, <1>5 DEF Working, Uploading, OnFile, Holds
<1>8. IndexShape' /\ Extending'
  BY <1>3 DEF Inv, IndexShape, Extending
<1>9. QED
  BY <1>4, <1>6, <1>7, <1>8 DEF Inv

\* The index file is gone only because a call unlinked it.
LEMMA RestartKeeps ==
  ASSUME TypeOK, Inv, Restart
  PROVE  TypeOK' /\ Inv'
<1>1. CASE file[IndexPath] = "gone"
  <2>1. /\ file' = [file EXCEPT ![IndexPath] = "index"]
        /\ index' = [index EXCEPT !.datasets = <<>>]
        /\ torn' = torn \ {"datasets"} /\ step' = "idle"
        /\ UNCHANGED <<task, next, history, spoiled, replaced>>
    BY <1>1 DEF Restart, Goes
  <2>2. <<>> \in Seq(Version)
    BY EmptySeq
  <2>3. index' \in [Store -> Seq(Version) \cup Seq(Artifact)] /\ index'.datasets = <<>>
        /\ index'.artifacts = index.artifacts
    BY <2>1, <2>2 DEF Inv, IndexShape, Store
  <2>4. TypeOK'
    BY <2>1, <2>2, <2>3 DEF TypeOK, Contents
  <2>5. replaced'
    BY <1>1, <2>1 DEF Inv, Entries, Indexed
  <2>6. Entries'
    BY <2>1, <2>5, IndexAssumption DEF Inv, TypeOK, Entries, Indexed, RegisteredIsWhole, NewestIntact
  <2>7. IndexShape' /\ Working' /\ Extending'
    BY <2>1, <2>3 DEF IndexShape, Working, Uploading, OnFile, Extending
  <2>8. QED
    BY <2>4, <2>5, <2>6, <2>7 DEF Inv
<1>2. CASE file[IndexPath] # "gone"
  BY <1>2, LeavesKeeps DEF Restart, Goes
<1>3. QED
  BY <1>1, <1>2

-----------------------------------------------------------------------------
(***************************************************************************)
(* The steps on the indexes.                                               *)
(***************************************************************************)
LEMMA RegisterKeeps ==
  ASSUME TypeOK, Inv, Register
  PROVE  TypeOK' /\ Inv'
<1>1. /\ task \in Task /\ task.name \in Name /\ task.path \in Path
      /\ Complete(file[task.path]) /\ step = "register" /\ task.path \in spoiled
      /\ task.path = IndexPath => replaced
  BY DEF Inv, Working, Uploading, OnFile, Register, Goes, Task
<1>2. PICK v \in Version : v = [name |-> task.name, path |-> task.path, sum |-> file[task.path]]
  BY <1>1 DEF Version, TypeOK
<1>3. /\ next' = Append(index.datasets, v) /\ torn' = torn \cup {"datasets"}
      /\ file' = [file EXCEPT ![IndexPath] = "part"] /\ step' = "version"
      /\ UNCHANGED <<index, task, history, spoiled, replaced>>
  BY <1>2 DEF Register, StartIndex, Goes
<1>4. next' \in Seq(Version)
  BY <1>3, AppendOf DEF TypeOK
<1>5. TypeOK'
  BY <1>3, <1>4 DEF TypeOK, Store, Contents
<1>6. Entries'
  <2>1. CASE IndexPath \in spoiled
    BY <1>3, <2>1, FileStep, IndexAssumption DEF TypeOK
  <2>2. CASE IndexPath \notin spoiled
    <3>1. history = <<>> /\ ~replaced => index.datasets = <<>>
      BY <2>2 DEF Inv, Entries, Indexed
    <3>2. DOMAIN <<>> = {}
      BY EmptySeq
    <3>3. NewestIntact'
      <4>1. SUFFICES ASSUME ~replaced', NEW p \in Path \ spoiled', NEW i \in NewestAt(p)'
                     PROVE  FALSE
        BY DEF NewestIntact
      <4>2. index'.datasets = <<>>
        BY <1>3, <2>2, <3>1, <4>1 DEF Inv, Entries, Indexed
      <4>3. i \in DOMAIN index'.datasets
        BY <4>1 DEF NewestAt
      <4>4. QED
        BY <3>2, <4>2, <4>3
    <3>4. Indexed' /\ RegisteredIsWhole'
      BY <1>3, IndexAssumption DEF TypeOK, Inv, Entries, Indexed, RegisteredIsWhole
    <3>5. QED
      BY <3>3, <3>4 DEF Entries
  <2>3. QED
    BY <2>1, <2>2
<1>7. Working'
  BY <1>1, <1>3 DEF Inv, Working, Uploading, OnFile
<1>8. IsNew(v)'
  BY <1>1, <1>2, <1>3 DEF IsNew, TypeOK
<1>9. IndexShape' /\ Extending'
  BY <1>3, <1>8 DEF Inv, IndexShape, Extending
<1>10. QED
  BY <1>5, <1>6, <1>7, <1>9 DEF Inv

LEMMA VersionWrittenKeeps ==
  ASSUME TypeOK, Inv, VersionWritten
  PROVE  TypeOK' /\ Inv'
<1>1. /\ step = "version" /\ task \in Task /\ task.path \in Path /\ task.path \in spoiled
      /\ task.path = IndexPath => replaced
      /\ step' = "idle" /\ task' = NoTask /\ next' = <<>>
      /\ file' = [file EXCEPT ![IndexPath] = "index"]
      /\ spoiled' = (spoiled \ {task.path}) \cup {IndexPath}
      /\ torn' = torn \ {"datasets"} /\ UNCHANGED replaced
  BY DEF Inv, Working, Uploading, OnFile, VersionWritten, Leave, Task
<1>2. PICK q \in Seq(Version) : q = index.datasets
  BY DEF TypeOK
<1>3. PICK v \in Version : next = Append(q, v) /\ IsNew(v)
  BY <1>1, <1>2 DEF Inv, Extending
<1>4. /\ v.path = task.path /\ Complete(v.sum)
      /\ task.path # IndexPath => file[task.path] = v.sum
  BY <1>3 DEF IsNew
<1>5. PICK w : w = next
  OBVIOUS
<1>6. /\ w \in Seq(Version) /\ Len(w) = Len(q) + 1 /\ Len(q) \in Nat
      /\ DOMAIN q = 1..Len(q) /\ DOMAIN w = 1..Len(w)
      /\ \A i \in 1..Len(q) : w[i] = q[i]
      /\ w[Len(q) + 1] = v
  BY <1>3, <1>5, AppendOf
<1>7. /\ index' \in [Store -> Seq(Version) \cup Seq(Artifact)]
      /\ index'.datasets = w /\ index'.artifacts = index.artifacts
  BY <1>5, <1>6 DEF Inv, IndexShape, VersionWritten, Store
<1>8. PICK h \in Seq(Version) : h = history
  BY DEF TypeOK
<1>9. PICK g : g = history'
  OBVIOUS
<1>10. g = Append(h, v)
  <2>1. Last(w) = v
    BY <1>6 DEF Last
  <2>2. QED
    BY <1>5, <1>8, <1>9, <2>1 DEF VersionWritten
<1>11. /\ g \in Seq(Version) /\ Len(g) = Len(h) + 1 /\ Len(h) \in Nat
       /\ DOMAIN h = 1..Len(h) /\ DOMAIN g = 1..Len(g)
       /\ \A i \in 1..Len(h) : g[i] = h[i]
       /\ g[Len(h) + 1] = v
  BY <1>10, AppendOf
<1>12. <<>> \in Seq(Version)
  BY EmptySeq
<1>13. TypeOK'
  <2>1. file' \in [Path -> Contents] /\ spoiled' \subseteq Path /\ torn' \subseteq Store
    BY <1>1, IndexAssumption DEF TypeOK, Contents
  <2>2. index'.datasets \in Seq(Version) /\ index'.artifacts \in Seq(Artifact)
    BY <1>6, <1>7 DEF TypeOK
  <2>3. history' \in Seq(Version) /\ next' \in Seq(Version) \cup Seq(Artifact)
    BY <1>1, <1>9, <1>11, <1>12
  <2>4. QED
    BY <1>1, <2>1, <2>2, <2>3 DEF TypeOK
<1>14. RegisteredIsWhole'
  BY <1>4, <1>8, <1>9, <1>11 DEF Inv, Entries, RegisteredIsWhole, Complete
<1>15. Indexed'
  <2>1. ~replaced => h = q
    BY <1>2, <1>8 DEF Inv, Entries, Indexed
  <2>2. ~replaced => g = w
    BY <1>3, <1>5, <1>10, <2>1
  <2>3. QED
    BY <1>1, <1>7, <1>9, <2>2, IndexAssumption DEF TypeOK, Indexed
<1>16. NewestIntact'
  <2>1. SUFFICES ASSUME ~replaced', NEW p \in Path \ spoiled', NEW i \in NewestAt(p)'
                 PROVE  file'[p] = index'.datasets[i].sum
    BY DEF NewestIntact
  <2>2. ~replaced /\ task.path # IndexPath /\ p # IndexPath /\ file'[p] = file[p]
    BY <1>1, <2>1 DEF TypeOK
  <2>3. /\ i \in 1..Len(w) /\ w[i].path = p
        /\ \A k \in 1..Len(w) : w[k].path = p => k <= i
    BY <1>6, <1>7, <2>1 DEF NewestAt
  <2>4. CASE p = task.path
    <3>1. Len(q) + 1 \in 1..Len(w) /\ w[Len(q) + 1].path = p
      BY <1>4, <1>6, <2>4
    <3>2. i = Len(q) + 1
      BY <1>6, <2>3, <3>1
    <3>3. QED
      BY <1>4, <1>6, <1>7, <2>2, <2>4, <3>2
  <2>5. CASE p # task.path
    <3>1. i \in 1..Len(q)
      BY <1>4, <1>6, <2>3, <2>5
    <3>2. i \in NewestAt(p)
      BY <1>2, <1>6, <2>3, <3>1 DEF NewestAt
    <3>3. p \in Path \ spoiled
      BY <1>1, <2>1, <2>5
    <3>4. file[p] = q[i].sum
      BY <1>2, <2>2, <3>2, <3>3 DEF Inv, Entries, NewestIntact
    <3>5. QED
      BY <1>6, <1>7, <2>2, <3>1, <3>4
  <2>6. QED
    BY <2>4, <2>5
<1>17. IndexShape' /\ Working' /\ Extending'
  BY <1>1, <1>7 DEF IndexShape, Working, Uploading, OnFile, Extending
<1>18. QED
  BY <1>13, <1>14, <1>15, <1>16, <1>17 DEF Inv, Entries

LEMMA RegisterArtifactKeeps ==
  ASSUME TypeOK, Inv, NEW a \in Artifact, RegisterArtifact(a)
  PROVE  TypeOK' /\ Inv'
<1>1. <<>> \in Seq(Artifact)
  BY EmptySeq
<1>2. PICK q \in Seq(Artifact) : next' = Append(q, a)
  BY <1>1 DEF TypeOK, RegisterArtifact, StartIndex
<1>3. next' \in Seq(Artifact)
  BY <1>2, AppendOf
<1>4. TypeOK'
  BY <1>3 DEF TypeOK, RegisterArtifact, Goes, StartIndex, Store
<1>5. Entries'
  BY FileStep DEF RegisterArtifact
<1>6. IndexShape' /\ Working' /\ Extending'
  BY <1>3 DEF Inv, IndexShape, Working, Uploading, OnFile, Extending, RegisterArtifact, Goes
<1>7. QED
  BY <1>4, <1>5, <1>6 DEF Inv

LEMMA ArtifactWrittenKeeps ==
  ASSUME TypeOK, Inv, ArtifactWritten
  PROVE  TypeOK' /\ Inv'
<1>1. next \in Seq(Artifact)
  BY DEF Inv, Extending, ArtifactWritten, Leave
<1>2. /\ index' \in [Store -> Seq(Version) \cup Seq(Artifact)]
      /\ index'.datasets = index.datasets /\ index'.artifacts = next
  BY <1>1 DEF Inv, IndexShape, ArtifactWritten, Store
<1>3. <<>> \in Seq(Version)
  BY EmptySeq
<1>4. TypeOK'
  BY <1>1, <1>2, <1>3 DEF TypeOK, ArtifactWritten, Leave
<1>5. Entries'
  BY <1>2 DEF Inv, Entries, Indexed, RegisteredIsWhole, NewestIntact, NewestAt, ArtifactWritten
<1>6. IndexShape' /\ Working' /\ Extending'
  BY <1>2 DEF IndexShape, Working, Uploading, OnFile, Extending, ArtifactWritten, Leave
<1>7. QED
  BY <1>4, <1>5, <1>6 DEF Inv

-----------------------------------------------------------------------------
(***************************************************************************)
(* Every step.                                                             *)
(***************************************************************************)
LEMMA StepKeeps == TypeOK /\ Inv /\ [Next]_vars => TypeOK' /\ Inv'
<1>1. SUFFICES ASSUME TypeOK, Inv, [Next]_vars PROVE TypeOK' /\ Inv'
  OBVIOUS
<1>2. ASSUME NEW n \in Name, NEW p \in Path, NEW d \in Content, Upload(n, p, d)
      PROVE  TypeOK' /\ Inv'
  BY <1>1, <1>2, UploadKeeps
<1>14. ASSUME NEW n \in Name, NEW p \in Path, NEW d \in Content, Fetch(n, p, d)
       PROVE  TypeOK' /\ Inv'
  BY <1>1, <1>14, FetchKeeps
<1>3. ASSUME NEW p \in Path, NEW i \in DOMAIN index.datasets, Convert(i, p)
      PROVE  TypeOK' /\ Inv'
  BY <1>1, <1>3, ConvertKeeps
<1>4. ASSUME NEW a \in Artifact, RegisterArtifact(a) PROVE TypeOK' /\ Inv'
  BY <1>1, <1>4, RegisterArtifactKeeps
<1>5. CASE Written \/ FetchEnds
  BY <1>1, <1>5, WritingKeeps
<1>15. CASE FetchOpens
  BY <1>1, <1>15, FetchOpensKeeps
<1>6. CASE FetchFails \/ Converted
  BY <1>1, <1>6, EndsKeeps
<1>7. CASE Register
  BY <1>1, <1>7, RegisterKeeps
<1>8. CASE VersionWritten
  BY <1>1, <1>8, VersionWrittenKeeps
<1>9. CASE ArtifactWritten
  BY <1>1, <1>9, ArtifactWrittenKeeps
<1>10. CASE Restart
  BY <1>1, <1>10, RestartKeeps
<1>11. CASE RegisterFails \/ WriteFails \/ Crash
  BY <1>1, <1>11, LeavesKeeps DEF RegisterFails, WriteFails, Crash, Leave
<1>12. CASE UNCHANGED vars
  BY <1>1, <1>12 DEF vars, TypeOK, Inv, IndexShape, Working, Extending, IsNew, Entries,
     Indexed, RegisteredIsWhole, NewestIntact, NewestAt
<1>13. QED
  BY <1>1, <1>2, <1>3, <1>4, <1>5, <1>6, <1>7, <1>8, <1>9, <1>10, <1>11, <1>12, <1>14,
     <1>15 DEF Next

LEMMA StartsRight == Init => TypeOK /\ Inv
<1>1. SUFFICES ASSUME Init PROVE TypeOK /\ Inv
  OBVIOUS
<1>2. <<>> \in Seq(Version) /\ <<>> \in Seq(Artifact) /\ DOMAIN <<>> = {}
  BY EmptySeq
<1>3. index = [st \in Store |-> <<>>] /\ index.datasets = <<>> /\ index.artifacts = <<>>
  BY <1>1 DEF Init, Store
<1>4. TypeOK
  BY <1>1, <1>2, <1>3 DEF Init, TypeOK, Contents
<1>5. IndexShape /\ Working /\ Extending
  BY <1>1, <1>2, <1>3 DEF Init, IndexShape, Working, Uploading, OnFile, Extending
<1>6. Entries
  BY <1>1, <1>2, <1>3, IndexAssumption
  DEF Init, Entries, Indexed, RegisteredIsWhole, NewestIntact, NewestAt
<1>7. QED
  BY <1>4, <1>5, <1>6 DEF Inv

LEMMA Always == Spec => [](TypeOK /\ Inv)
<1>1. QED
  BY StartsRight, StepKeeps, PTL DEF Spec

-----------------------------------------------------------------------------
(***************************************************************************)
(* The theorems.                                                           *)
(***************************************************************************)

(* The files, the indexes and the calls on them keep their types.          *)
THEOREM TypeCorrect == Spec => []TypeOK
<1>1. QED
  BY Always, PTL

(* An index that can be read holds every version that was ever registered, *)
(* in the order in which they were (dataset_manager.py:45-49, 55-67),      *)
(* unless a call wrote or unlinked it as its own path.                     *)
THEOREM VersionsAreKept == Spec => []NothingSilentlyLost
<1>1. ASSUME TypeOK, Inv PROVE NothingSilentlyLost
  <2>1. Len(history) \in Nat
    BY <1>1, LenProperties DEF TypeOK
  <2>2. QED
    BY <1>1, <2>1 DEF Inv, Entries, Indexed, NothingSilentlyLost, IsPrefix
<1>2. QED
  BY <1>1, Always, PTL

(* Only files the server wrote to the end are registered, not those of a   *)
(* download that raised, of a full disk or of a crash; a response that     *)
(* ended early is taken for one that ended.                                *)
THEOREM OnlyWholeFiles == Spec => []RegisteredIsWhole
<1>1. Inv => RegisteredIsWhole
  BY DEF Inv, Entries
<1>2. QED
  BY <1>1, Always, PTL

(* The newest version at a path can be downloaded as it was registered,    *)
(* unless a later write of that path did not end in its registration, or   *)
(* the index has been replaced.                                            *)
THEOREM NewestIsThere == Spec => []NewestIntact
<1>1. Inv => NewestIntact
  BY DEF Inv, Entries
<1>2. QED
  BY <1>1, Always, PTL
=============================================================================
