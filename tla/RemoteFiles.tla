----------------------------- MODULE RemoteFiles -----------------------------
(***************************************************************************)
(* colab/remote_fs.py: the files of the runtimes, each operation a snippet *)
(* that prints one marked line of JSON when it is done.                    *)
(*                                                                         *)
(* A snippet goes to the disk several times: it looks at a path, opens it, *)
(* reads or writes and prints.  In between it may raise, its kernel may be *)
(* interrupted, restarted or die, and the snippet of another kernel on the *)
(* same disk may change what it has seen: one call is served at a time,    *)
(* but a call that has given up leaves its snippet in the kernel it was    *)
(* sent to.  The code users execute is taken to leave these files alone.   *)
(***************************************************************************)
EXTENDS SessionCalls

CONSTANTS Path, NoPath,
          Content,  \* what is written: text, so that a read shows it as it is
          Large     \* the contents whose JSON exceeds MAX_OUTPUT_BYTES

ASSUME LargeAssumption == Large \subseteq Content
ASSUME NoPathAssumption == NoPath \notin Path

VARIABLES
  disk,     \* what a place's workspace holds at a path
  stage,    \* where the snippet of a kernel stands
  handle,   \* the path of the file it has open, NoPath if that has lost its name
  seen,     \* what it has read, or moved
  clashed   \* history: kernels whose snippet others have come between

snippet == <<stage, handle, seen, clashed>>
vars == <<runtime, disk, snippet>>

\* To the disk a download is a read, and a list makes the directory it lists.
Writes == {"upload", "write"}
Ops == Writes \cup {"read", "mkdir", "delete", "move"}

Stored == Content \cup {"none", "part", "dir"}
Command == [id : Id, op : Ops, kernel : Kernel, path : Path, to : Path \cup {NoPath},
            data : Content \cup {"none"}]

\* shown is what a read prints or what a move moves, "cut" if it is too long;
\* after the workspace when the snippet printed.
Output == [done : BOOLEAN, shown : Stored \cup {"cut"}, after : [Path -> Stored],
           clash : BOOLEAN]

\* "dir" and "other" are what os.path.isdir has answered.
Stages == {"begun", "dir", "other", "open", "printing"}

TypeOK ==
  /\ CallsTypeOK(Command, Output)
  /\ disk \in [Place -> [Path -> Stored]]
  /\ stage \in [Kernel -> Stages]
  /\ handle \in [Kernel -> Path \cup {NoPath}]
  /\ seen \in [Kernel -> Stored]
  /\ clashed \subseteq Kernel

Init ==
  /\ CallsInit
  /\ disk = [h \in Place |-> [p \in Path |-> "none"]]
  /\ stage = [k \in Kernel |-> "begun"]
  /\ handle = [k \in Kernel |-> NoPath]
  /\ seen = [k \in Kernel |-> "none"]
  /\ clashed = {}

-----------------------------------------------------------------------------
(* The calls.                                                              *)

Ask(op, s, p, q, d) ==
  /\ Send(s, [id |-> calls + 1, op |-> op, kernel |-> kernel[s], path |-> p, to |-> q,
              data |-> d])
  /\ UNCHANGED <<disk, snippet>>

Store(s, p, d) == \E op \in Writes : Ask(op, s, p, NoPath, d)
Show(s, p) == Ask("read", s, p, NoPath, "none")
Directory(s, p) == Ask("mkdir", s, p, NoPath, "none")
DeleteFile(s, p) == Ask("delete", s, p, NoPath, "none")
MoveFile(s, p, q) == Ask("move", s, p, q, "none")

\* _safe_join refuses the path, or upload_file the size.
Reject == Refused /\ UNCHANGED <<disk, snippet>>

Reconnects(s) == Reconnect(s) /\ UNCHANGED <<disk, snippet>>

-----------------------------------------------------------------------------
(* The snippets.                                                           *)

Here(k) == disk[Home(k)]

Begins(k) == Start(k) /\ UNCHANGED <<disk, snippet>>

\* A snippet for one of ops is at a stage, and goes on to the next.
At(k, ops, from) ==
  running[k] # NoCommand /\ running[k].op \in ops /\ stage[k] = from

To(k, ops, from, to) == At(k, ops, from) /\ stage' = [stage EXCEPT ![k] = to]

\* The others under way on the disk of k with one of the paths.
Meets(k, paths) ==
  {j \in Kernel \ {k} : /\ Home(j) = Home(k) /\ stage[j] # "begun"
                        /\ {running[j].path, running[j].to} \cap paths # {}}

Changes(k, paths, after) ==
  /\ disk' = [disk EXCEPT ![Home(k)] = after]
  /\ clashed' = clashed \cup Meets(k, paths)

Differ(k, after) == {p \in Path : after[p] # Here(k)[p]}

\* The files that are open stay open when their names change or go.
Rename(k, names) ==
  handle' = [j \in Kernel |->
    IF Home(j) = Home(k) /\ handle[j] \in DOMAIN names THEN names[handle[j]] ELSE handle[j]]

\* Opening a file to write it empties it.
Opens(k) ==
  LET p == running[k].path IN
  /\ To(k, Writes, "begun", "open") /\ Here(k)[p] # "dir"
  /\ Changes(k, {p}, [Here(k) EXCEPT ![p] = "part"])
  /\ handle' = [handle EXCEPT ![k] = p]
  /\ UNCHANGED <<runtime, seen>>

\* What is left of a file that others write meanwhile may be a mixture.
Fills(k) ==
  LET at == {handle[k]} \ {NoPath} IN
  /\ To(k, Writes, "open", "printing")
  /\ \E new \in {running[k].data} \cup IF k \in clashed THEN {"part"} ELSE {} :
       Changes(k, at, [p \in Path |-> IF p \in at THEN new ELSE Here(k)[p]])
  /\ UNCHANGED <<runtime, handle, seen>>

OpensToRead(k) ==
  LET p == running[k].path IN
  /\ To(k, {"read"}, "begun", "open") /\ Here(k)[p] \notin {"none", "dir"}
  /\ handle' = [handle EXCEPT ![k] = p]
  /\ UNCHANGED <<runtime, disk, seen, clashed>>

Reading(k) ==
  /\ To(k, {"read"}, "open", "printing")
  /\ \E held \in IF k \in clashed THEN Content \cup {"part"} ELSE {Here(k)[handle[k]]} :
       seen' = [seen EXCEPT ![k] = held]
  /\ UNCHANGED <<runtime, disk, handle, clashed>>

\* delete_file looks whether it deletes a directory, shutil.move whether it
\* moves into one.
Looks(k) ==
  LET c == running[k]
      p == IF c.op = "move" THEN c.to ELSE c.path
  IN
  /\ At(k, {"delete", "move"}, "begun")
  /\ stage' = [stage EXCEPT ![k] = IF Here(k)[p] = "dir" THEN "dir" ELSE "other"]
  /\ UNCHANGED <<runtime, disk, handle, seen, clashed>>

\* rmtree raises if there is no directory any more, remove if there is one.
Deleting(k) ==
  LET p == running[k].path
      after == [Here(k) EXCEPT ![p] = "none"]
  IN
  /\ \E from \in {"dir", "other"} : /\ To(k, {"delete"}, from, "printing")
                                    /\ from = "dir" <=> Here(k)[p] = "dir"
  /\ Changes(k, Differ(k, after), after)
  /\ Rename(k, [x \in {p} |-> NoPath])
  /\ UNCHANGED <<runtime, seen>>

MakingDirectory(k) ==
  LET p == running[k].path
      after == [Here(k) EXCEPT ![p] = "dir"]
  IN
  /\ To(k, {"mkdir"}, "begun", "printing") /\ Here(k)[p] \in {"none", "dir"}
  /\ Changes(k, Differ(k, after), after)
  /\ UNCHANGED <<runtime, handle, seen>>

\* shutil.move puts a file into a directory that is there, and no directory in
\* the place of a file.  Into a directory that has gone it moves directories.
Moving(k) ==
  LET p == running[k].path
      q == running[k].to
      held == Here(k)[p]
      inside == Here(k)[q] = "dir"
      after == [Here(k) EXCEPT ![p] = "none", ![q] = IF inside THEN "dir" ELSE held]
  IN
  /\ \E from \in {"dir", "other"} :
       /\ To(k, {"move"}, from, "printing") /\ p # q /\ held # "none"
       /\ held = "dir" => Here(k)[q] \in {"none", "dir"}
       /\ from = "dir" /\ held # "dir" => inside
  /\ Changes(k, {p} \cup IF inside THEN {} ELSE {q}, after)
  /\ Rename(k, [x \in {p, q} |-> IF x = p /\ ~inside THEN q ELSE NoPath])
  /\ seen' = [seen EXCEPT ![k] = held]
  /\ UNCHANGED runtime

-----------------------------------------------------------------------------
(* The end of a snippet.                                                   *)

Cut(c) == IF c \in Large THEN "cut" ELSE c

Result(k, done) ==
  [done |-> done, shown |-> Cut(seen[k]), after |-> Here(k), clash |-> k \in clashed]

\* Of a kernel whose snippet is over there is nothing more to tell.
Rests(k) ==
  /\ stage' = [stage EXCEPT ![k] = "begun"]
  /\ handle' = [handle EXCEPT ![k] = NoPath]
  /\ seen' = [seen EXCEPT ![k] = "none"]
  /\ clashed' = clashed \ {k}

\* upload_file asks for the size by name, and raises if there is none.
Prints(k) ==
  /\ At(k, Ops, "printing")
  /\ running[k].op = "upload" => Here(k)[running[k].path] # "none"
  /\ Finish(k, Result(k, TRUE)) /\ Rests(k)
  /\ UNCHANGED <<queue, disk>>

NotFound(k) ==
  /\ At(k, {"read"}, "begun") /\ Here(k)[running[k].path] = "none"
  /\ Finish(k, Result(k, FALSE)) /\ Rests(k)
  /\ UNCHANGED <<queue, disk>>

\* A snippet that raises prints no line.
Raises(k) ==
  /\ Finish(k, Result(k, FALSE)) /\ Rests(k)
  /\ Abort(k) /\ UNCHANGED disk

Drops(k) == Drop(k) /\ Rests(k) /\ UNCHANGED disk

-----------------------------------------------------------------------------
(* The end of a call.                                                      *)

\* Mutant: what is there of a line that was cut off is taken for all of it.
Understood_Cut == output.done

\* There is a marked line, its JSON is whole, and it says ok.
Understood == output.done /\ output.shown # "cut"

Answer ==
  /\ output # NoOutput
  /\ Reply(IF Understood THEN "ok" ELSE "error")
  /\ UNCHANGED <<disk, snippet>>

\* Mutant: a call that timed out is sent again.
GiveUp_Retries ==
  /\ Waiting
  /\ queue' = [queue EXCEPT ![call.kernel] = Append(@, call)]
  /\ UNCHANGED <<places, running, call, output, reply, calls, disk, snippet>>

\* The call times out, or another thread took the line from the channel.
GiveUp == Reply("error") /\ UNCHANGED <<disk, snippet>>

-----------------------------------------------------------------------------
Calls(s) == \/ \E p \in Path : \/ \E d \in Content : Store(s, p, d)
                               \/ \E q \in Path \ {p} : MoveFile(s, p, q)
                               \/ Show(s, p) \/ Directory(s, p) \/ DeleteFile(s, p)
            \/ Reconnects(s)

Snippet(k) == \/ Begins(k) \/ Opens(k) \/ Fills(k) \/ OpensToRead(k) \/ Reading(k)
              \/ Looks(k) \/ Deleting(k) \/ MakingDirectory(k) \/ Moving(k)
              \/ Prints(k) \/ NotFound(k) \/ Raises(k) \/ Drops(k)

Next == \/ \E s \in Session : Calls(s)
        \/ \E k \in Kernel : Snippet(k)
        \/ Reject \/ Answer \/ GiveUp

Spec == Init /\ [][Next]_vars

-----------------------------------------------------------------------------
(* What must hold.                                                         *)

Holds(c, o) ==
  CASE c.op \in Writes -> o.after[c.path] = c.data
    [] c.op = "read"   -> o.after[c.path] = o.shown
    [] c.op = "delete" -> o.after[c.path] = "none"
    [] c.op = "mkdir"  -> o.after[c.path] = "dir"
    [] c.op = "move"   -> /\ o.after[c.path] = "none"
                          /\ o.after[c.to] \in {o.shown, "dir"}

(* A call that answers ok did what it was asked, still so when its snippet *)
(* printed, and showed a file whole, whatever was left behind by calls     *)
(* that gave up and by kernels that dropped.  Excepted is a snippet during *)
(* which another kernel on the same disk changed its path: then a read may *)
(* show, and a write leave, a mixture, and ok is answered                  *)
(* (remote_fs.py:35-43, 57-59, 67-72, 94-96, 119-123).                     *)
OkMeansDone == reply = "ok" => output.clash \/ Holds(call, output)

(* When a call has answered ok, nothing that was sent to its kernel before *)
(* is still to happen there: no write that had timed out comes late over   *)
(* one the same kernel has acknowledged after it.  What a session's former *)
(* kernel still runs after a reconnect is another matter                   *)
(* (session_manager.py:119-125): nothing waits for that.                   *)
OkSettles ==
  reply = "ok" => /\ running[call.kernel] = NoCommand
                  /\ queue[call.kernel] = <<>>
=============================================================================
