------------------------------ MODULE Notebooks ------------------------------
(***************************************************************************)
(* colab/notebook_manager.py: a notebook on the server's disk, its cells,  *)
(* and their execution in the kernels of sessions (SessionCalls).          *)
(*                                                                         *)
(* Every call loads the whole file.  Those that write it back empty it     *)
(* first, so that a full disk or a crash leaves a file that cannot be      *)
(* parsed.  Execution blocks the event loop between two cells' runs, but   *)
(* not an editor that has the same file open, nor the kernels, nor the     *)
(* jobs that use them too.                                                 *)
(***************************************************************************)
EXTENDS SessionCalls, SequencesExt

CONSTANTS Text,
          Default,   \* no session_id: each cell gets what is then the default
          NoTool, NoBook, Torn,
          MaxCells   \* bound: cells in a notebook

ASSUME MaxCellsAssumption == MaxCells \in Nat

VARIABLES
  book,      \* the cells in the file, or that there is none, or a torn one
  tool,      \* the current or last call
  step,      \* where it stands
  loaded,    \* the cells it read
  pending,   \* the cells it is writing
  results,   \* the cells whose results it has collected
  outcome,   \* how it ended
  fate       \* history: what became of the cells it sent

nvars == <<runtime, book, tool, step, loaded, pending, results, outcome, fate>>
file == <<book, loaded, pending>>

Cell == [type : {"code", "markdown"}, source : Text]
Cells == SeqOf(Cell, MaxCells)
Position == 1..MaxCells
Index == -1..MaxCells    \* as clients count: from 0

Edits == {"create", "update", "add", "edit", "delete"}
Tool == [op : Edits \cup {"execute_cell", "execute_notebook"}, index : Index,
         session : Session \cup {Default}, first : Id \cup {MaxCalls + 1}]
CellRun == [id : Id, session : Session, kernel : Kernel, at : Position]
Endings == {"value", "raised", "nothing", "unheard"}

ASSUME NoneAssumption == NoTool \notin Tool /\ NoOutput \notin Endings

NTypeOK ==
  /\ CallsTypeOK(CellRun, Endings)
  /\ book \in Cells \cup {NoBook, Torn}
  /\ tool \in Tool \cup {NoTool}
  /\ step \in {"idle", "running", "writing"}
  /\ loaded \in Cells /\ pending \in Cells
  /\ results \in Seq(Position)
  /\ outcome \in {"none", "ok", "error"}
  /\ fate \in [Position -> Endings \cup {"none"}]

Unsent == [k \in Position |-> "none"]

NInit ==
  /\ CallsInit /\ local = {}
  /\ book \in Cells \cup {NoBook, Torn}
  /\ tool = NoTool
  /\ step = "idle"
  /\ loaded = <<>> /\ pending = <<>> /\ results = <<>>
  /\ outcome = "none"
  /\ fate = Unsent

-----------------------------------------------------------------------------
(* A call begins: _load, and then the check of the index.                  *)

Parsed == book \notin {NoBook, Torn}

Enter(op, i, s, to, how) ==
  /\ step = "idle" /\ step' = to
  /\ tool' = [op |-> op, index |-> i, session |-> s, first |-> calls + 1]
  /\ outcome' = how
  /\ loaded' = IF Parsed THEN book ELSE <<>>
  /\ results' = <<>> /\ fate' = Unsent
  /\ UNCHANGED runtime

\* nbformat.write opens the file, which empties it.
Rewrite(op, i, cells) ==
  /\ Enter(op, i, Default, "writing", "none")
  /\ book' = Torn /\ pending' = cells

\* Mutant: the index is not compared with zero.
InRange_Above(i) == i < Len(book)

InRange(i) == 0 <= i /\ i < Len(book)

\* Python counts a negative index from the end.
At(i) == IF i < 0 THEN Len(book) + i + 1 ELSE i + 1

Holds(i, type) == At(i) \in DOMAIN book /\ book[At(i)].type = type

CreateNotebook == Rewrite("create", 0, <<>>)

UpdateNotebook == Parsed /\ \E cells \in Cells : Rewrite("update", 0, cells)

\* No index is an index past the end.
AddCell(i, cell) ==
  /\ Parsed /\ Len(book) < MaxCells
  /\ IF i >= Len(book)
       THEN Rewrite("add", Len(book), Append(book, cell))
       ELSE Rewrite("add", i, InsertAt(book, IF At(i) < 1 THEN 1 ELSE At(i), cell))

EditCell(i, text) ==
  /\ Parsed /\ InRange(i) /\ At(i) \in DOMAIN book
  /\ Rewrite("edit", i, [book EXCEPT ![At(i)].source = text])

DeleteCell(i) ==
  /\ Parsed /\ InRange(i) /\ At(i) \in DOMAIN book
  /\ Rewrite("delete", i, RemoveAt(book, At(i)))

\* No such file, no JSON in it, or no such cell.
Fails(op, i) ==
  /\ op \notin {"edit", "delete", "execute_cell"} => i = 0
  /\ Parsed => op \in {"edit", "delete", "execute_cell"} /\ ~InRange(i)
  /\ Enter(op, i, Default, "idle", "error")
  /\ UNCHANGED <<book, pending>>

-----------------------------------------------------------------------------
(* Execution.                                                              *)

IsCode(k) == loaded[k].type = "code"

Execute(op, i, s) ==
  /\ Parsed /\ (op = "execute_cell" => InRange(i) /\ Holds(i, "code"))
  /\ Enter(op, i, s, "running", "none")
  /\ UNCHANGED <<book, pending>>

SkipCell(i) ==
  /\ Parsed /\ InRange(i) /\ Holds(i, "markdown")
  /\ Enter("execute_cell", i, Default, "idle", "ok")
  /\ UNCHANGED <<book, pending>>

\* The code cells the call has still to run.
ToRun == IF tool.op = "execute_cell"
           THEN IF results = <<>> THEN {tool.index + 1} ELSE {}
           ELSE {k \in DOMAIN loaded : IsCode(k) /\ k \notin ToSet(results)}

RunCell(s) ==
  /\ step = "running" /\ ToRun # {}
  /\ tool.session \in {s, Default}
  /\ Send(s, [id |-> calls + 1, session |-> s, kernel |-> kernel[s], at |-> Min(ToRun)])
  /\ UNCHANGED <<tool, step, results, outcome, fate, file>>

Ends(how) == /\ step' = "idle" /\ outcome' = how /\ pending' = <<>>
             /\ UNCHANGED <<tool, book, loaded>>

\* Mutant: a result is collected although it holds an error.
Accepted_All == Endings

\* execute knows an error by its message: nothing printed is no error, nor is
\* one whose message another caller has taken from the channel.
Accepted == {"value", "nothing", "unheard"}

CellReturns ==
  /\ output \in Accepted
  /\ Reply("ok")
  /\ results' = Append(results, call.at)
  /\ UNCHANGED <<tool, step, outcome, fate, file>>

\* run raises: an error, a timeout; the earlier results go with it.
CellFails ==
  /\ output \notin Accepted
  /\ Reply("error")
  /\ Ends("error") /\ UNCHANGED <<results, fate>>

\* The session is closed, or no default can be made.
NoSession ==
  /\ step = "running" /\ ToRun # {} /\ Refused
  /\ Ends("error") /\ UNCHANGED <<results, fate>>

NotebookDone ==
  /\ step = "running" /\ ~Waiting /\ ToRun = {}
  /\ tool.op = "execute_notebook"
  /\ Ends("ok") /\ UNCHANGED <<results, fate, runtime>>

\* execute_cell writes back the notebook it loaded.
CellDone ==
  /\ step = "running" /\ ~Waiting /\ ToRun = {}
  /\ tool.op = "execute_cell"
  /\ step' = "writing" /\ pending' = loaded /\ book' = Torn
  /\ UNCHANGED <<runtime, tool, loaded, results, outcome, fate>>

-----------------------------------------------------------------------------
(* The disk, its other users, and the process.                             *)

Written ==
  /\ step = "writing"
  /\ book' = pending
  /\ step' = "idle" /\ outcome' = "ok" /\ pending' = <<>>
  /\ UNCHANGED <<runtime, tool, loaded, results, fate>>

WriteFails ==
  /\ step = "writing"
  /\ Ends("error") /\ UNCHANGED <<runtime, results, fate>>

\* Kernels of the server's own die with it.
Crash ==
  /\ step # "idle"
  /\ Ends("none")
  /\ reply' = "none" /\ call' = NoCommand /\ output' = NoOutput
  /\ \E own \in SUBSET Kernel :
       /\ queue' = [k \in Kernel |-> IF k \in own THEN <<>> ELSE queue[k]]
       /\ running' = [k \in Kernel |-> IF k \in own THEN NoCommand ELSE running[k]]
  /\ UNCHANGED <<places, calls, results, fate>>

\* Somebody changes a cell in an editor while execute_cell waits.  At other
\* times a save is like the update that a client sends.
EditorSaves ==
  /\ step = "running" /\ tool.op = "execute_cell"
  /\ Parsed /\ \E k \in DOMAIN book, text \in Text :
       book' = [book EXCEPT ![k].source = text]
  /\ UNCHANGED <<runtime, tool, step, loaded, pending, results, outcome, fate>>

-----------------------------------------------------------------------------
(* The kernels.                                                            *)

\* A cell of the current call, not one that an earlier call gave up.
Mine(c) == c # NoCommand /\ tool # NoTool /\ c.id >= tool.first

CellStarts(k) == Start(k) /\ UNCHANGED <<tool, step, results, outcome, fate, file>>

Marks(how, which) == fate' = [n \in Position |-> IF n \in which THEN how ELSE fate[n]]

CellFinishes(k, how) ==
  /\ Finish(k, how)
  /\ Marks(how, IF Mine(running[k]) THEN {running[k].at} ELSE {})
  /\ UNCHANGED <<queue, tool, step, results, outcome, file>>

CellEnds(k) == CellFinishes(k, "value")
CellRaises(k) == CellFinishes(k, "raised")

\* It raises, and a job's worker on the same backend takes the message.
CellRaisesUnheard(k) == CellFinishes(k, "unheard")

\* What has arrived behind code that raises, an earlier call's or a job's, is
\* answered without being executed.
CellAborts(k) ==
  /\ queue[k] # <<>> /\ ~Mine(running[k])
  /\ running' = [running EXCEPT ![k] = NoCommand]
  /\ queue' = [queue EXCEPT ![k] = <<>>]
  /\ LET mine == {i \in DOMAIN queue[k] : Mine(queue[k][i])} IN
       /\ Marks("nothing", {queue[k][i].at : i \in mine})
       /\ output' = IF Waiting /\ mine # {} THEN "nothing" ELSE output
  /\ UNCHANGED <<places, call, reply, calls, tool, step, results, outcome, file>>

CellDrops(k) == Drop(k) /\ UNCHANGED <<tool, step, results, outcome, fate, file>>

NotebookReconnects(s) == Reconnect(s) /\ UNCHANGED <<tool, step, results, outcome, fate, file>>

-----------------------------------------------------------------------------
Tools ==
  \/ CreateNotebook \/ UpdateNotebook
  \/ \E i \in Index : \/ \E cell \in Cell : AddCell(i, cell)
                      \/ \E text \in Text : EditCell(i, text)
                      \/ DeleteCell(i) \/ SkipCell(i)
                      \/ \E op \in {"update", "add", "edit", "delete",
                                    "execute_cell", "execute_notebook"} : Fails(op, i)
                      \/ \E s \in Session \cup {Default} : Execute("execute_cell", i, s)
  \/ \E s \in Session \cup {Default} : Execute("execute_notebook", 0, s)

Execution == \/ \E s \in Session : RunCell(s)
             \/ CellReturns \/ CellFails \/ NoSession \/ NotebookDone \/ CellDone

Kernels == \/ \E k \in Kernel : \/ CellStarts(k) \/ CellEnds(k) \/ CellRaises(k)
                                \/ CellRaisesUnheard(k) \/ CellAborts(k) \/ CellDrops(k)
           \/ \E s \in Session : NotebookReconnects(s)

NNext == \/ Tools \/ Execution \/ Kernels
         \/ Written \/ WriteFails \/ Crash \/ EditorSaves

NSpec == NInit /\ [][NNext]_nvars

-----------------------------------------------------------------------------
(* What must hold.                                                         *)

(* No cell runs before the code cells above it, of the same call, have run *)
(* to their end, and none after one that failed, timed out or was lost;    *)
(* with the two exceptions that the code makes.  A cell that was queued    *)
(* behind other code that failed counts as run, and so does one that       *)
(* raised while another caller took its error message from the channel     *)
(* (notebook_manager.py:106-110, kernel_client.py:117-122, 139-150).  A    *)
(* call that names its session has all its cells run there.                *)
CellsInOrder ==
  [][\A k \in Kernel :
       CellStarts(k) /\ Mine(running'[k]) =>
         /\ tool.session \in {running'[k].session, Default}
         /\ tool.op = "execute_notebook" =>
              \A n \in 1..(running'[k].at - 1) :
                IsCode(n) => fate[n] \in {"value", "nothing", "unheard"}]_nvars

Renames(old, new) == /\ DOMAIN old = DOMAIN new
                     /\ \A k \in DOMAIN old : old[k].type = new[k].type

(* A finished call has changed the cell it names and no other, and a call  *)
(* for a cell that is not there none at all.  execute_cell leaves what it  *)
(* read, and so takes back what an editor has saved since                  *)
(* (notebook_manager.py:64-101).                                           *)
OnlyAsked ==
  step = "idle" /\ tool # NoTool =>
    /\ outcome = "ok" =>
         CASE tool.op = "add" ->
                \E k \in DOMAIN book : /\ RemoveAt(book, k) = loaded
                                       /\ tool.index >= 0 => k = tool.index + 1
           [] tool.op = "delete" ->
                RemoveAt(loaded, tool.index + 1) = book
           [] tool.op = "edit" ->
                /\ Renames(loaded, book)
                /\ \A k \in DOMAIN book : k # tool.index + 1 => book[k] = loaded[k]
           [] tool.op = "create" -> book = <<>>
           [] tool.op = "execute_cell" -> book = loaded
           [] OTHER -> TRUE
    /\ outcome = "error" /\ Parsed /\ tool.op \in Edits => book = loaded
=============================================================================
