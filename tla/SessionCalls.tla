---------------------------- MODULE SessionCalls ----------------------------
(***************************************************************************)
(* colab/execution_manager.py as the managers see it that work by snippets *)
(* of Python: a call sends one command to the kernel of a session and      *)
(* waits for what it prints.                                               *)
(*                                                                         *)
(* Commands run in the order in which the kernel got them: after what is   *)
(* still running there, and also when the call that sent them has given    *)
(* up.  Calls come one at a time, from the event loop.  A session may get  *)
(* another kernel at any time; the one it had keeps what it has.           *)
(***************************************************************************)
EXTENDS Naturals, Sequences

CONSTANTS Session, Kernel, NoCommand, NoOutput,
          MaxCalls   \* bound: calls in a behaviour

ASSUME MaxCallsAssumption == MaxCalls \in Nat

VARIABLES
  local,      \* kernels that share disk and Python with the server
  kernel,     \* the kernel behind a session's backend
  queue,      \* commands a kernel has not started
  running,    \* the command it runs
  call,       \* the current or last call
  output,     \* what its command printed
  reply,      \* how it ended
  calls       \* how many there were

places == <<local, kernel>>
runtime == <<places, queue, running, call, output, reply, calls>>

Id == 0..MaxCalls
Place == Kernel \cup {"server"}
Home(k) == IF k \in local THEN "server" ELSE k

CallsTypeOK(Command, Output) ==
  /\ local \subseteq Kernel
  /\ kernel \in [Session -> Kernel]
  /\ queue \in [Kernel -> Seq(Command)]
  /\ running \in [Kernel -> Command \cup {NoCommand}]
  /\ call \in Command \cup {NoCommand}
  /\ output \in Output \cup {NoOutput}
  /\ reply \in {"none", "waiting", "ok", "error"}
  /\ calls \in Id

CallsInit ==
  /\ local \in SUBSET Kernel
  /\ kernel \in [Session -> Kernel]
  /\ queue = [k \in Kernel |-> <<>>]
  /\ running = [k \in Kernel |-> NoCommand]
  /\ call = NoCommand /\ output = NoOutput
  /\ reply = "none"
  /\ calls = 0

Waiting == reply = "waiting"

-----------------------------------------------------------------------------
(* The event loop.                                                         *)

MayCall == ~Waiting /\ calls < MaxCalls

Send(s, c) ==
  /\ MayCall
  /\ calls' = calls + 1
  /\ call' = c
  /\ queue' = [queue EXCEPT ![kernel[s]] = Append(@, c)]
  /\ reply' = "waiting" /\ output' = NoOutput
  /\ UNCHANGED <<places, running>>

\* The manager raises before it has sent anything.
Refused ==
  /\ MayCall
  /\ calls' = calls + 1
  /\ call' = NoCommand /\ reply' = "error" /\ output' = NoOutput
  /\ UNCHANGED <<places, queue, running>>

Reply(how) ==
  /\ Waiting
  /\ reply' = how
  /\ output' = IF how = "ok" THEN output ELSE NoOutput
  /\ UNCHANGED <<places, queue, running, call, calls>>

\* A new kernel was launched, or that of a connection file attached to; what
\* the session had before runs on.  A call that waits does so on the old one.
Reconnect(s) ==
  /\ \E k \in Kernel : kernel' = [kernel EXCEPT ![s] = k]
  /\ UNCHANGED <<local, queue, running, call, output, reply, calls>>

-----------------------------------------------------------------------------
(* The kernels.                                                            *)

Start(k) ==
  /\ running[k] = NoCommand /\ queue[k] # <<>>
  /\ queue' = [queue EXCEPT ![k] = Tail(@)]
  /\ running' = [running EXCEPT ![k] = Head(queue[k])]
  /\ UNCHANGED <<places, call, output, reply, calls>>

\* The kernel reports to the call that waits; execute drops what is printed
\* for a call that is over.
Reports(c, result) ==
  output' = IF Waiting /\ call.id = c.id THEN result ELSE output

Finish(k, result) ==
  /\ running[k] # NoCommand
  /\ Reports(running[k], result)
  /\ running' = [running EXCEPT ![k] = NoCommand]
  /\ UNCHANGED <<places, call, reply, calls>>

\* Behind code that raises, what has arrived is not executed.
Abort(k) == queue' \in {queue, [queue EXCEPT ![k] = <<>>]}

\* The kernel is interrupted, restarted or dies.
Drop(k) ==
  /\ running[k] # NoCommand \/ queue[k] # <<>>
  /\ running' = [running EXCEPT ![k] = NoCommand]
  /\ Abort(k)
  /\ UNCHANGED <<places, call, output, reply, calls>>
=============================================================================
