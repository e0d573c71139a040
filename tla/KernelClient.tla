---------------------------- MODULE KernelClient ----------------------------
(***************************************************************************)
(* colab/kernel_client.py: executions on one JupyterKernelBackend.         *)
(*                                                                         *)
(* The event loop and the workers of training jobs may execute code on the *)
(* same session, so the callers share one kernel, which serves requests in *)
(* order, and one queue of iopub messages, from which each caller takes    *)
(* the next message and throws it away when it answers another request.    *)
(*                                                                         *)
(* restart replaces kernel and client in steps, without a lock: workers    *)
(* execute and wait beside it.  The new kernel listens where the old one   *)
(* did, so a worker still blocked in a get of the former client hears it.  *)
(***************************************************************************)
EXTENDS Naturals, Sequences

CONSTANTS Caller,       \* threads that execute code on this backend
          Loop,         \* the event loop, which may be one of them
          MaxRequests,  \* bound: executions in a behaviour
          MaxOutputs    \* bound: outputs of one execution, its error apart

ASSUME BoundAssumption == MaxRequests \in Nat /\ MaxOutputs \in Nat

VARIABLES
  owned,      \* _owns_kernel: started here, not attached by a connection_file
  connected,  \* is_connected
  shell,      \* requests the kernel has not started
  current,    \* the request the kernel executes, 0 if none
  iopub,      \* messages published and not yet taken
  emitted,    \* how many outputs the kernel published for a request
  requests,   \* how many requests were sent; the last one's msg_id
  pc,         \* where a caller stands in execute, or how its last one ended
  msgId,      \* the msg_id it waits for
  got,        \* the outputs it collected
  lost,       \* history: requests of which another caller took a message
  fate,       \* history: what the kernel made of a request
  stage,      \* how far a restart is: the kernel killed, the client swapped
  behind,     \* callers blocked in a get of the client before the swap
  former,     \* messages that client received since
  during      \* history: requests sent while a restart was under way

vars == <<owned, connected, shell, current, iopub, emitted, requests, pc, msgId,
          got, lost, fate, stage, behind, former, during>>

\* What a restart under way adds to the state.
restart == <<stage, behind, former, during>>

Request == 1..MaxRequests
Kinds == {"out", "error", "idle"}
Message == [id : Request, n : 0..(MaxOutputs + 1), kind : Kinds]

\* What execute keeps: the status messages are not for its caller.
Outputs == [id : Request, n : 1..(MaxOutputs + 1), kind : Kinds \ {"idle"}]

TypeOK ==
  /\ owned \in BOOLEAN
  /\ connected \in BOOLEAN
  /\ shell \in Seq(Request)
  /\ current \in 0..MaxRequests
  /\ iopub \in Seq(Message)
  /\ emitted \in [Request -> 0..(MaxOutputs + 1)]
  /\ requests \in 0..MaxRequests
  /\ pc \in [Caller -> {"new", "waiting", "ok", "error", "timeout", "raised"}]
  /\ msgId \in [Caller -> 0..MaxRequests]
  /\ got \in [Caller -> Seq(Outputs)]
  /\ lost \subseteq Request
  /\ fate \in [Request -> {"none", "ran", "raised", "aborted"}]
  /\ stage \in {"none", "killed", "swapped"}
  /\ behind \subseteq Caller
  /\ former \in Seq(Message)
  /\ during \subseteq Request

Init ==
  /\ owned \in BOOLEAN
  /\ connected = TRUE
  /\ shell = <<>>
  /\ current = 0
  /\ iopub = <<>>
  /\ emitted = [r \in Request |-> 0]
  /\ requests = 0
  /\ pc = [c \in Caller |-> "new"]
  /\ msgId = [c \in Caller |-> 0]
  /\ got = [c \in Caller |-> <<>>]
  /\ lost = {}
  /\ fate = [r \in Request |-> "none"]
  /\ stage = "none" /\ behind = {} /\ former = <<>> /\ during = {}

EndCall(c, how) == /\ pc[c] = "waiting"
                   /\ pc' = [pc EXCEPT ![c] = how]

-----------------------------------------------------------------------------
(* The kernel: one request at a time, its outputs, then its idle status.   *)
(* An error is the last output, and aborts the requests that have arrived  *)
(* behind it (execute leaves stop_on_error at its default): the kernel     *)
(* answers those with an idle status and never runs them.                  *)

\* During a restart the client may not have found the new kernel yet.  The
\* former client finds it as well.
Publish(messages) ==
  /\ \/ iopub' = iopub \o messages
     \/ stage # "none" /\ iopub' = iopub
  /\ former' = IF behind = {} THEN former ELSE former \o messages
  /\ UNCHANGED <<stage, behind, during>>

KernelStarts ==
  /\ current = 0 /\ shell # <<>>
  /\ current' = Head(shell)
  /\ shell' = Tail(shell)
  /\ UNCHANGED <<owned, connected, iopub, emitted, requests, pc, msgId, got, lost, fate, restart>>

Output(kind) == [id |-> current, n |-> emitted[current] + 1, kind |-> kind]
IdleStatus(r) == [id |-> r, n |-> 0, kind |-> "idle"]

KernelPublishes ==
  /\ current # 0 /\ emitted[current] < MaxOutputs
  /\ Publish(<<Output("out")>>)
  /\ emitted' = [emitted EXCEPT ![current] = @ + 1]
  /\ UNCHANGED <<owned, connected, shell, current, requests, pc, msgId, got, lost, fate>>

KernelFinishes ==
  /\ current # 0
  /\ Publish(<<IdleStatus(current)>>)
  /\ fate' = [fate EXCEPT ![current] = "ran"]
  /\ current' = 0
  /\ UNCHANGED <<owned, connected, shell, emitted, requests, pc, msgId, got, lost>>

Aborts(waiting) ==
  /\ Publish(<<Output("error"), IdleStatus(current)>>
               \o [i \in DOMAIN waiting |-> IdleStatus(waiting[i])])
  /\ fate' = [r \in Request |-> IF r = current THEN "raised"
                               ELSE IF \E i \in DOMAIN waiting : waiting[i] = r
                                      THEN "aborted" ELSE fate[r]]

KernelRaises ==
  /\ current # 0
  /\ \E n \in 0..Len(shell) : /\ Aborts(SubSeq(shell, 1, n))
                             /\ shell' = SubSeq(shell, n + 1, Len(shell))
  /\ emitted' = [emitted EXCEPT ![current] = @ + 1]
  /\ current' = 0

KernelFails ==
  /\ KernelRaises
  /\ UNCHANGED <<owned, connected, requests, pc, msgId, got, lost>>

-----------------------------------------------------------------------------
(* JupyterKernelBackend.execute.                                           *)

\* The event loop serves no other call before restart returns.
Execute(c) ==
  /\ pc[c] # "waiting"
  /\ connected /\ (c = Loop => stage = "none")
  /\ requests < MaxRequests
  /\ requests' = requests + 1
  /\ shell' = Append(shell, requests + 1)
  /\ during' = IF stage = "none" THEN during ELSE during \cup {requests + 1}
  /\ msgId' = [msgId EXCEPT ![c] = requests + 1]
  /\ got' = [got EXCEPT ![c] = <<>>]
  /\ pc' = [pc EXCEPT ![c] = "waiting"]
  /\ UNCHANGED <<owned, connected, current, iopub, emitted, lost, fate, stage, behind, former>>

\* is_connected asks the kernel's process, which a restart kills.
ExecuteUnavailable(c) ==
  /\ pc[c] # "waiting"
  /\ ~connected \/ (stage = "killed" /\ c # Loop)
  /\ pc' = [pc EXCEPT ![c] = "raised"]
  /\ UNCHANGED <<owned, connected, shell, current, iopub, emitted, requests, msgId, got, lost, fate, restart>>

Failed(outputs) == \E i \in DOMAIN outputs : outputs[i].kind # "out"

\* get_iopub_msg takes the head of the queue, whoever it is for.
Take(c) ==
  /\ pc[c] = "waiting" /\ c \notin behind
  /\ connected /\ iopub # <<>>
  /\ iopub' = Tail(iopub)
  /\ lost' = IF Head(iopub).id = msgId[c] THEN lost ELSE lost \cup {Head(iopub).id}
  /\ UNCHANGED <<owned, connected, shell, current, emitted, requests, msgId, fate, restart>>

Keep(c, m) == got' = [got EXCEPT ![c] = Append(@, m)] /\ UNCHANGED pc

Finish(c) == /\ pc' = [pc EXCEPT ![c] = IF Failed(got[c]) THEN "error" ELSE "ok"]
             /\ UNCHANGED got

\* Mutants: any idle status ends the wait; outputs are taken unfiltered; a
\* message is kept before its type is looked at.
Handle_AnyIdle(c, m) ==
  IF m.kind = "idle" THEN Finish(c)
  ELSE IF m.id = msgId[c] THEN Keep(c, m) ELSE UNCHANGED <<pc, got>>

Handle_Unfiltered(c, m) ==
  IF m.kind # "idle" THEN Keep(c, m)
  ELSE IF m.id = msgId[c] THEN Finish(c) ELSE UNCHANGED <<pc, got>>

Handle_KeepsStatus(c, m) ==
  /\ got' = [got EXCEPT ![c] = Append(@, m)]
  /\ pc' = [pc EXCEPT ![c] = IF m.kind = "idle" THEN "ok" ELSE @]

Handle(c, m) ==
  IF m.id # msgId[c] THEN UNCHANGED <<pc, got>>
  ELSE IF m.kind = "idle" THEN Finish(c) ELSE Keep(c, m)

Receive(c) == Take(c) /\ Handle(c, Head(iopub))

\* The get of the former client ends with a message or, within a second,
\* without one.
Leave(c) == /\ behind' = behind \ {c}
            /\ UNCHANGED <<owned, connected, shell, current, iopub, emitted, requests, msgId,
                           lost, fate, stage, during>>

ReceiveFormer(c) ==
  /\ c \in behind /\ former # <<>>
  /\ Handle(c, Head(former))
  /\ former' = IF behind = {c} THEN <<>> ELSE Tail(former)
  /\ Leave(c)

FormerSilent(c) ==
  /\ c \in behind
  /\ former' = IF behind = {c} THEN <<>> ELSE former
  /\ Leave(c) /\ UNCHANGED <<pc, got>>

\* Mutant: the deadline is looked at only when the queue is empty and the
\* kernel is silent.
Timeout_WhenSilent(c) ==
  /\ EndCall(c, "timeout") /\ c \notin behind
  /\ iopub = <<>> /\ current = 0 /\ connected
  /\ UNCHANGED <<owned, connected, shell, current, iopub, emitted, requests, msgId, got, lost, fate, restart>>

\* The deadline passes, whatever is still in the queue or in the kernel.
Timeout(c) ==
  /\ EndCall(c, "timeout") /\ c \notin behind
  /\ UNCHANGED <<owned, connected, shell, current, iopub, emitted, requests, msgId, got, lost, fate, restart>>

\* The channels were stopped under a caller that waits on them.
ChannelGone(c) ==
  /\ ~connected /\ c \notin behind
  /\ EndCall(c, "raised")
  /\ UNCHANGED <<owned, connected, shell, current, iopub, emitted, requests, msgId, got, lost, fate, restart>>

-----------------------------------------------------------------------------
(* interrupt, restart and disconnect, from the event loop, which serves    *)
(* none of them while it waits in execute itself.                          *)

Called == connected /\ stage = "none" /\ (Loop \in Caller => pc[Loop] # "waiting")

\* colab_stop_execution, and the first half of colab_stop_training.  A kernel
\* of our own gets the signal; an attached one loses its channels.
Interrupt ==
  /\ Called
  /\ IF owned
       THEN /\ \/ KernelRaises
               \/ current = 0 /\ UNCHANGED <<shell, iopub, emitted, current, fate, restart>>
            /\ UNCHANGED connected
       ELSE connected' = FALSE /\ UNCHANGED <<shell, iopub, emitted, current, fate, restart>>
  /\ UNCHANGED <<owned, requests, pc, msgId, got, lost>>

\* restart_kernel: what the kernel was sent is gone, what it published is not.
RestartKernel ==
  /\ Called /\ owned
  /\ stage' = "killed"
  /\ shell' = <<>> /\ current' = 0
  /\ UNCHANGED <<owned, connected, iopub, emitted, requests, pc, msgId, got, lost, fate,
                 behind, former, during>>

\* The new client, and with the next two calls its channels.  Who is inside a
\* get of the old one stays there (a second at most, so a restart leaves
\* nobody behind who was left behind by the one before).
SwapClient ==
  /\ stage = "killed" /\ stage' = "swapped"
  /\ behind = {}
  /\ behind' \in SUBSET {c \in Caller : pc[c] = "waiting" /\ iopub = <<>>}
  /\ iopub' = <<>>
  /\ UNCHANGED <<owned, connected, shell, current, emitted, requests, pc, msgId, got, lost, fate,
                 former, during>>

\* wait_for_ready takes the messages it finds off the queue.
Drain ==
  /\ stage = "swapped" /\ iopub # <<>>
  /\ iopub' = Tail(iopub)
  /\ UNCHANGED <<owned, connected, shell, current, emitted, requests, pc, msgId, got, lost, fate, restart>>

RestartEnds ==
  /\ stage = "swapped" /\ stage' = "none"
  /\ UNCHANGED <<owned, connected, shell, current, iopub, emitted, requests, pc, msgId, got, lost, fate,
                 behind, former, during>>

Disconnect ==
  /\ Called
  /\ connected' = FALSE
  /\ iopub' = <<>>
  /\ IF owned THEN shell' = <<>> /\ current' = 0 ELSE UNCHANGED <<shell, current>>
  /\ UNCHANGED <<owned, emitted, requests, pc, msgId, got, lost, fate, restart>>

-----------------------------------------------------------------------------
Kernel == KernelStarts \/ KernelPublishes \/ KernelFinishes \/ KernelFails

Wait(c) == Receive(c) \/ ReceiveFormer(c) \/ FormerSilent(c) \/ Timeout(c) \/ ChannelGone(c)

RestartContinues == SwapClient \/ Drain \/ RestartEnds

Next == \/ Kernel
        \/ \E c \in Caller : Execute(c) \/ ExecuteUnavailable(c) \/ Wait(c)
        \/ Interrupt \/ RestartKernel \/ RestartContinues \/ Disconnect

Spec == Init /\ [][Next]_vars

-----------------------------------------------------------------------------
(* What must hold.                                                         *)

(* Nobody collects another request's output, and what a caller collects    *)
(* comes in the order the kernel wrote it: late messages of an execution   *)
(* that timed out, of a kernel that was restarted, or of another caller    *)
(* are filtered out (kernel_client.py:121-122).  Out of order are only the *)
(* outputs of a request sent during a restart (92-95), of which a caller   *)
(* may hear some from both clients.                                        *)
NoCrossTalk ==
  \A c \in Caller :
    /\ \A i \in DOMAIN got[c] : got[c][i].id = msgId[c]
    /\ msgId[c] \notin during =>
         \A i, j \in DOMAIN got[c] : i < j => got[c][i].n < got[c][j].n

Complete(c) == /\ Len(got[c]) = emitted[msgId[c]]
               /\ \A i \in DOMAIN got[c] : got[c][i].n = i

Ended(c) == pc[c] \in {"ok", "error"}

\* Another caller took one of its messages, or a restart may have.
Disturbed(c) == msgId[c] \in lost \cup during

(* execute returns everything its code wrote, even right after executions  *)
(* that timed out, were interrupted or died in a restart and whose         *)
(* messages still arrive, and reports no success of code that failed,      *)
(* unless another caller on the same backend took one of its messages, or  *)
(* it was sent while a restart was under way, which takes or misses        *)
(* messages itself.  It reports the success of code that never ran only if *)
(* that was queued behind code that failed (kernel_client.py:92-150).      *)
OnlyOthersLoseOutput ==
  \A c \in Caller :
    /\ Ended(c) => Complete(c) \/ Disturbed(c)
    /\ pc[c] = "ok" => \/ fate[msgId[c]] \in {"ran", "aborted"}
                       \/ fate[msgId[c]] = "raised" /\ Disturbed(c)
=============================================================================
