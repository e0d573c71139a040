----------------------------- MODULE Providers -----------------------------
(***************************************************************************)
(* colab/providers/, colab/docker_backend.py and the connecting half of    *)
(* colab/kernel_client.py: what a session starts, attaches to and shuts    *)
(* down, when every step of a connect, a restart or a close can fail.      *)
(*                                                                         *)
(* One session and its provider; Sessions has the threads that call it.    *)
(* Every connect makes a new backend, numbered in gen; a container has its *)
(* backend's name, and a reconnect drops the old backend as it is.         *)
(***************************************************************************)
EXTENDS Naturals

CONSTANT MaxConnects  \* bound: connects in a behaviour

ASSUME ConnectsAssumption == MaxConnects \in Nat

VARIABLES
  kind,        \* provider_id
  strict,      \* config["strict"] of the colab provider
  state,       \* RuntimeProvider.state; "connecting" is all after discover
  verified,    \* verification["is_genuine_colab"]
  answer,      \* history: what this connect's verification snippet found
  pc,          \* where the current call stands
  pending,     \* the backend it connects
  current,     \* the session's backend
  gen,         \* backends made so far
  kernels,     \* backends whose local kernel process runs
  managers,    \* backends that have a KernelManager (_km)
  containers,  \* backends whose container runs
  channels,    \* backends whose client has its channels open
  theirs,      \* the kernel that connection_file names, which is not ours
  excused      \* history: backends the code knowingly leaves as they are

vars == <<kind, strict, state, verified, answer, pc, pending, current, gen,
          kernels, managers, containers, channels, theirs, excused>>

Backends == 1..MaxConnects
None == 0

TypeOK ==
  /\ kind \in {"local_jupyter", "remote_jupyter", "colab", "docker"}
  /\ strict \in BOOLEAN
  /\ state \in {"disconnected", "discovering", "connecting", "ready", "failed"}
  /\ verified \in {"unknown", "genuine", "other"}
  /\ answer \in {"none", "genuine", "other"}
  /\ pc \in {"idle", "discover", "start", "wait", "verify"}
  /\ pending \in Backends \cup {None} /\ current \in Backends \cup {None}
  /\ gen \in 0..MaxConnects
  /\ kernels \subseteq Backends /\ managers \subseteq Backends /\ containers \subseteq Backends
  /\ channels \subseteq Backends /\ excused \subseteq Backends
  /\ theirs \in {"genuine", "other", "down", "killed"}

Init ==
  /\ kind \in {"local_jupyter", "remote_jupyter", "colab", "docker"}
  /\ strict \in BOOLEAN
  /\ state = "disconnected" /\ verified = "unknown" /\ answer = "none"
  /\ pc = "idle"
  /\ pending = None /\ current = None /\ gen = 0
  /\ kernels = {} /\ managers = {} /\ containers = {} /\ channels = {} /\ excused = {}
  /\ theirs \in {"genuine", "other"}

Config == <<kind, strict>>
Attached == kind \in {"remote_jupyter", "colab"}

\* _owns_kernel: no connection file was given.
Owns == kind = "local_jupyter"

Up(b) == CASE kind = "local_jupyter" -> b \in kernels
           [] kind = "docker" -> b \in containers
           [] OTHER -> theirs \in {"genuine", "other"}

Goes(from, to) == pc = from /\ pc' = to

\* Restarting a Docker backend connects the backend the session has.
Restarting == pending = current

-----------------------------------------------------------------------------
(* How a connect ends.  Nobody tells the provider of a restart.            *)

Raise == /\ pc' = "idle" /\ pending' = None
         /\ state' = IF Restarting THEN state ELSE "failed"
         /\ UNCHANGED <<current, gen>>

Return == /\ pc' = "idle" /\ pending' = None
          /\ current' = pending
          /\ state' = IF Restarting THEN state ELSE "ready"
          /\ excused' = excused \cup ({current} \ {None, pending})
          /\ UNCHANGED gen

-----------------------------------------------------------------------------
(* RuntimeProvider.connect: discover, then the backend's connect, then     *)
(* _verify.                                                                *)

Processes == <<kernels, managers, containers, channels, theirs>>

\* create_session or reconnect.
Connect ==
  /\ gen < MaxConnects
  /\ Goes("idle", "discover")
  /\ state' = "discovering"
  /\ UNCHANGED <<Config, Processes, verified, answer, pending, current, gen, excused>>

Unavailable ==
  /\ Goes("discover", "idle")
  /\ state' = "failed"
  /\ UNCHANGED <<Config, Processes, verified, answer, pending, current, gen, excused>>

\* find_spec or Path.exists raises, outside of connect's try: the state
\* stays what it was set to.
DiscoverRaises ==
  /\ kind \in {"local_jupyter", "remote_jupyter"}
  /\ Goes("discover", "idle")
  /\ UNCHANGED <<Config, Processes, state, verified, answer, pending, current, gen, excused>>

CreateBackend ==
  /\ Goes("discover", "start")
  /\ state' = "connecting"
  /\ gen' = gen + 1 /\ pending' = gen + 1
  /\ UNCHANGED <<Config, Processes, verified, answer, current, excused>>

\* A local kernel is launched; another's is attached to.
StartKernel ==
  /\ kind # "docker"
  /\ Goes("start", "wait")
  /\ IF Attached THEN UNCHANGED <<kernels, managers>>
                 ELSE /\ kernels' = kernels \cup {pending}
                      /\ managers' = managers \cup {pending}
  /\ channels' = channels \cup {pending}
  /\ UNCHANGED <<Config, state, verified, answer, pending, current, gen, containers, theirs, excused>>

\* No kernelspec, no connection file, no daemon, or docker run returns an
\* error; so it does when a container of that name still runs.
StartFails ==
  /\ pc = "start" /\ Raise
  /\ UNCHANGED <<Config, Processes, verified, answer, excused>>

RunContainer ==
  /\ kind = "docker" /\ pending \notin containers
  /\ Goes("start", "wait")
  /\ containers' = containers \cup {pending}
  /\ UNCHANGED <<Config, state, verified, answer, pending, current, gen, kernels, managers,
                 channels, theirs, excused>>

\* docker run is killed after 30 seconds; the daemon may finish it.
RunTimesOut ==
  /\ kind = "docker" /\ pc = "start" /\ Raise
  /\ containers' \in {containers, containers \cup {pending}}
  /\ excused' = excused \cup {pending}
  /\ UNCHANGED <<Config, verified, answer, kernels, managers, channels, theirs>>

\* wait_for_ready.
Ready ==
  /\ Up(pending)
  /\ IF kind = "colab"
       THEN /\ Goes("wait", "verify") /\ answer' = "none"
            /\ UNCHANGED <<state, pending, current, gen, excused>>
       ELSE pc = "wait" /\ Return /\ UNCHANGED answer
  /\ channels' = channels \cup {pending}
  /\ UNCHANGED <<Config, verified, kernels, managers, containers, theirs>>

\* wait_for_ready raises: what was started stays, and its client's channels.
NotReady ==
  /\ kind # "docker" /\ pc = "wait" /\ Raise
  /\ excused' = excused \cup {pending}
  /\ UNCHANGED <<Config, Processes, verified, answer>>

\* Mutant: the container is left to itself.
ContainerNotReady_Kept ==
  /\ kind = "docker" /\ pc = "wait" /\ Raise
  /\ UNCHANGED <<Config, Processes, verified, answer, excused>>

\* The container is removed, unless docker rm hangs as well.
ContainerNotReady ==
  /\ kind = "docker" /\ pc = "wait" /\ Raise
  /\ \/ containers' = containers \ {pending} /\ UNCHANGED excused
     \/ excused' = excused \cup {pending} /\ UNCHANGED containers
  /\ UNCHANGED <<Config, verified, answer, kernels, managers, channels, theirs>>

-----------------------------------------------------------------------------
(* disconnect of a backend.                                                *)

\* What shuts a kernel down or restarts it ends the one the client talks to.
HitsTheirs == theirs' = IF Attached THEN "killed" ELSE theirs

ShutDown(b) == kernels' = kernels \ {b} /\ HitsTheirs

\* Mutant: the kernel is shut down, whoever started it.
Disconnect_ShutsDown(b) ==
  /\ channels' = channels \ {b}
  /\ ShutDown(b)
  /\ managers' = managers \ {b}

\* JupyterKernelBackend.disconnect: only a kernel it started is shut down.
Disconnect(b) ==
  /\ channels' = channels \ {b}
  /\ IF Owns /\ b \in managers THEN ShutDown(b) ELSE UNCHANGED <<kernels, theirs>>
  /\ managers' = managers \ {b}

-----------------------------------------------------------------------------
(* ColabProvider._verify.                                                  *)

\* The snippet runs in the kernel that is there by then.
SnippetRuns ==
  /\ pc = "verify" /\ answer = "none" /\ theirs \in {"genuine", "other"}
  /\ answer' = theirs
  /\ UNCHANGED <<Config, Processes, state, verified, pc, pending, current, gen, excused>>

VerifyGenuine ==
  /\ pc = "verify" /\ answer = "genuine"
  /\ verified' = "genuine"
  /\ Return
  /\ UNCHANGED <<Config, Processes, answer>>

\* Mutant: a kernel that is not Colab's is reported and kept.
NotGenuine_Kept ==
  /\ pc = "verify"
  /\ verified' = "other"
  /\ Return
  /\ UNCHANGED <<Config, Processes, answer>>

\* The kernel is not Colab's, or the snippet was aborted or interrupted or
\* its output went to another reader: an empty stdout is read as "other",
\* and result.error is not looked at.
NotGenuine ==
  /\ pc = "verify"
  /\ verified' = "other"
  /\ IF strict THEN Raise /\ Disconnect(pending) /\ UNCHANGED excused
               ELSE Return /\ UNCHANGED <<kernels, managers, channels, theirs>>
  /\ UNCHANGED <<Config, answer, containers>>

\* The snippet times out or its channel fails.
VerifyRaises ==
  /\ pc = "verify" /\ Raise
  /\ UNCHANGED <<Config, Processes, verified, answer, excused>>

-----------------------------------------------------------------------------
(* disconnect, restart and interrupt of the session's backend.             *)

Using == pc = "idle" /\ current # None

Close ==
  /\ Using /\ Disconnect(current)
  /\ containers' = containers \ {current}
  /\ current' = None /\ state' = "disconnected"
  /\ UNCHANGED <<Config, verified, answer, pc, pending, gen, excused>>

\* docker rm hangs: close_session or restart raises and the session stays.
CloseHangs ==
  /\ kind = "docker" /\ Using /\ Disconnect(current)
  /\ UNCHANGED <<Config, state, verified, answer, pc, pending, current, gen, containers, excused>>

\* The kernel or the container cannot be removed, and nobody looks.
CloseSwallows ==
  /\ ~Attached /\ Using
  /\ channels' = channels \ {current}
  /\ managers' = managers \ {current}
  /\ excused' = excused \cup {current}
  /\ current' = None /\ state' = "disconnected"
  /\ UNCHANGED <<Config, verified, answer, pc, pending, gen, kernels, containers, theirs>>

\* A kernel with a KernelManager is restarted in place, or does not come
\* back; without one restart raises.
RestartKernel ==
  /\ Using /\ current \in managers
  /\ \/ kernels' = kernels \cup {current} /\ channels' = channels \cup {current} /\ HitsTheirs
     \/ ShutDown(current) /\ UNCHANGED channels
  /\ UNCHANGED <<Config, state, verified, answer, pc, pending, current, gen, managers,
                 containers, excused>>

\* Mutant: the session need not exist.
RestartContainer_Unguarded ==
  /\ kind = "docker" /\ pc = "idle" /\ Disconnect(current)
  /\ containers' = containers \ {current}
  /\ pc' = "start" /\ pending' = current
  /\ UNCHANGED <<Config, state, verified, answer, current, gen, excused>>

\* disconnect and connect; the same container name is used again, although
\* the container may still be there.
RestartContainer ==
  /\ kind = "docker" /\ Using /\ Disconnect(current)
  /\ containers' \in {containers, containers \ {current}}
  /\ pc' = "start" /\ pending' = current
  /\ UNCHANGED <<Config, state, verified, answer, current, gen, excused>>

\* Without a KernelManager there is no signal to send: the channels stop.
InterruptAttached ==
  /\ kind # "docker" /\ Using /\ current \notin managers
  /\ channels' = channels \ {current}
  /\ UNCHANGED <<Config, state, verified, answer, pc, pending, current, gen, kernels, managers,
                 containers, theirs, excused>>

-----------------------------------------------------------------------------
(* Kernels and containers end by themselves.                               *)

KernelDies(b) ==
  /\ b \in kernels \cup containers
  /\ kernels' = kernels \ {b} /\ containers' = containers \ {b}
  /\ UNCHANGED <<Config, state, verified, answer, pc, pending, current, gen, managers,
                 channels, theirs, excused>>

\* ... theirs too, and another may be started in its place.
TheirsChanges ==
  /\ theirs' \in {"genuine", "other", "down"}
  /\ UNCHANGED <<Config, state, verified, answer, pc, pending, current, gen, kernels, managers,
                 containers, channels, excused>>

Connecting == \/ Connect \/ Unavailable \/ DiscoverRaises \/ CreateBackend
              \/ StartKernel \/ StartFails \/ RunContainer \/ RunTimesOut
              \/ Ready \/ NotReady \/ ContainerNotReady
              \/ SnippetRuns \/ VerifyGenuine \/ NotGenuine \/ VerifyRaises

Next == \/ Connecting
        \/ Close \/ CloseHangs \/ CloseSwallows
        \/ RestartKernel \/ RestartContainer \/ InterruptAttached
        \/ TheirsChanges \/ \E b \in Backends : KernelDies(b)

Spec == Init /\ [][Next]_vars

-----------------------------------------------------------------------------
(* What must hold.                                                         *)

(* No kernel and no container is left running, but by the failures the     *)
(* code does not clean up after: the backend a reconnect replaced, a       *)
(* launched kernel that never became ready or could not be shut down, and  *)
(* docker itself not answering (kernel_client.py:38-54, 56-68,             *)
(* docker_backend.py:74-106, session_manager.py:119-125).                  *)
NothingLeftRunning == kernels \cup containers \subseteq {current, pending} \cup excused

(* A kernel that was only attached to is never ended by its session: not   *)
(* when it is closed, refused after its verification, restarted or         *)
(* interrupted, because the backend has no KernelManager for it and does   *)
(* not own it (kernel_client.py:26, 62-66, 80-92).                         *)
NeverKillsTheirs == theirs # "killed"

(* A connect only returns a backend whose kernel answered and whose        *)
(* channels are open. A session of the colab provider says genuine only    *)
(* when this connect's own snippet ran in a genuine Colab, and with strict *)
(* it is not returned otherwise (docs/COLAB.md:23-32). The converse does   *)
(* not hold: a genuine Colab whose snippet printed nothing is refused, or  *)
(* reported as not genuine (colab_provider.py:60-68).                      *)
Returned == current' # current /\ current' # None

ConnectedIsReal ==
  [][Returned => /\ current' \in channels'
                 /\ kind # "colab" => Up(pending)
                 /\ kind = "colab" /\ verified' = "genuine" => answer = "genuine"
                 /\ kind = "colab" /\ strict => verified' = "genuine"]_vars
=============================================================================
