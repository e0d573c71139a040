-------------------------- MODULE ProvidersProofs --------------------------
(***************************************************************************)
(* Proofs about Providers, for any number of connects and every order of   *)
(* failures, restarts, closes and kernels that die.                        *)
(***************************************************************************)
EXTENDS Providers, TLAPS

(***************************************************************************)
(* The inductive invariant.                                                *)
(***************************************************************************)
(* A backend is pending from the moment it is made until its connect ends, *)
(* and is Colab's to verify only once its channels are open.               *)
PendingRight ==
  /\ pending # None <=> pc \in {"start", "wait", "verify"}
  /\ pending <= gen /\ current <= gen
  /\ pc = "discover" => gen < MaxConnects
  /\ pc = "verify" => kind = "colab" /\ pending \in channels

(* Only the providers that launch something have something running, and    *)
(* only for backends that were made: the next one's name is free.          *)
OnlyLaunched ==
  /\ \A b \in kernels \cup containers : b <= gen
  /\ kernels # {} => kind = "local_jupyter"
  /\ managers # {} => Owns
  /\ kernels \subseteq managers \cup excused
  /\ containers # {} => kind = "docker"

(* A connect that fails before it started anything leaves nothing, but the *)
(* container of a restart that was not removed, which is still the         *)
(* session's.                                                              *)
StartsClean == pc = "start" => pending = current \/ pending \notin kernels \cup containers

Inv == PendingRight /\ OnlyLaunched /\ StartsClean /\ NothingLeftRunning /\ NeverKillsTheirs

-----------------------------------------------------------------------------
LEMMA StartsRight == Init => TypeOK /\ Inv
<1>1. QED
  BY ConnectsAssumption
  DEF Init, TypeOK, Inv, PendingRight, OnlyLaunched, StartsClean, NothingLeftRunning, NeverKillsTheirs,
      None, Backends, Owns

(* A disconnect leaves nothing of the backend running but what is excused, *)
(* and somebody else's kernel as it is.                                    *)
LEMMA DisconnectRight ==
  ASSUME TypeOK, Inv, NEW b, Disconnect(b)
  PROVE  /\ channels' = channels \ {b} /\ managers' = managers \ {b}
         /\ kernels' \subseteq kernels
         /\ b \in kernels' => b \in excused
         /\ UNCHANGED theirs
<1>1. CASE Owns /\ b \in managers
  BY <1>1 DEF Disconnect, ShutDown, HitsTheirs, Attached, Owns
<1>2. CASE ~(Owns /\ b \in managers)
  BY <1>2 DEF Disconnect, Inv, OnlyLaunched, Owns
<1>3. QED
  BY <1>1, <1>2

LEMMA ConnectingKeeps ==
  ASSUME TypeOK, Inv, Connecting
  PROVE  TypeOK' /\ Inv'
<1> USE ConnectsAssumption
    DEF TypeOK, Inv, PendingRight, OnlyLaunched, StartsClean, NothingLeftRunning, NeverKillsTheirs,
        None, Backends, Config, Goes, Processes, Owns
<1>1. CASE Connect
  BY <1>1 DEF Connect
<1>2. CASE Unavailable
  BY <1>2 DEF Unavailable
<1>15. CASE DiscoverRaises
  BY <1>15 DEF DiscoverRaises
<1>3. CASE CreateBackend
  BY <1>3 DEF CreateBackend
<1>4. CASE StartKernel
  BY <1>4, ZenonT(30) DEF StartKernel, Attached
<1>5. CASE StartFails
  BY <1>5 DEF StartFails, Raise, Restarting
<1>6. CASE RunContainer
  BY <1>6 DEF RunContainer
<1>7. CASE RunTimesOut
  BY <1>7 DEF RunTimesOut, Raise, Restarting
<1>8. CASE Ready
  <2>1. CASE kind = "colab"
    BY <1>8, <2>1 DEF Ready
  <2>2. CASE kind # "colab"
    <3>1. Return
      BY <1>8, <2>2 DEF Ready
    <3>2. pc = "wait" /\ UNCHANGED <<kind, strict, verified, answer, kernels, managers, containers, theirs>>
      BY <1>8, <2>2 DEF Ready
    <3>3. channels' = channels \cup {pending}
      BY <1>8 DEF Ready
    <3>4. TypeOK' /\ PendingRight'
      BY <3>1, <3>2, <3>3 DEF Return, Restarting
    <3>5. OnlyLaunched' /\ StartsClean' /\ NothingLeftRunning' /\ NeverKillsTheirs'
      BY <3>1, <3>2 DEF Return
    <3>6. QED
      BY <3>4, <3>5
  <2>3. QED
    BY <2>1, <2>2
<1>9. CASE NotReady
  BY <1>9 DEF NotReady, Raise, Restarting
<1>10. CASE ContainerNotReady
  <2>1. CASE containers' = containers \ {pending} /\ UNCHANGED excused
    BY <1>10, <2>1 DEF ContainerNotReady, Raise, Restarting
  <2>2. CASE excused' = excused \cup {pending} /\ UNCHANGED containers
    BY <1>10, <2>2 DEF ContainerNotReady, Raise, Restarting
  <2>3. QED
    BY <1>10, <2>1, <2>2 DEF ContainerNotReady
<1>11. CASE VerifyGenuine
  BY <1>11 DEF VerifyGenuine, Return, Restarting
<1>16. CASE SnippetRuns
  BY <1>16 DEF SnippetRuns
<1>12. CASE NotGenuine
  <2>1. /\ kind = "colab" /\ kernels = {} /\ containers = {} /\ pc = "verify"
        /\ pending \notin managers
    BY <1>12 DEF NotGenuine
  <2>2. /\ verified' = "other"
        /\ UNCHANGED <<kind, strict, answer, containers>>
    BY <1>12 DEF NotGenuine
  <2>3. CASE strict
    <3>1. Raise /\ Disconnect(pending) /\ UNCHANGED excused
      BY <1>12, <2>3 DEF NotGenuine
    <3>2. /\ UNCHANGED <<kernels, theirs>>
          /\ channels' = channels \ {pending} /\ managers' = managers \ {pending}
      BY <2>1, <3>1 DEF Disconnect
    <3>3. TypeOK'
      BY <2>2, <3>1, <3>2 DEF Raise, Restarting
    <3>4. PendingRight' /\ OnlyLaunched' /\ StartsClean' /\ NothingLeftRunning' /\ NeverKillsTheirs'
      BY <2>1, <2>2, <3>1, <3>2 DEF Raise
    <3>5. QED
      BY <3>3, <3>4
  <2>4. CASE ~strict
    <3>1. Return /\ UNCHANGED <<kernels, managers, channels, theirs>>
      BY <1>12, <2>4 DEF NotGenuine
    <3>2. TypeOK'
      BY <2>2, <3>1 DEF Return, Restarting
    <3>3. PendingRight' /\ OnlyLaunched' /\ StartsClean' /\ NothingLeftRunning' /\ NeverKillsTheirs'
      BY <2>1, <2>2, <3>1 DEF Return
    <3>4. QED
      BY <3>2, <3>3
  <2>5. QED
    BY <2>3, <2>4
<1>13. CASE VerifyRaises
  BY <1>13 DEF VerifyRaises, Raise, Restarting
<1>14. QED
  BY <1>1, <1>2, <1>3, <1>4, <1>5, <1>6, <1>7, <1>8, <1>9, <1>10, <1>11, <1>12,
     <1>13, <1>15, <1>16 DEF Connecting

LEMMA StepKeeps == TypeOK /\ Inv /\ [Next]_vars => TypeOK' /\ Inv'
<1> USE ConnectsAssumption
    DEF TypeOK, Inv, PendingRight, OnlyLaunched, StartsClean, NothingLeftRunning, NeverKillsTheirs,
        None, Backends, Config, Using, Processes, Owns, Attached, ShutDown, HitsTheirs
<1>1. SUFFICES ASSUME TypeOK, Inv, [Next]_vars PROVE TypeOK' /\ Inv'
  OBVIOUS
<1>2. CASE Connecting
  BY <1>1, <1>2, ConnectingKeeps
<1>3. CASE Close
  BY <1>1, <1>3, DisconnectRight, ZenonT(30) DEF Close
<1>4. CASE CloseHangs
  BY <1>1, <1>4, DisconnectRight, ZenonT(30) DEF CloseHangs
<1>5. CASE CloseSwallows
  BY <1>1, <1>5 DEF CloseSwallows
<1>6. CASE RestartKernel
  BY <1>1, <1>6, ZenonT(30) DEF RestartKernel
<1>7. CASE RestartContainer
  <2>1. /\ kind = "docker" /\ pc = "idle" /\ current # None
        /\ Disconnect(current)
        /\ containers' \subseteq containers
        /\ pc' = "start" /\ pending' = current
        /\ UNCHANGED <<kind, strict, state, verified, answer, current, gen, excused>>
    BY <1>7 DEF RestartContainer
  <2>2. kernels' = {} /\ managers' = managers \ {current}
        /\ channels' = channels \ {current} /\ UNCHANGED theirs
    BY <1>1, <2>1, DisconnectRight
  <2>3. TypeOK' /\ PendingRight'
    BY <1>1, <2>1, <2>2
  <2>4. OnlyLaunched' /\ StartsClean' /\ NeverKillsTheirs'
    BY <1>1, <2>1, <2>2
  <2>5. containers \subseteq {current} \cup excused
    BY <1>1, <2>1
  <2>6. NothingLeftRunning'
    BY <2>1, <2>2, <2>5
  <2>7. QED
    BY <2>3, <2>4, <2>6
<1>8. CASE InterruptAttached
  BY <1>1, <1>8 DEF InterruptAttached
<1>9. CASE TheirsChanges
  BY <1>1, <1>9 DEF TheirsChanges
<1>10. ASSUME NEW b \in Backends, KernelDies(b) PROVE TypeOK' /\ Inv'
  BY <1>1, <1>10 DEF KernelDies
<1>11. CASE UNCHANGED vars
  BY <1>1, <1>11 DEF vars
<1>12. QED
  BY <1>1, <1>2, <1>3, <1>4, <1>5, <1>6, <1>7, <1>8, <1>9, <1>10, <1>11 DEF Next

LEMMA Always == Spec => [](TypeOK /\ Inv)
<1>1. QED
  BY StartsRight, StepKeeps, PTL DEF Spec

-----------------------------------------------------------------------------
(***************************************************************************)
(* The theorems.                                                           *)
(***************************************************************************)

(* The provider, its backends and what runs for them keep their types.     *)
THEOREM TypeCorrect == Spec => []TypeOK
<1>1. QED
  BY Always, PTL

(* Whatever fails in a connect, a restart or a close, what is left running *)
(* belongs to the session's backend, to the one it is connecting, or to    *)
(* the failures the code does not clean up after (kernel_client.py:38-68,  *)
(* docker_backend.py:74-106).                                              *)
THEOREM NoStrayKernels == Spec => []NothingLeftRunning
<1>1. Inv => NothingLeftRunning
  BY DEF Inv
<1>2. QED
  BY <1>1, Always, PTL

(* Nothing a session does ends a kernel it only attached to: what shuts a  *)
(* kernel down or restarts it asks for a KernelManager, and only a backend *)
(* that launched its kernel ever has one (kernel_client.py:26, 62-66,      *)
(* 80-92).                                                                 *)
THEOREM TheirsIsLeftAlone == Spec => []NeverKillsTheirs
<1>1. Inv => NeverKillsTheirs
  BY DEF Inv
<1>2. QED
  BY <1>1, Always, PTL

(* A connect only returns a backend whose kernel answered; it says genuine *)
(* only of a kernel that this connect's snippet found to be Colab's, and   *)
(* under strict returns no other (docs/COLAB.md:23-32).                    *)
THEOREM ConnectsAreReal == Spec => ConnectedIsReal
<1> DEFINE A == Returned => /\ current' \in channels'
                            /\ kind # "colab" => Up(pending)
                            /\ kind = "colab" /\ verified' = "genuine" => answer = "genuine"
                            /\ kind = "colab" /\ strict => verified' = "genuine"
<1>1. ASSUME TypeOK, Inv, [Next]_vars PROVE [A]_vars
  <2>1. CASE Ready
    BY <2>1 DEF Ready, Return, Returned, Goes
  <2>2. CASE VerifyGenuine
    BY <1>1, <2>2 DEF VerifyGenuine, Return, Returned, Inv, PendingRight, Processes
  <2>3. CASE NotGenuine
    BY <1>1, <2>3 DEF NotGenuine, Return, Raise, Returned, Inv, PendingRight
  <2>4. ASSUME Connecting, ~Ready, ~VerifyGenuine, ~NotGenuine PROVE current' = current
    BY <2>4
    DEF Connecting, Connect, Unavailable, DiscoverRaises, CreateBackend, StartKernel,
        StartFails, RunContainer, RunTimesOut, NotReady, ContainerNotReady, SnippetRuns,
        VerifyRaises, Raise
  <2>5. ASSUME Next, ~Connecting PROVE ~Returned
    BY <2>5
    DEF Next, Close, CloseHangs, CloseSwallows, RestartKernel, RestartContainer,
        InterruptAttached, TheirsChanges, KernelDies, Returned
  <2>6. QED
    BY <1>1, <2>1, <2>2, <2>3, <2>4, <2>5 DEF Returned, vars
<1>2. QED
  BY <1>1, Always, PTL DEF Spec, ConnectedIsReal
=============================================================================
