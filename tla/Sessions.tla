------------------------------ MODULE Sessions ------------------------------
(***************************************************************************)
(* colab/session_manager.py, colab/providers/base.py and                   *)
(* colab/health_monitor.py: the runtime sessions, the life of a session's  *)
(* provider, and the monitor that reconnects dropped sessions.             *)
(*                                                                         *)
(* SessionManager._lock protects the table only.  A connect or a           *)
(* disconnect takes seconds and runs outside of it, in three kinds of      *)
(* threads at once: the event loop (one tool call at a time), the health   *)
(* monitor, and the workers of background jobs, which ask for the default  *)
(* session.  Each session has one provider, shared by the threads that     *)
(* (re)connect it, and the backend of its last successful connect.         *)
(***************************************************************************)
EXTENDS Naturals, FiniteSets

CONSTANTS Session, Backend,   \* identities of SessionInfo and RuntimeBackend
          NoSession, NoBackend,
          Worker,             \* threads of background jobs
          MaxAttempts         \* MAX_RECONNECT_ATTEMPTS

ASSUME MaxAttemptsAssumption == MaxAttempts \in Nat
ASSUME NoneAssumption == NoSession \notin Session /\ NoBackend \notin Backend
ASSUME WorkerAssumption == "loop" \notin Worker /\ "monitor" \notin Worker

Thread == {"loop", "monitor"} \cup Worker

VARIABLES
  table,      \* keys of SessionManager._sessions
  state,      \* state of the session's provider; "absent" before its creation
  raised,     \* history: sessions whose last discover raised
  backend,    \* SessionInfo.backend
  kernel,     \* whether a backend is_connected
  at,         \* where each thread stands in a call that blocks
  on,         \* the session of that call
  hand,       \* the backend that call has in a local variable
  attempts,   \* HealthMonitor._reconnect_attempts
  todo,       \* what is left of a thread's snapshot of the table
  phase,      \* where the server is in its life
  stopping    \* HealthMonitor._stop_event

vars == <<table, state, raised, backend, kernel, at, on, hand, attempts, todo, phase,
          stopping>>

Places == {"idle", "discover", "create", "insert", "rediscover", "reconnect", "store",
           "close", "pop", "restart", "decided", "off"}

TypeOK ==
  /\ table \subseteq Session
  \* "discovering" stands for reconnecting too, and "connecting" for
  \* authenticating and initializing: they follow each other in one thread.
  /\ state \in [Session -> {"absent", "discovering", "connecting", "ready", "failed",
                           "disconnected"}]
  /\ raised \subseteq Session
  /\ backend \in [Session -> Backend \cup {NoBackend}]
  /\ kernel \in [Backend -> {"closed", "live", "dead", "restarting"}]
  /\ at \in [Thread -> Places]
  /\ on \in [Thread -> Session \cup {NoSession}]
  /\ hand \in [Thread -> Backend \cup {NoBackend}]
  /\ attempts \in [Session -> 0..MaxAttempts]
  /\ todo \in [{"loop", "monitor"} -> SUBSET Session]
  /\ phase \in {"serving", "joining", "closing", "exited"}
  /\ stopping \in BOOLEAN

Init ==
  /\ table = {}
  /\ state = [s \in Session |-> "absent"] /\ raised = {}
  /\ backend = [s \in Session |-> NoBackend]
  /\ kernel = [b \in Backend |-> "closed"]
  \* With HEALTH_MONITOR_ENABLED=false the monitor's thread is never started.
  /\ \E m \in {"idle", "off"} : at = [t \in Thread |-> IF t = "monitor" THEN m ELSE "idle"]
  /\ on = [t \in Thread |-> NoSession]
  /\ hand = [t \in Thread |-> NoBackend]
  /\ attempts = [s \in Session |-> 0]
  /\ todo = [t \in {"loop", "monitor"} |-> {}]
  /\ phase = "serving"
  /\ stopping = FALSE

Connected(s) == backend[s] # NoBackend /\ kernel[backend[s]] = "live"

\* Sessions some thread is (re)connecting, closing or restarting.
Busy(s) == \E t \in Thread : at[t] # "idle" /\ on[t] = s

\* A backend object nobody refers to any more, whose name can be used again.
Fresh(b) == /\ kernel[b] \in {"closed", "dead"}
            /\ \A s \in Session : backend[s] # b
            /\ \A t \in Thread : hand[t] # b

Enter(t, place, s, b) == /\ at' = [at EXCEPT ![t] = place]
                         /\ on' = [on EXCEPT ![t] = s]
                         /\ hand' = [hand EXCEPT ![t] = b]

Move(t, from, to) == /\ at[t] = from
                     /\ at' = [at EXCEPT ![t] = to]

Return(t) == Enter(t, "idle", NoSession, NoBackend)

\* The event loop serves a tool call; a job's worker asks for a session.
Serving == phase = "serving" /\ at["loop"] = "idle"

Asking(t) == t \in Worker /\ phase # "exited" /\ at[t] = "idle"

-----------------------------------------------------------------------------
(* RuntimeProvider.connect, in the thread that called it.                  *)

StartConnect(t, place, s) ==
  /\ state' = [state EXCEPT ![s] = "discovering"]
  /\ raised' = raised \ {s}
  /\ Enter(t, place, s, NoBackend)

Discovered(t) ==
  /\ phase # "exited"
  /\ \E step \in {<<"discover", "create">>, <<"rediscover", "reconnect">>} :
       Move(t, step[1], step[2])
  /\ state' = [state EXCEPT ![on[t]] = "connecting"]
  /\ UNCHANGED <<table, raised, backend, kernel, on, hand, attempts, todo, phase, stopping>>

\* discover is outside of connect's try: the state stays what it was set to.
DiscoverRaises(t) ==
  /\ phase # "exited"
  /\ at[t] \in {"discover", "rediscover"}
  /\ raised' = raised \cup {on[t]}
  /\ Return(t)
  /\ UNCHANGED <<table, state, backend, kernel, attempts, todo, phase, stopping>>

ConnectSucceeds(t, b) ==
  /\ phase # "exited"
  /\ Fresh(b)
  /\ \E step \in {<<"create", "insert">>, <<"reconnect", "store">>} :
       Move(t, step[1], step[2])
  /\ hand' = [hand EXCEPT ![t] = b]
  /\ kernel' = [kernel EXCEPT ![b] = "live"]
  /\ state' = [state EXCEPT ![on[t]] = "ready"]
  /\ UNCHANGED <<table, raised, backend, on, attempts, todo, phase, stopping>>

\* Mutant: the failure is raised without being written down.
ConnectFails_Silent(t) ==
  /\ phase # "exited"
  /\ at[t] \in {"discover", "create", "rediscover", "reconnect"}
  /\ Return(t)
  /\ UNCHANGED <<table, state, raised, backend, kernel, attempts, todo, phase, stopping>>

\* discover says no, or backend.connect or _verify raises.
ConnectFails(t) ==
  /\ phase # "exited"
  /\ at[t] \in {"discover", "create", "rediscover", "reconnect"}
  /\ state' = [state EXCEPT ![on[t]] = "failed"]
  /\ Return(t)
  /\ UNCHANGED <<table, raised, backend, kernel, attempts, todo, phase, stopping>>

-----------------------------------------------------------------------------
(* SessionManager.                                                         *)

Create(s) ==
  /\ Serving
  /\ state[s] = "absent"
  /\ StartConnect("loop", "discover", s)
  /\ UNCHANGED <<table, backend, kernel, attempts, todo, phase, stopping>>

\* get_or_create_default: every session here carries the default label.
GetOrCreateDefault(t, s) ==
  /\ (t = "loop" /\ Serving) \/ Asking(t)
  /\ \A d \in table : ~Connected(d)
  /\ state[s] = "absent"
  /\ StartConnect(t, "discover", s)
  /\ UNCHANGED <<table, backend, kernel, attempts, todo, phase, stopping>>

Insert(t) ==
  /\ phase # "exited"
  /\ at[t] = "insert"
  /\ table' = table \cup {on[t]}
  /\ backend' = [backend EXCEPT ![on[t]] = hand[t]]
  /\ Return(t)
  /\ UNCHANGED <<state, raised, kernel, attempts, todo, phase, stopping>>

Reconnect(s) ==
  /\ Serving
  /\ s \in table
  /\ StartConnect("loop", "rediscover", s)
  /\ UNCHANGED <<table, backend, kernel, attempts, todo, phase, stopping>>

\* The old backend is dropped, connected or not; nobody disconnects it.
Store(t) ==
  /\ phase # "exited"
  /\ at[t] = "store"
  /\ backend' = [backend EXCEPT ![on[t]] = hand[t]]
  /\ Return(t)
  /\ UNCHANGED <<table, state, raised, kernel, attempts, todo, phase, stopping>>

StartClose(s) ==
  /\ s \in table
  /\ Enter("loop", "close", s, backend[s])

Close(s) ==
  /\ Serving
  /\ StartClose(s)
  /\ UNCHANGED <<table, state, raised, backend, kernel, attempts, todo, phase, stopping>>

\* Mutant: the state is set, the backend is not disconnected.
Disconnect_StateOnly ==
  /\ Move("loop", "close", "pop")
  /\ state' = [state EXCEPT ![on["loop"]] = "disconnected"]
  /\ UNCHANGED <<table, raised, backend, kernel, on, hand, attempts, todo, phase, stopping>>

Disconnect ==
  /\ Move("loop", "close", "pop")
  /\ kernel' = [kernel EXCEPT ![hand["loop"]] = "closed"]
  /\ state' = [state EXCEPT ![on["loop"]] = "disconnected"]
  /\ UNCHANGED <<table, raised, backend, on, hand, attempts, todo, phase, stopping>>

\* A container that cannot be removed makes disconnect raise after the inner
\* kernel client is gone: the session stays in the table.
DisconnectRaises ==
  /\ at["loop"] = "close"
  /\ kernel' = [kernel EXCEPT ![hand["loop"]] = "dead"]
  /\ Return("loop")
  /\ UNCHANGED <<table, state, raised, backend, attempts, todo, phase, stopping>>

Pop ==
  /\ at["loop"] = "pop"
  /\ table' = table \ {on["loop"]}
  /\ Return("loop")
  /\ UNCHANGED <<state, raised, backend, kernel, attempts, todo, phase, stopping>>

\* colab_restart_runtime: the backend restarts its kernel, the provider and
\* its state are not told.
Restart(s) ==
  /\ Serving
  /\ s \in table
  /\ kernel[backend[s]] \in {"live", "dead"}
  /\ Enter("loop", "restart", s, backend[s])
  /\ kernel' = [kernel EXCEPT ![backend[s]] = "restarting"]
  /\ UNCHANGED <<table, state, raised, backend, attempts, todo, phase, stopping>>

RestartEnds ==
  /\ at["loop"] = "restart"
  /\ \E k \in {"live", "dead"} : kernel' = [kernel EXCEPT ![hand["loop"]] = k]
  /\ Return("loop")
  /\ UNCHANGED <<table, state, raised, backend, attempts, todo, phase, stopping>>

-----------------------------------------------------------------------------
(* HealthMonitor.check_once, one session of the snapshot at a time.        *)

MonitorPass ==
  /\ ~stopping /\ phase # "exited"
  /\ at["monitor"] = "idle" /\ todo["monitor"] = {}
  /\ table # {}
  /\ todo' = [todo EXCEPT !["monitor"] = table]
  /\ UNCHANGED <<table, state, raised, backend, kernel, at, on, hand, attempts, phase, stopping>>

MonitorVisits(s) ==
  /\ phase # "exited"
  /\ at["monitor"] = "idle"
  /\ s \in todo["monitor"]
  /\ todo' = [todo EXCEPT !["monitor"] = @ \ {s}]

\* The session was closed since the snapshot: health_check raises.
MonitorMisses(s) ==
  /\ MonitorVisits(s)
  /\ s \notin table
  /\ UNCHANGED <<table, state, raised, backend, kernel, at, on, hand, attempts, phase, stopping>>

MonitorSeesHealthy(s) ==
  /\ MonitorVisits(s)
  /\ s \in table /\ Connected(s)
  /\ attempts' = [attempts EXCEPT ![s] = 0]
  /\ UNCHANGED <<table, state, raised, backend, kernel, at, on, hand, phase, stopping>>

MonitorGaveUp(s) ==
  /\ MonitorVisits(s)
  /\ s \in table /\ ~Connected(s)
  /\ attempts[s] >= MaxAttempts
  /\ UNCHANGED <<table, state, raised, backend, kernel, at, on, hand, attempts, phase, stopping>>

\* Mutants: the budget is not tested; the attempt is not counted.
MonitorSeesDropped_NoBudget(s) ==
  /\ MonitorVisits(s)
  /\ s \in table /\ ~Connected(s)
  /\ attempts' = [attempts EXCEPT ![s] = @ + 1]
  /\ Enter("monitor", "decided", s, NoBackend)
  /\ UNCHANGED <<table, state, raised, backend, kernel, phase, stopping>>

MonitorSeesDropped_Uncounted(s) ==
  /\ MonitorVisits(s)
  /\ s \in table /\ ~Connected(s)
  /\ attempts[s] < MaxAttempts
  /\ Enter("monitor", "decided", s, NoBackend)
  /\ UNCHANGED <<table, state, raised, backend, kernel, attempts, phase, stopping>>

MonitorSeesDropped(s) ==
  /\ MonitorVisits(s)
  /\ s \in table /\ ~Connected(s)
  /\ attempts[s] < MaxAttempts
  /\ attempts' = [attempts EXCEPT ![s] = @ + 1]
  /\ Enter("monitor", "decided", s, NoBackend)
  /\ UNCHANGED <<table, state, raised, backend, kernel, phase, stopping>>

\* reconnect looks the session up again, and connects it if it is there.
MonitorReconnects ==
  /\ phase # "exited"
  /\ at["monitor"] = "decided" /\ on["monitor"] \in table
  /\ StartConnect("monitor", "rediscover", on["monitor"])
  /\ UNCHANGED <<table, backend, kernel, attempts, todo, phase, stopping>>

MonitorTooLate ==
  /\ phase # "exited"
  /\ at["monitor"] = "decided" /\ on["monitor"] \notin table
  /\ Return("monitor")
  /\ UNCHANGED <<table, state, raised, backend, kernel, attempts, todo, phase, stopping>>

-----------------------------------------------------------------------------
(* ServerContext.shutdown, once the event loop has served its last call.   *)

Shutdown ==
  /\ phase = "serving" /\ at["loop"] = "idle"
  /\ phase' = "joining"
  /\ stopping' = TRUE
  /\ UNCHANGED <<table, state, raised, backend, kernel, at, on, hand, attempts, todo>>

\* stop joins the monitor for five seconds, whether or not its pass ends.
CloseAll ==
  /\ phase = "joining"
  /\ phase' = "closing"
  /\ todo' = [todo EXCEPT !["loop"] = table]
  /\ UNCHANGED <<table, state, raised, backend, kernel, at, on, hand, attempts, stopping>>

\* Mutant: close_all retries a session until it is closed.
CloseNext_Retries(s) ==
  /\ phase = "closing" /\ at["loop"] = "idle"
  /\ s \in todo["loop"]
  /\ StartClose(s)
  /\ UNCHANGED <<table, state, raised, backend, kernel, attempts, todo, phase, stopping>>

CloseNext(s) ==
  /\ phase = "closing" /\ at["loop"] = "idle"
  /\ s \in todo["loop"]
  /\ todo' = [todo EXCEPT !["loop"] = @ \ {s}]
  /\ StartClose(s)
  /\ UNCHANGED <<table, state, raised, backend, kernel, attempts, phase, stopping>>

\* The process ends and its daemon threads with it.
Exit ==
  /\ phase = "closing" /\ at["loop"] = "idle" /\ todo["loop"] = {}
  /\ phase' = "exited"
  /\ UNCHANGED <<table, state, raised, backend, kernel, at, on, hand, attempts, todo, stopping>>

-----------------------------------------------------------------------------
\* The kernel behind a backend ends, or its channels are stopped.
KernelDies(b) ==
  /\ kernel[b] = "live"
  /\ kernel' = [kernel EXCEPT ![b] = "dead"]
  /\ UNCHANGED <<table, state, raised, backend, at, on, hand, attempts, todo, phase, stopping>>

ClientCall == \E s \in Session :
  \/ \E t \in Thread : GetOrCreateDefault(t, s)
  \/ Create(s) \/ Reconnect(s) \/ Close(s) \/ Restart(s)

\* A thread goes on with the call it is in.
Continue(t) == \/ Discovered(t) \/ DiscoverRaises(t)
               \/ \E b \in Backend : ConnectSucceeds(t, b)
               \/ ConnectFails(t) \/ Insert(t) \/ Store(t)
               \/ t = "loop" /\ (Disconnect \/ DisconnectRaises \/ Pop \/ RestartEnds)

MonitorStep == \/ MonitorReconnects \/ MonitorTooLate
               \/ \E s \in Session : \/ MonitorMisses(s) \/ MonitorSeesHealthy(s)
                                     \/ MonitorGaveUp(s) \/ MonitorSeesDropped(s)

Ending == \/ CloseAll \/ Exit
          \/ \E s \in Session : CloseNext(s)

Next == \/ ClientCall \/ Shutdown \/ Ending
        \/ MonitorPass \/ MonitorStep
        \/ \E t \in Thread : Continue(t)
        \/ \E b \in Backend : KernelDies(b)

Spec == Init /\ [][Next]_vars

(***************************************************************************)
(* Every blocking call has a timeout of its own, so threads go on; the     *)
(* monitor's timer fires for ever.  Clients may stop calling.              *)
(***************************************************************************)
Fairness == /\ \A t \in Thread : WF_vars(Continue(t))
            /\ WF_vars(MonitorPass) /\ WF_vars(MonitorStep)
            /\ WF_vars(Ending)

FairSpec == Spec /\ Fairness

-----------------------------------------------------------------------------
(* What must hold.                                                         *)

(* Whatever the monitor and the tools do to a session at the same time, a  *)
(* listed session nobody is working on is ready or failed: no interleaving *)
(* of the writes to RuntimeProvider.state leaves it connecting for ever    *)
(* (base.py:77-108, session_manager.py:119-135).  Only one whose discover  *)
(* raised may stay discovering, which nothing writes down (base.py:78-79). *)
SettledState ==
  \A s \in table : ~Busy(s) => \/ state[s] \in {"ready", "failed"}
                               \/ state[s] = "discovering" /\ s \in raised

(* The monitor's attempts are bounded: a session that stays disconnected   *)
(* is not reconnected for ever (docs/RUNTIME_PROVIDERS.md:81-83).          *)
GivesUp ==
  \A s \in Session :
    <>[](phase # "exited" /\ ~Connected(s))
      => <>[](~(at["monitor"] \in {"rediscover", "reconnect"} /\ on["monitor"] = s))

(* Without the monitor a session that left the table has no live backend:  *)
(* neither close nor shutdown leaves anything connected behind them.       *)
UnlistedConnected(s) == s \notin table /\ ~Busy(s) /\ Connected(s)

ClosedHasNoBackend == at["monitor"] = "off" => \A s \in Session : ~UnlistedConnected(s)

(* Shutdown ends, whatever the other threads are doing.                    *)
ShutdownEnds == phase = "joining" ~> phase = "exited"

-----------------------------------------------------------------------------
(* What the documents say and the code does not do.                        *)

(* docs/TOOLS.md:17: closing disconnects and removes a session.  A         *)
(* reconnect the monitor had started connects it again afterwards.         *)
CloseIsFinal == \A s \in Session : ~UnlistedConnected(s)
=============================================================================
