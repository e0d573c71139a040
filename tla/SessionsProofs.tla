--------------------------- MODULE SessionsProofs ---------------------------
(***************************************************************************)
(* Proofs about Sessions, for any sessions, backends, workers and budget   *)
(* of reconnects, and any interleaving of the event loop, the monitor and  *)
(* the workers of background jobs.                                         *)
(***************************************************************************)
EXTENDS Sessions, TLAPS

(***************************************************************************)
(* The inductive invariant.                                                *)
(***************************************************************************)
(* Which thread may be where, and that it works on a session there.        *)
Placed ==
  \A t \in Thread :
    /\ at[t] \in {"idle", "off"} <=> on[t] = NoSession
    /\ at[t] \in {"idle", "off"} => hand[t] = NoBackend
    /\ at[t] \in {"close", "pop", "restart"} => t = "loop"
    /\ at[t] \in {"rediscover", "reconnect", "store"} => t \in {"loop", "monitor"}
    /\ at[t] \in {"decided", "off"} => t = "monitor"

(* Nobody else works on a session that is being created.                   *)
NewAlone ==
  /\ \A s \in table : state[s] # "absent"
  /\ \A t \in Thread :
       /\ on[t] # NoSession => state[on[t]] # "absent"
       /\ at[t] \in {"discover", "create", "insert"} =>
            /\ on[t] \notin table
            /\ \A u \in Thread : on[u] = on[t] => u = t
       /\ at[t] = "insert" => state[on[t]] = "ready"

(* A state that must pass is somebody's to change, unless discover raised. *)
Settling ==
  \A s \in Session :
    /\ state[s] = "discovering" /\ s \notin raised =>
         \E t \in Thread : at[t] \in {"discover", "rediscover"} /\ on[t] = s
    /\ state[s] = "connecting" =>
         \E t \in Thread : at[t] \in {"create", "reconnect"} /\ on[t] = s
    /\ state[s] = "disconnected" /\ s \in table => at["loop"] = "pop" /\ on["loop"] = s

(* A new backend is its connect's alone until it is stored, and then its   *)
(* session's alone.                                                        *)
Owned ==
  /\ \A s \in table : backend[s] # NoBackend
  /\ \A s, r \in Session : backend[s] = backend[r] /\ backend[s] # NoBackend => s = r
  /\ \A t \in Thread : at[t] \in {"insert", "store"} =>
       /\ hand[t] # NoBackend
       /\ \A s \in Session : backend[s] # hand[t]
       /\ \A u \in Thread : hand[u] = hand[t] => u = t

(* Without the monitor, nobody gives a session another backend while the   *)
(* event loop closes it.                                                   *)
LoopOnly ==
  at["monitor"] = "off" =>
    /\ \A s \in Session \ table : backend[s] # NoBackend => kernel[backend[s]] = "closed"
    /\ at["loop"] \in {"rediscover", "reconnect", "store", "close", "pop", "restart"} => on["loop"] \in table
    /\ at["loop"] \in {"close", "pop", "restart"} => hand["loop"] = backend[on["loop"]]
    /\ at["loop"] = "pop" => kernel[hand["loop"]] = "closed"

Inv == Placed /\ NewAlone /\ Settling /\ Owned /\ LoopOnly

core == <<table, state, raised, backend, kernel, at, on, hand>>

-----------------------------------------------------------------------------
LEMMA CreatesKeeps ==
  ASSUME TypeOK, Inv,
         NEW t \in Thread \ {"monitor"}, NEW s \in Session, at[t] = "idle", state[s] = "absent",
         StartConnect(t, "discover", s), UNCHANGED <<table, backend, kernel>>
  PROVE  Inv'
<1> USE NoneAssumption, WorkerAssumption DEF TypeOK, Thread, Enter, Move, Return, StartConnect
<1>1. Placed'
  BY DEF Inv, Placed, NewAlone, Settling, Owned, LoopOnly
<1>2. NewAlone'
  BY DEF Inv, Placed, NewAlone, Settling, Owned, LoopOnly
<1>3. Settling'
  BY DEF Inv, Placed, NewAlone, Settling, Owned, LoopOnly
<1>4. Owned'
  BY DEF Inv, Placed, NewAlone, Settling, Owned, LoopOnly
<1>5. LoopOnly'
  BY DEF Inv, Placed, NewAlone, Settling, Owned, LoopOnly
<1>6. QED
  BY <1>1, <1>2, <1>3, <1>4, <1>5 DEF Inv

LEMMA ReconnectsKeeps ==
  ASSUME TypeOK, Inv,
         NEW t \in {"loop", "monitor"}, NEW s \in table,
         (at[t] = "idle" /\ t = "loop") \/ (at[t] = "decided" /\ on[t] = s),
         StartConnect(t, "rediscover", s), UNCHANGED <<table, backend, kernel>>
  PROVE  Inv'
<1> USE NoneAssumption, WorkerAssumption DEF TypeOK, Thread, Enter, Move, Return, StartConnect
<1>1. Placed'
  BY DEF Inv, Placed, NewAlone, Settling, Owned, LoopOnly
<1>2. NewAlone'
  BY DEF Inv, Placed, NewAlone, Settling, Owned, LoopOnly
<1>3. Settling'
  BY DEF Inv, Placed, NewAlone, Settling, Owned, LoopOnly
<1>4. Owned'
  BY DEF Inv, Placed, NewAlone, Settling, Owned, LoopOnly
<1>5. LoopOnly'
  BY DEF Inv, Placed, NewAlone, Settling, Owned, LoopOnly
<1>6. QED
  BY <1>1, <1>2, <1>3, <1>4, <1>5 DEF Inv

LEMMA DiscoveredKeeps ==
  ASSUME TypeOK, Inv,
         NEW t \in Thread, Discovered(t)
  PROVE  Inv'
<1> USE NoneAssumption, WorkerAssumption DEF TypeOK, Thread, Enter, Move, Return, Discovered
<1>1. Placed'
  BY DEF Inv, Placed, NewAlone, Settling, Owned, LoopOnly
<1>2. NewAlone'
  BY DEF Inv, Placed, NewAlone, Settling, Owned, LoopOnly
<1>3. Settling'
  BY DEF Inv, Placed, NewAlone, Settling, Owned, LoopOnly
<1>4. Owned'
  BY DEF Inv, Placed, NewAlone, Settling, Owned, LoopOnly
<1>5. LoopOnly'
  BY DEF Inv, Placed, NewAlone, Settling, Owned, LoopOnly
<1>6. QED
  BY <1>1, <1>2, <1>3, <1>4, <1>5 DEF Inv

LEMMA DiscoverRaisesKeeps ==
  ASSUME TypeOK, Inv,
         NEW t \in Thread, DiscoverRaises(t)
  PROVE  Inv'
<1> USE NoneAssumption, WorkerAssumption DEF TypeOK, Thread, Enter, Move, Return, DiscoverRaises
<1>1. Placed'
  BY DEF Inv, Placed, NewAlone, Settling, Owned, LoopOnly
<1>2. NewAlone'
  BY DEF Inv, Placed, NewAlone, Settling, Owned, LoopOnly
<1>3. Settling'
  BY DEF Inv, Placed, NewAlone, Settling, Owned, LoopOnly
<1>4. Owned'
  BY DEF Inv, Placed, NewAlone, Settling, Owned, LoopOnly
<1>5. LoopOnly'
  BY DEF Inv, Placed, NewAlone, Settling, Owned, LoopOnly
<1>6. QED
  BY <1>1, <1>2, <1>3, <1>4, <1>5 DEF Inv

LEMMA SucceedsKeeps ==
  ASSUME TypeOK, Inv,
         NEW t \in Thread, NEW b \in Backend, ConnectSucceeds(t, b)
  PROVE  Inv'
<1> USE NoneAssumption, WorkerAssumption DEF TypeOK, Thread, Enter, Move, Return, ConnectSucceeds, Fresh
<1>1. Placed'
  BY DEF Inv, Placed, NewAlone, Settling, Owned, LoopOnly
<1>2. NewAlone'
  BY DEF Inv, Placed, NewAlone, Settling, Owned, LoopOnly
<1>3. Settling'
  BY DEF Inv, Placed, NewAlone, Settling, Owned, LoopOnly
<1>4. Owned'
  BY DEF Inv, Placed, NewAlone, Settling, Owned, LoopOnly
<1>5. LoopOnly'
  BY DEF Inv, Placed, NewAlone, Settling, Owned, LoopOnly
<1>6. QED
  BY <1>1, <1>2, <1>3, <1>4, <1>5 DEF Inv

LEMMA FailsKeeps ==
  ASSUME TypeOK, Inv,
         NEW t \in Thread, ConnectFails(t)
  PROVE  Inv'
<1> USE NoneAssumption, WorkerAssumption DEF TypeOK, Thread, Enter, Move, Return, ConnectFails
<1>1. Placed'
  BY DEF Inv, Placed, NewAlone, Settling, Owned, LoopOnly
<1>2. NewAlone'
  BY DEF Inv, Placed, NewAlone, Settling, Owned, LoopOnly
<1>3. Settling'
  BY DEF Inv, Placed, NewAlone, Settling, Owned, LoopOnly
<1>4. Owned'
  BY DEF Inv, Placed, NewAlone, Settling, Owned, LoopOnly
<1>5. LoopOnly'
  BY DEF Inv, Placed, NewAlone, Settling, Owned, LoopOnly
<1>6. QED
  BY <1>1, <1>2, <1>3, <1>4, <1>5 DEF Inv

LEMMA InsertKeeps ==
  ASSUME TypeOK, Inv,
         NEW t \in Thread, Insert(t)
  PROVE  Inv'
<1> USE NoneAssumption, WorkerAssumption DEF TypeOK, Thread, Enter, Move, Return, Insert
<1>1. Placed'
  BY DEF Inv, Placed, NewAlone, Settling, Owned, LoopOnly
<1>2. NewAlone'
  BY DEF Inv, Placed, NewAlone, Settling, Owned, LoopOnly
<1>3. Settling'
  BY DEF Inv, Placed, NewAlone, Settling, Owned, LoopOnly
<1>4. Owned'
  BY DEF Inv, Placed, NewAlone, Settling, Owned, LoopOnly
<1>5. LoopOnly'
  BY DEF Inv, Placed, NewAlone, Settling, Owned, LoopOnly
<1>6. QED
  BY <1>1, <1>2, <1>3, <1>4, <1>5 DEF Inv

LEMMA StoreKeeps ==
  ASSUME TypeOK, Inv,
         NEW t \in Thread, Store(t)
  PROVE  Inv'
<1> USE NoneAssumption, WorkerAssumption DEF TypeOK, Thread, Enter, Move, Return, Store
<1>1. Placed'
  BY DEF Inv, Placed, NewAlone, Settling, Owned, LoopOnly
<1>2. NewAlone'
  BY DEF Inv, Placed, NewAlone, Settling, Owned, LoopOnly
<1>3. Settling'
  BY DEF Inv, Placed, NewAlone, Settling, Owned, LoopOnly
<1>4. Owned'
  BY DEF Inv, Placed, NewAlone, Settling, Owned, LoopOnly
<1>5. LoopOnly'
  BY DEF Inv, Placed, NewAlone, Settling, Owned, LoopOnly
<1>6. QED
  BY <1>1, <1>2, <1>3, <1>4, <1>5 DEF Inv

LEMMA ClosesKeeps ==
  ASSUME TypeOK, Inv,
         NEW s \in Session, at["loop"] = "idle", StartClose(s),
         UNCHANGED <<table, state, raised, backend, kernel>>
  PROVE  Inv'
<1> USE NoneAssumption, WorkerAssumption DEF TypeOK, Thread, Enter, Move, Return, StartClose
<1>1. Placed'
  BY DEF Inv, Placed, NewAlone, Settling, Owned, LoopOnly
<1>2. NewAlone'
  BY DEF Inv, Placed, NewAlone, Settling, Owned, LoopOnly
<1>3. Settling'
  BY DEF Inv, Placed, NewAlone, Settling, Owned, LoopOnly
<1>4. Owned'
  BY DEF Inv, Placed, NewAlone, Settling, Owned, LoopOnly
<1>5. LoopOnly'
  BY DEF Inv, Placed, NewAlone, Settling, Owned, LoopOnly
<1>6. QED
  BY <1>1, <1>2, <1>3, <1>4, <1>5 DEF Inv

LEMMA DisconnectKeeps ==
  ASSUME TypeOK, Inv,
         Disconnect
  PROVE  Inv'
<1> USE NoneAssumption, WorkerAssumption DEF TypeOK, Thread, Enter, Move, Return, Disconnect
<1>1. Placed'
  BY DEF Inv, Placed, NewAlone, Settling, Owned, LoopOnly
<1>2. NewAlone'
  BY DEF Inv, Placed, NewAlone, Settling, Owned, LoopOnly
<1>3. Settling'
  BY DEF Inv, Placed, NewAlone, Settling, Owned, LoopOnly
<1>4. Owned'
  BY DEF Inv, Placed, NewAlone, Settling, Owned, LoopOnly
<1>5. LoopOnly'
  BY DEF Inv, Placed, NewAlone, Settling, Owned, LoopOnly
<1>6. QED
  BY <1>1, <1>2, <1>3, <1>4, <1>5 DEF Inv

LEMMA DisconnectRaisesKeeps ==
  ASSUME TypeOK, Inv,
         DisconnectRaises
  PROVE  Inv'
<1> USE NoneAssumption, WorkerAssumption DEF TypeOK, Thread, Enter, Move, Return, DisconnectRaises
<1>1. Placed'
  BY DEF Inv, Placed, NewAlone, Settling, Owned, LoopOnly
<1>2. NewAlone'
  BY DEF Inv, Placed, NewAlone, Settling, Owned, LoopOnly
<1>3. Settling'
  BY DEF Inv, Placed, NewAlone, Settling, Owned, LoopOnly
<1>4. Owned'
  BY DEF Inv, Placed, NewAlone, Settling, Owned, LoopOnly
<1>5. LoopOnly'
  BY DEF Inv, Placed, NewAlone, Settling, Owned, LoopOnly
<1>6. QED
  BY <1>1, <1>2, <1>3, <1>4, <1>5 DEF Inv

LEMMA PopKeeps ==
  ASSUME TypeOK, Inv,
         Pop
  PROVE  Inv'
<1> USE NoneAssumption, WorkerAssumption DEF TypeOK, Thread, Enter, Move, Return, Pop
<1>1. Placed'
  BY DEF Inv, Placed, NewAlone, Settling, Owned, LoopOnly
<1>2. NewAlone'
  BY DEF Inv, Placed, NewAlone, Settling, Owned, LoopOnly
<1>3. Settling'
  BY DEF Inv, Placed, NewAlone, Settling, Owned, LoopOnly
<1>4. Owned'
  BY DEF Inv, Placed, NewAlone, Settling, Owned, LoopOnly
<1>5. LoopOnly'
  BY DEF Inv, Placed, NewAlone, Settling, Owned, LoopOnly
<1>6. QED
  BY <1>1, <1>2, <1>3, <1>4, <1>5 DEF Inv

LEMMA RestartKeeps ==
  ASSUME TypeOK, Inv,
         NEW s \in Session, Restart(s)
  PROVE  Inv'
<1> USE NoneAssumption, WorkerAssumption DEF TypeOK, Thread, Enter, Move, Return, Restart, Serving
<1>1. Placed'
  BY DEF Inv, Placed, NewAlone, Settling, Owned, LoopOnly
<1>2. NewAlone'
  BY DEF Inv, Placed, NewAlone, Settling, Owned, LoopOnly
<1>3. Settling'
  BY DEF Inv, Placed, NewAlone, Settling, Owned, LoopOnly
<1>4. Owned'
  BY DEF Inv, Placed, NewAlone, Settling, Owned, LoopOnly
<1>5. LoopOnly'
  BY DEF Inv, Placed, NewAlone, Settling, Owned, LoopOnly
<1>6. QED
  BY <1>1, <1>2, <1>3, <1>4, <1>5 DEF Inv

LEMMA RestartEndsKeeps ==
  ASSUME TypeOK, Inv,
         RestartEnds
  PROVE  Inv'
<1> USE NoneAssumption, WorkerAssumption DEF TypeOK, Thread, Enter, Move, Return, RestartEnds
<1>1. Placed'
  BY DEF Inv, Placed, NewAlone, Settling, Owned, LoopOnly
<1>2. NewAlone'
  BY DEF Inv, Placed, NewAlone, Settling, Owned, LoopOnly
<1>3. Settling'
  BY DEF Inv, Placed, NewAlone, Settling, Owned, LoopOnly
<1>4. Owned'
  BY DEF Inv, Placed, NewAlone, Settling, Owned, LoopOnly
<1>5. LoopOnly'
  BY DEF Inv, Placed, NewAlone, Settling, Owned, LoopOnly
<1>6. QED
  BY <1>1, <1>2, <1>3, <1>4, <1>5 DEF Inv

LEMMA DecidesKeeps ==
  ASSUME TypeOK, Inv,
         NEW s \in table, at["monitor"] = "idle",
         Enter("monitor", "decided", s, NoBackend), UNCHANGED <<table, state, raised, backend, kernel>>
  PROVE  Inv'
<1> USE NoneAssumption, WorkerAssumption DEF TypeOK, Thread, Enter, Move, Return
<1>1. Placed'
  BY DEF Inv, Placed, NewAlone, Settling, Owned, LoopOnly
<1>2. NewAlone'
  BY DEF Inv, Placed, NewAlone, Settling, Owned, LoopOnly
<1>3. Settling'
  BY DEF Inv, Placed, NewAlone, Settling, Owned, LoopOnly
<1>4. Owned'
  BY DEF Inv, Placed, NewAlone, Settling, Owned, LoopOnly
<1>5. LoopOnly'
  BY DEF Inv, Placed, NewAlone, Settling, Owned, LoopOnly
<1>6. QED
  BY <1>1, <1>2, <1>3, <1>4, <1>5 DEF Inv

LEMMA TooLateKeeps ==
  ASSUME TypeOK, Inv,
         MonitorTooLate
  PROVE  Inv'
<1> USE NoneAssumption, WorkerAssumption DEF TypeOK, Thread, Enter, Move, Return, MonitorTooLate
<1>1. Placed'
  BY DEF Inv, Placed, NewAlone, Settling, Owned, LoopOnly
<1>2. NewAlone'
  BY DEF Inv, Placed, NewAlone, Settling, Owned, LoopOnly
<1>3. Settling'
  BY DEF Inv, Placed, NewAlone, Settling, Owned, LoopOnly
<1>4. Owned'
  BY DEF Inv, Placed, NewAlone, Settling, Owned, LoopOnly
<1>5. LoopOnly'
  BY DEF Inv, Placed, NewAlone, Settling, Owned, LoopOnly
<1>6. QED
  BY <1>1, <1>2, <1>3, <1>4, <1>5 DEF Inv

LEMMA DiesKeeps ==
  ASSUME TypeOK, Inv,
         NEW b \in Backend, KernelDies(b)
  PROVE  Inv'
<1> USE NoneAssumption, WorkerAssumption DEF TypeOK, Thread, Enter, Move, Return, KernelDies
<1>1. Placed'
  BY DEF Inv, Placed, NewAlone, Settling, Owned, LoopOnly
<1>2. NewAlone'
  BY DEF Inv, Placed, NewAlone, Settling, Owned, LoopOnly
<1>3. Settling'
  BY DEF Inv, Placed, NewAlone, Settling, Owned, LoopOnly
<1>4. Owned'
  BY DEF Inv, Placed, NewAlone, Settling, Owned, LoopOnly
<1>5. LoopOnly'
  BY DEF Inv, Placed, NewAlone, Settling, Owned, LoopOnly
<1>6. QED
  BY <1>1, <1>2, <1>3, <1>4, <1>5 DEF Inv

LEMMA QuietKeeps ==
  ASSUME TypeOK, Inv,
         UNCHANGED core
  PROVE  Inv'
<1> USE NoneAssumption, WorkerAssumption DEF TypeOK, Thread, Enter, Move, Return, core
<1>1. Placed'
  BY DEF Inv, Placed, NewAlone, Settling, Owned, LoopOnly
<1>2. NewAlone'
  BY DEF Inv, Placed, NewAlone, Settling, Owned, LoopOnly
<1>3. Settling'
  BY DEF Inv, Placed, NewAlone, Settling, Owned, LoopOnly
<1>4. Owned'
  BY DEF Inv, Placed, NewAlone, Settling, Owned, LoopOnly
<1>5. LoopOnly'
  BY DEF Inv, Placed, NewAlone, Settling, Owned, LoopOnly
<1>6. QED
  BY <1>1, <1>2, <1>3, <1>4, <1>5 DEF Inv

-----------------------------------------------------------------------------
(***************************************************************************)
(* Every step.                                                             *)
(***************************************************************************)
LEMMA TypeStep == TypeOK /\ Inv /\ [Next]_vars => TypeOK'
<1>1. SUFFICES ASSUME TypeOK, Inv, [Next]_vars PROVE TypeOK'
  OBVIOUS
<1> USE <1>1, MaxAttemptsAssumption DEF TypeOK, Thread, Places
<1>2. ASSUME NEW s \in Session, Create(s) PROVE TypeOK'
  BY <1>2 DEF Create, StartConnect, Enter
<1>3. ASSUME NEW s \in Session, NEW t \in Thread, GetOrCreateDefault(t, s) PROVE TypeOK'
  BY <1>3 DEF GetOrCreateDefault, StartConnect, Enter
<1>4. ASSUME NEW s \in Session, Reconnect(s) PROVE TypeOK'
  BY <1>4 DEF Reconnect, StartConnect, Enter
<1>5. ASSUME NEW s \in Session, Close(s) PROVE TypeOK'
  BY <1>5 DEF Close, StartClose, Enter
<1>6. ASSUME NEW s \in Session, Restart(s) PROVE TypeOK'
  BY <1>6 DEF Restart, Enter
<1>7. CASE Shutdown
  BY <1>7 DEF Shutdown
<1>8. CASE CloseAll
  BY <1>8 DEF CloseAll
<1>9. CASE Exit
  BY <1>9 DEF Exit
<1>10. ASSUME NEW s \in Session, CloseNext(s) PROVE TypeOK'
  BY <1>10 DEF CloseNext, StartClose, Enter
<1>11. CASE MonitorPass
  BY <1>11 DEF MonitorPass
<1>12. CASE MonitorReconnects
  BY <1>12 DEF MonitorReconnects, StartConnect, Enter
<1>13. CASE MonitorTooLate
  BY <1>13 DEF MonitorTooLate, Return, Enter
<1>14. ASSUME NEW s \in Session, MonitorMisses(s) PROVE TypeOK'
  BY <1>14 DEF MonitorMisses, MonitorVisits
<1>15. ASSUME NEW s \in Session, MonitorSeesHealthy(s) PROVE TypeOK'
  BY <1>15 DEF MonitorSeesHealthy, MonitorVisits
<1>16. ASSUME NEW s \in Session, MonitorGaveUp(s) PROVE TypeOK'
  BY <1>16 DEF MonitorGaveUp, MonitorVisits
<1>17. ASSUME NEW s \in Session, MonitorSeesDropped(s) PROVE TypeOK'
  BY <1>17 DEF MonitorSeesDropped, MonitorVisits, Enter
<1>18. ASSUME NEW t \in Thread, NEW b \in Backend, ConnectSucceeds(t, b) PROVE TypeOK'
  <2>1. \/ at' = [at EXCEPT ![t] = "insert"]
        \/ at' = [at EXCEPT ![t] = "store"]
    <3>1. PICK step \in {<<"create", "insert">>, <<"reconnect", "store">>} :
            Move(t, step[1], step[2])
      BY <1>18 DEF ConnectSucceeds
    <3>2. step[2] \in {"insert", "store"}
      OBVIOUS
    <3>3. QED
      BY <3>1, <3>2 DEF Move
  <2>2. at' \in [Thread -> Places]
    BY <2>1
  <2>3. QED
    BY <1>18, <2>2 DEF ConnectSucceeds
<1>29. ASSUME NEW t \in Thread, Discovered(t) PROVE TypeOK'
  <2>1. \/ at' = [at EXCEPT ![t] = "create"]
        \/ at' = [at EXCEPT ![t] = "reconnect"]
    <3>1. PICK step \in {<<"discover", "create">>, <<"rediscover", "reconnect">>} :
            Move(t, step[1], step[2])
      BY <1>29 DEF Discovered
    <3>2. step[2] \in {"create", "reconnect"}
      OBVIOUS
    <3>3. QED
      BY <3>1, <3>2 DEF Move
  <2>2. at' \in [Thread -> Places]
    BY <2>1
  <2>3. QED
    BY <1>29, <2>2 DEF Discovered
<1>30. ASSUME NEW t \in Thread, DiscoverRaises(t) PROVE TypeOK'
  <2>1. on[t] \in Session
    BY <1>30, NoneAssumption DEF DiscoverRaises, Inv, Placed
  <2>2. QED
    BY <1>30, <2>1 DEF DiscoverRaises, Return, Enter
<1>19. ASSUME NEW t \in Thread, ConnectFails(t) PROVE TypeOK'
  BY <1>19 DEF ConnectFails, Return, Enter
<1>20. ASSUME NEW t \in Thread, Insert(t) PROVE TypeOK'
  BY <1>20 DEF Insert, Return, Enter, Inv, Placed
<1>21. ASSUME NEW t \in Thread, Store(t) PROVE TypeOK'
  BY <1>21 DEF Store, Return, Enter
<1>22. CASE Disconnect
  BY <1>22 DEF Disconnect, Move
<1>23. CASE DisconnectRaises
  BY <1>23 DEF DisconnectRaises, Return, Enter
<1>24. CASE Pop
  BY <1>24 DEF Pop, Return, Enter
<1>25. CASE RestartEnds
  BY <1>25 DEF RestartEnds, Return, Enter
<1>26. ASSUME NEW b \in Backend, KernelDies(b) PROVE TypeOK'
  BY <1>26 DEF KernelDies
<1>27. CASE UNCHANGED vars
  BY <1>27 DEF vars
<1>28. QED
  BY <1>1, <1>2, <1>3, <1>4, <1>5, <1>6, <1>7, <1>8, <1>9, <1>10, <1>11,
     <1>12, <1>13, <1>14, <1>15, <1>16, <1>17, <1>18, <1>19, <1>20,
     <1>21, <1>22, <1>23, <1>24, <1>25, <1>26, <1>27, <1>29, <1>30
  DEF Next, ClientCall, Ending, MonitorStep, Continue

LEMMA InvStep == TypeOK /\ Inv /\ [Next]_vars => Inv'
<1>1. SUFFICES ASSUME TypeOK, Inv, [Next]_vars PROVE Inv'
  OBVIOUS
<1>2. ASSUME NEW s \in Session, Create(s) PROVE Inv'
  BY <1>1, <1>2, CreatesKeeps, WorkerAssumption DEF Create, Serving, Thread
<1>3. ASSUME NEW s \in Session, NEW t \in Thread, GetOrCreateDefault(t, s) PROVE Inv'
  <2>1. t \in Thread \ {"monitor"} /\ at[t] = "idle"
    BY <1>3, WorkerAssumption DEF GetOrCreateDefault, Serving, Asking
  <2>2. /\ state[s] = "absent" /\ StartConnect(t, "discover", s)
        /\ UNCHANGED <<table, backend, kernel>>
    BY <1>3 DEF GetOrCreateDefault
  <2>3. QED
    BY <1>1, <2>1, <2>2, CreatesKeeps
<1>4. ASSUME NEW s \in Session, Reconnect(s) PROVE Inv'
  <2>1. /\ s \in table /\ at["loop"] = "idle" /\ StartConnect("loop", "rediscover", s)
        /\ UNCHANGED <<table, backend, kernel>>
    BY <1>4 DEF Reconnect, Serving
  <2>2. QED
    BY <1>1, <2>1, ReconnectsKeeps
<1>5. ASSUME NEW s \in Session, Close(s) PROVE Inv'
  BY <1>1, <1>5, ClosesKeeps DEF Close, Serving
<1>6. ASSUME NEW s \in Session, Restart(s) PROVE Inv'
  BY <1>1, <1>6, RestartKeeps
<1>7. CASE Shutdown
  BY <1>1, <1>7, QuietKeeps DEF Shutdown, core
<1>8. CASE CloseAll
  BY <1>1, <1>8, QuietKeeps DEF CloseAll, core
<1>9. CASE Exit
  BY <1>1, <1>9, QuietKeeps DEF Exit, core
<1>10. ASSUME NEW s \in Session, CloseNext(s) PROVE Inv'
  BY <1>1, <1>10, ClosesKeeps DEF CloseNext
<1>11. CASE MonitorPass
  BY <1>1, <1>11, QuietKeeps DEF MonitorPass, core
<1>12. CASE MonitorReconnects
  BY <1>1, <1>12, ReconnectsKeeps DEF MonitorReconnects
<1>13. CASE MonitorTooLate
  BY <1>1, <1>13, TooLateKeeps
<1>14. ASSUME NEW s \in Session, MonitorMisses(s) PROVE Inv'
  BY <1>1, <1>14, QuietKeeps DEF MonitorMisses, core
<1>15. ASSUME NEW s \in Session, MonitorSeesHealthy(s) PROVE Inv'
  BY <1>1, <1>15, QuietKeeps DEF MonitorSeesHealthy, core
<1>16. ASSUME NEW s \in Session, MonitorGaveUp(s) PROVE Inv'
  BY <1>1, <1>16, QuietKeeps DEF MonitorGaveUp, core
<1>17. ASSUME NEW s \in Session, MonitorSeesDropped(s) PROVE Inv'
  BY <1>1, <1>17, DecidesKeeps DEF MonitorSeesDropped, MonitorVisits
<1>18. ASSUME NEW t \in Thread, NEW b \in Backend, ConnectSucceeds(t, b) PROVE Inv'
  BY <1>1, <1>18, SucceedsKeeps
<1>29. ASSUME NEW t \in Thread, Discovered(t) PROVE Inv'
  BY <1>1, <1>29, DiscoveredKeeps
<1>30. ASSUME NEW t \in Thread, DiscoverRaises(t) PROVE Inv'
  BY <1>1, <1>30, DiscoverRaisesKeeps
<1>19. ASSUME NEW t \in Thread, ConnectFails(t) PROVE Inv'
  BY <1>1, <1>19, FailsKeeps
<1>20. ASSUME NEW t \in Thread, Insert(t) PROVE Inv'
  BY <1>1, <1>20, InsertKeeps
<1>21. ASSUME NEW t \in Thread, Store(t) PROVE Inv'
  BY <1>1, <1>21, StoreKeeps
<1>22. CASE Disconnect
  BY <1>1, <1>22, DisconnectKeeps
<1>23. CASE DisconnectRaises
  BY <1>1, <1>23, DisconnectRaisesKeeps
<1>24. CASE Pop
  BY <1>1, <1>24, PopKeeps
<1>25. CASE RestartEnds
  BY <1>1, <1>25, RestartEndsKeeps
<1>26. ASSUME NEW b \in Backend, KernelDies(b) PROVE Inv'
  BY <1>1, <1>26, DiesKeeps
<1>27. CASE UNCHANGED vars
  BY <1>1, <1>27, QuietKeeps DEF vars, core
<1>28. QED
  BY <1>1, <1>2, <1>3, <1>4, <1>5, <1>6, <1>7, <1>8, <1>9, <1>10, <1>11,
     <1>12, <1>13, <1>14, <1>15, <1>16, <1>17, <1>18, <1>19, <1>20,
     <1>21, <1>22, <1>23, <1>24, <1>25, <1>26, <1>27, <1>29, <1>30
  DEF Next, ClientCall, Ending, MonitorStep, Continue

LEMMA Always == Spec => [](TypeOK /\ Inv)
<1>1. ASSUME Init PROVE TypeOK
  <2>1. at \in [Thread -> Places]
    BY <1>1 DEF Init, Places
  <2>2. /\ table \subseteq Session /\ stopping \in BOOLEAN
        /\ phase \in {"serving", "joining", "closing", "exited"}
    BY <1>1 DEF Init
  <2>3. attempts \in [Session -> 0..MaxAttempts]
    BY <1>1, MaxAttemptsAssumption DEF Init
  <2>4. todo \in [{"loop", "monitor"} -> SUBSET Session]
    BY <1>1 DEF Init
  <2>5. QED
    BY <1>1, <2>1, <2>2, <2>3, <2>4 DEF Init, TypeOK
<1>2. Init => Inv
  BY NoneAssumption, WorkerAssumption
  DEF Init, Inv, Placed, NewAlone, Settling, Owned, LoopOnly, Thread
<1>3. QED
  BY <1>1, <1>2, TypeStep, InvStep, PTL DEF Spec

-----------------------------------------------------------------------------
(***************************************************************************)
(* The theorems.                                                           *)
(***************************************************************************)

(* The table, the providers, the backends and the threads keep their types,*)
(* and no count of reconnects passes the budget.                           *)
THEOREM TypeCorrect == Spec => []TypeOK
<1>1. QED
  BY Always, PTL

(* No interleaving of the monitor, the tools and the jobs leaves a listed  *)
(* session that nobody works on connecting or disconnected; discovering it *)
(* is left only by a discover that raised (base.py:77-108,                 *)
(* session_manager.py:119-135).                                            *)
THEOREM SessionsSettle == Spec => []SettledState
<1>1. ASSUME TypeOK, Inv PROVE SettledState
  <2>1. SUFFICES ASSUME NEW s \in table, ~Busy(s)
                 PROVE  \/ state[s] \in {"ready", "failed"}
                        \/ state[s] = "discovering" /\ s \in raised
    BY DEF SettledState
  <2>2. /\ s \in Session
        /\ state[s] \in {"absent", "discovering", "connecting", "ready", "failed", "disconnected"}
    BY <1>1 DEF TypeOK
  <2>3. state[s] # "absent"
    BY <1>1 DEF Inv, NewAlone
  <2>4. state[s] \notin {"connecting", "disconnected"}
    BY <1>1, <2>1, <2>2 DEF Inv, Settling, Busy, Thread
  <2>5. state[s] = "discovering" => s \in raised
    BY <1>1, <2>1, <2>2 DEF Inv, Settling, Busy, Thread
  <2>6. QED
    BY <2>2, <2>3, <2>4, <2>5
<1>2. QED
  BY <1>1, Always, PTL

(* With the monitor off, a session that was closed has no live backend,    *)
(* whatever jobs' workers and shutdown did meanwhile                       *)
(* (session_manager.py:131-142).                                           *)
THEOREM ClosedIsDisconnected == Spec => []ClosedHasNoBackend
<1>1. ASSUME TypeOK, Inv PROVE ClosedHasNoBackend
  BY <1>1 DEF Inv, LoopOnly, ClosedHasNoBackend, UnlistedConnected, Connected
<1>2. QED
  BY <1>1, Always, PTL
=============================================================================
