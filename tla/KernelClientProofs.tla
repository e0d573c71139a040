------------------------- MODULE KernelClientProofs -------------------------
(***************************************************************************)
(* Proofs about KernelClient, for any callers, any number of executions    *)
(* and of outputs, and any interleaving of timeouts, interrupts, restarts  *)
(* and disconnections with them, a restart's steps one by one.             *)
(***************************************************************************)
EXTENDS KernelClient, SequenceTheorems, TLAPS

(***************************************************************************)
(* The inductive invariant, over the positions of the two queues.          *)
(***************************************************************************)
InShell(r) == \E i \in 1..Len(shell) : shell[i] = r

(* Requests are numbered in the order they are sent, each caller waits for *)
(* one of its own.                                                         *)
NumberedOnce ==
  /\ \A c, d \in Caller : c # d /\ msgId[c] = msgId[d] => msgId[c] = 0
  /\ \A c \in Caller : /\ msgId[c] <= requests
                       /\ pc[c] \in {"waiting", "ok", "error"} => msgId[c] # 0
  /\ current <= requests
  /\ \A i \in 1..Len(shell) : shell[i] <= requests
  /\ \A i, j \in 1..Len(shell) : shell[i] = shell[j] => i = j

(* The kernel says nothing of a request before it starts it.               *)
Fresh(r) == r > requests \/ InShell(r)

FreshSilent ==
  \A r \in Request : Fresh(r) => /\ emitted[r] = 0 /\ r # current
                                 /\ \A k \in 1..Len(iopub) : iopub[k].id # r

(* The messages of a request are its outputs, in order, and then its idle  *)
(* status.                                                                 *)
InOrder ==
  /\ current # 0 => emitted[current] <= MaxOutputs
  /\ \A k, l \in 1..Len(iopub) :
       k < l /\ iopub[k].id = iopub[l].id =>
         /\ iopub[k].kind # "idle"
         /\ iopub[l].kind # "idle" => iopub[k].n < iopub[l].n
  /\ \A k \in 1..Len(iopub) :
       /\ iopub[k].kind # "idle" => iopub[k].n \in 1..emitted[iopub[k].id]
       /\ iopub[k].kind = "idle" => /\ iopub[k].n = 0 /\ iopub[k].id # current
                                    /\ fate[iopub[k].id] # "none"

Ordered(c) ==
  /\ \A i \in 1..Len(got[c]), k \in 1..Len(iopub) :
       iopub[k].id = msgId[c] /\ iopub[k].kind # "idle" => got[c][i].n < iopub[k].n
  /\ \A i, j \in 1..Len(got[c]) : i < j => got[c][i].n < got[c][j].n

Collected ==
  \A c \in Caller :
    /\ \A i \in 1..Len(got[c]) :
         got[c][i].id = msgId[c] /\ got[c][i].n <= emitted[msgId[c]]
    /\ msgId[c] \notin during => Ordered(c)

(* Of a request no message of which was taken by another caller or in a    *)
(* restart, and that is still alive, every output is in the queue or with  *)
(* its caller.                                                             *)
Undisturbed(c) == connected /\ pc[c] = "waiting" /\ ~Disturbed(c)

InSequence(c) == \A i \in 1..Len(got[c]) : got[c][i].n = i

AllHere(c) ==
  (msgId[c] = current \/ \E k \in 1..Len(iopub) : iopub[k].id = msgId[c]) =>
    \A m \in 1..emitted[msgId[c]] :
      m <= Len(got[c]) \/ \E k \in 1..Len(iopub) : iopub[k].id = msgId[c] /\ iopub[k].n = m

ErrorHere(c) ==
  /\ fate[msgId[c]] = "raised"
  /\ \E k \in 1..Len(iopub) : iopub[k].id = msgId[c] /\ iopub[k].kind = "idle"
  => \/ Failed(got[c])
     \/ \E k \in 1..Len(iopub) : iopub[k].id = msgId[c] /\ iopub[k].kind = "error"

NothingMissing ==
  \A c \in Caller : Undisturbed(c) => InSequence(c) /\ AllHere(c) /\ ErrorHere(c)

EndedIsOver == \A c \in Caller : Ended(c) => msgId[c] # current /\ ~Fresh(msgId[c])

Inv == /\ NumberedOnce /\ FreshSilent /\ InOrder /\ Collected
       /\ NothingMissing /\ EndedIsOver /\ OnlyOthersLoseOutput

(* While a restart is under way, the new kernel and the new client only    *)
(* know requests that were sent meanwhile.                                 *)
DuringOnly ==
  /\ stage # "none" => /\ current # 0 => current \in during
                       /\ \A i \in 1..Len(shell) : shell[i] \in during
  /\ stage = "swapped" => \A k \in 1..Len(iopub) : iopub[k].id \in during

(* The former client hears what the kernel says, and of the requests whose *)
(* callers it keeps, only of those sent during the restart.                *)
Said(m) ==
  /\ ~Fresh(m.id)
  /\ m.kind # "idle" => m.n \in 1..emitted[m.id]
  /\ m.kind = "idle" => m.n = 0 /\ m.id # current /\ fate[m.id] # "none"

Told(m) ==
  /\ Said(m)
  /\ \A c \in behind : m.id = msgId[c] => msgId[c] \in during

LeftBehind ==
  /\ behind = {} => former = <<>>
  /\ \A c \in behind :
       /\ pc[c] = "waiting"
       /\ msgId[c] \notin during => msgId[c] # current /\ ~Fresh(msgId[c])
  /\ \A k \in 1..Len(former) : Told(former[k])

RestartInv == DuringOnly /\ LeftBehind

-----------------------------------------------------------------------------
(* The types, element by element.                                          *)
LEMMA Types ==
  ASSUME TypeOK
  PROVE  /\ Len(shell) \in Nat /\ DOMAIN shell = 1..Len(shell)
         /\ \A i \in 1..Len(shell) : shell[i] \in Request
         /\ Len(iopub) \in Nat /\ DOMAIN iopub = 1..Len(iopub)
         /\ \A k \in 1..Len(iopub) : /\ iopub[k] \in Message
                                     /\ iopub[k].id \in Request
                                     /\ iopub[k].n \in Nat
                                     /\ iopub[k].kind \in Kinds
         /\ Len(former) \in Nat
         /\ \A k \in 1..Len(former) : /\ former[k] \in Message
                                      /\ former[k].id \in Request
                                      /\ former[k].n \in Nat
                                      /\ former[k].kind \in Kinds
         /\ \A c \in Caller : /\ Len(got[c]) \in Nat
                              /\ DOMAIN got[c] = 1..Len(got[c])
                              /\ got[c] \in Seq(Outputs)
                              /\ \A i \in 1..Len(got[c]) : /\ got[c][i].id \in Request
                                                           /\ got[c][i].n \in Nat
         /\ \A c \in Caller : msgId[c] \in 0..MaxRequests /\ msgId[c] \in Nat
         /\ \A r \in Request : emitted[r] \in Nat /\ r \in Nat /\ r # 0
         /\ requests \in Nat /\ current \in Nat
         /\ current # 0 => current \in Request
<1>1. Len(shell) \in Nat /\ DOMAIN shell = 1..Len(shell)
  BY LenProperties DEF TypeOK
<1>2. Len(iopub) \in Nat /\ DOMAIN iopub = 1..Len(iopub)
  BY LenProperties DEF TypeOK
<1>3. \A i \in 1..Len(shell) : shell[i] \in Request
  BY ElementOfSeq DEF TypeOK
<1>4. ASSUME NEW k \in 1..Len(iopub)
      PROVE  /\ iopub[k] \in Message /\ iopub[k].id \in Request
             /\ iopub[k].n \in Nat /\ iopub[k].kind \in Kinds
  <2>1. iopub[k] \in Message
    BY ElementOfSeq DEF TypeOK
  <2>2. QED
    BY <2>1, BoundAssumption DEF Message
<1>5. ASSUME NEW c \in Caller
      PROVE  /\ Len(got[c]) \in Nat /\ DOMAIN got[c] = 1..Len(got[c])
             /\ got[c] \in Seq(Outputs)
             /\ \A i \in 1..Len(got[c]) : got[c][i].id \in Request /\ got[c][i].n \in Nat
  <2>1. got[c] \in Seq(Outputs)
    BY DEF TypeOK
  <2>2. Len(got[c]) \in Nat /\ DOMAIN got[c] = 1..Len(got[c])
    BY <2>1, LenProperties
  <2>3. \A i \in 1..Len(got[c]) : got[c][i] \in Outputs
    BY <2>1, ElementOfSeq
  <2>4. QED
    BY <2>1, <2>2, <2>3, BoundAssumption DEF Outputs
<1>6. \A c \in Caller : msgId[c] \in 0..MaxRequests /\ msgId[c] \in Nat
  BY BoundAssumption DEF TypeOK
<1>7. /\ \A r \in Request : emitted[r] \in Nat /\ r \in Nat /\ r # 0
      /\ requests \in Nat /\ current \in Nat
      /\ current # 0 => current \in Request
  BY BoundAssumption DEF TypeOK, Request
<1>8. Len(former) \in Nat
  BY LenProperties DEF TypeOK
<1>9. ASSUME NEW k \in 1..Len(former)
      PROVE  /\ former[k] \in Message /\ former[k].id \in Request
             /\ former[k].n \in Nat /\ former[k].kind \in Kinds
  <2>1. former[k] \in Message
    BY ElementOfSeq DEF TypeOK
  <2>2. QED
    BY <2>1, BoundAssumption DEF Message
<1>10. QED
  BY <1>1, <1>2, <1>3, <1>4, <1>5, <1>6, <1>7, <1>8, <1>9

(* A queue with messages added at its end.                                 *)
Added(t, q, ms) ==
  /\ Len(t) = Len(q) + Len(ms)
  /\ \A k \in 1..Len(q) : t[k] = q[k]
  /\ \A k \in 1..Len(ms) : t[Len(q) + k] = ms[k]

LEMMA ConcatOf ==
  ASSUME NEW S, NEW q \in Seq(S), NEW ms \in Seq(S), NEW t, t = q \o ms
  PROVE  t \in Seq(S) /\ Len(q) \in Nat /\ Len(ms) \in Nat /\ Added(t, q, ms)
<1>1. Len(q) \in Nat /\ Len(ms) \in Nat
  BY LenProperties
<1>2. /\ t \in Seq(S) /\ Len(t) = Len(q) + Len(ms)
      /\ \A k \in 1..(Len(q) + Len(ms)) : t[k] = IF k <= Len(q) THEN q[k] ELSE ms[k - Len(q)]
  BY ConcatProperties
<1>3. \A k \in 1..Len(q) : t[k] = q[k]
  BY <1>1, <1>2
<1>4. ASSUME NEW k \in 1..Len(ms) PROVE t[Len(q) + k] = ms[k]
  <2>1. /\ Len(q) + k \in 1..(Len(q) + Len(ms)) /\ ~(Len(q) + k <= Len(q))
        /\ (Len(q) + k) - Len(q) = k
    BY <1>1
  <2>2. QED
    BY <1>2, <2>1
<1>5. QED
  BY <1>1, <1>2, <1>3, <1>4 DEF Added

(* What becomes of the queues of the two clients.                          *)
LEMMA Published ==
  ASSUME TypeOK, NEW ms \in Seq(Message), Publish(ms)
  PROVE  /\ iopub' \in Seq(Message) /\ former' \in Seq(Message)
         /\ (stage # "none" /\ iopub' = iopub) \/ Added(iopub', iopub, ms)
         /\ behind = {} => former' = former
         /\ former' = former \/ Added(former', former, ms)
         /\ UNCHANGED <<stage, behind, during>>
<1>1. PICK q \in Seq(Message), f \in Seq(Message) : q = iopub /\ f = former
  BY DEF TypeOK
<1>2. PICK t, s : t = iopub' /\ s = former'
  OBVIOUS
<1>3. /\ t = q \o ms \/ (stage # "none" /\ t = q)
      /\ s = f \/ s = f \o ms
      /\ behind = {} => s = f
      /\ UNCHANGED <<stage, behind, during>>
  BY <1>1, <1>2 DEF Publish
<1>4. t = q \o ms => t \in Seq(Message) /\ Added(t, q, ms)
  BY ConcatOf
<1>5. s = f \o ms => s \in Seq(Message) /\ Added(s, f, ms)
  BY ConcatOf
<1>6. QED
  BY <1>1, <1>2, <1>3, <1>4, <1>5

LEMMA PublishedOne ==
  ASSUME TypeOK, NEW m \in Message, Publish(<<m>>)
  PROVE  /\ iopub' \in Seq(Message) /\ former' \in Seq(Message) /\ Len(iopub) \in Nat
         /\ \A k \in 1..Len(iopub) : k \in 1..Len(iopub') /\ iopub'[k] = iopub[k]
         /\ \A k \in 1..Len(iopub') : k \in 1..Len(iopub) \/ k = Len(iopub) + 1
         /\ \/ stage # "none" /\ Len(iopub') = Len(iopub)
            \/ Len(iopub') = Len(iopub) + 1
         /\ Len(iopub) + 1 \in 1..Len(iopub') => iopub'[Len(iopub) + 1] = m
         /\ behind = {} => former' = former
         /\ \A k \in 1..Len(former') :
              former'[k] = m \/ \E l \in 1..Len(former) : former'[k] = former[l]
         /\ UNCHANGED <<stage, behind, during>>
<1>0. <<m>> \in Seq(Message) /\ Len(<<m>>) = 1 /\ <<m>>[1] = m
  OBVIOUS
<1>1. PICK ms \in Seq(Message) : ms = <<m>> /\ Len(ms) = 1 /\ ms[1] = m
  BY <1>0
<1>2. Publish(ms)
  BY <1>1
<1>3. /\ iopub' \in Seq(Message) /\ former' \in Seq(Message)
      /\ (stage # "none" /\ iopub' = iopub) \/ Added(iopub', iopub, ms)
      /\ behind = {} => former' = former
      /\ former' = former \/ Added(former', former, ms)
      /\ UNCHANGED <<stage, behind, during>>
  BY <1>2, Published
<1>4. Len(iopub) \in Nat /\ Len(former) \in Nat
  BY Types
<1>5. ASSUME Added(iopub', iopub, ms)
      PROVE  /\ \A k \in 1..Len(iopub) : k \in 1..Len(iopub') /\ iopub'[k] = iopub[k]
             /\ \A k \in 1..Len(iopub') : k \in 1..Len(iopub) \/ k = Len(iopub) + 1
             /\ Len(iopub') = Len(iopub) + 1
             /\ iopub'[Len(iopub) + 1] = m
  <2>1. Len(iopub') = Len(iopub) + 1 /\ iopub'[Len(iopub) + 1] = m
    BY <1>1, <1>5 DEF Added
  <2>2. \A k \in 1..Len(iopub) : k \in 1..Len(iopub') /\ iopub'[k] = iopub[k]
    BY <1>4, <1>5, <2>1 DEF Added
  <2>3. \A k \in 1..Len(iopub') : k \in 1..Len(iopub) \/ k = Len(iopub) + 1
    BY <1>4, <2>1
  <2>4. QED
    BY <2>1, <2>2, <2>3
<1>6. ASSUME iopub' = iopub
      PROVE  /\ \A k \in 1..Len(iopub) : k \in 1..Len(iopub') /\ iopub'[k] = iopub[k]
             /\ \A k \in 1..Len(iopub') : k \in 1..Len(iopub)
             /\ Len(iopub') = Len(iopub) /\ Len(iopub) + 1 \notin 1..Len(iopub')
  BY <1>4, <1>6
<1>7. \A k \in 1..Len(former') :
        former'[k] = m \/ \E l \in 1..Len(former) : former'[k] = former[l]
  <2>1. CASE former' = former
    BY <2>1
  <2>2. CASE Added(former', former, ms)
    <3>1. /\ Len(former') = Len(former) + 1 /\ former'[Len(former) + 1] = m
          /\ \A k \in 1..Len(former) : former'[k] = former[k]
      BY <1>1, <2>2 DEF Added
    <3>2. \A k \in 1..Len(former') : k \in 1..Len(former) \/ k = Len(former) + 1
      BY <1>4, <3>1
    <3>3. QED
      BY <3>1, <3>2
  <2>3. QED
    BY <1>3, <2>1, <2>2
<1>8. /\ \A k \in 1..Len(iopub) : k \in 1..Len(iopub') /\ iopub'[k] = iopub[k]
      /\ \A k \in 1..Len(iopub') : k \in 1..Len(iopub) \/ k = Len(iopub) + 1
      /\ (stage # "none" /\ Len(iopub') = Len(iopub)) \/ Len(iopub') = Len(iopub) + 1
      /\ Len(iopub) + 1 \in 1..Len(iopub') => iopub'[Len(iopub) + 1] = m
  BY <1>3, <1>5, <1>6
<1>9. QED
  BY <1>3, <1>4, <1>7, <1>8

(* An error, the idle status of its request, and one for each of the n     *)
(* requests it aborts.                                                     *)
ErrorThenIdle(t, k, n) ==
  /\ t[k + 1] = Output("error")
  /\ t[k + 2] = IdleStatus(current)
  /\ \A i \in 1..n : t[k + 2 + i] = IdleStatus(shell[i])

OfError(m, n) ==
  \/ m = Output("error")
  \/ m = IdleStatus(current)
  \/ \E i \in 1..n : m = IdleStatus(shell[i])

LEMMA AbortedQueue ==
  ASSUME TypeOK, current # 0, NEW n \in 0..Len(shell),
         emitted[current] <= MaxOutputs, Aborts(SubSeq(shell, 1, n))
  PROVE  /\ iopub' \in Seq(Message) /\ former' \in Seq(Message) /\ Len(iopub) \in Nat
         /\ \/ stage # "none" /\ Len(iopub') = Len(iopub)
            \/ Len(iopub') = Len(iopub) + 2 + n /\ ErrorThenIdle(iopub', Len(iopub), n)
         /\ \A k \in 1..Len(iopub) : k \in 1..Len(iopub') /\ iopub'[k] = iopub[k]
         /\ \A r \in Request :
              fate'[r] = IF r = current THEN "raised"
                         ELSE IF \E i \in 1..n : shell[i] = r THEN "aborted" ELSE fate[r]
         /\ behind = {} => former' = former
         /\ \A k \in 1..Len(former') :
              OfError(former'[k], n) \/ \E l \in 1..Len(former) : former'[k] = former[l]
         /\ UNCHANGED <<stage, behind, during>>
<1> DEFINE w == SubSeq(shell, 1, n)
           two == <<Output("error"), IdleStatus(current)>>
           rest == [i \in DOMAIN w |-> IdleStatus(w[i])]
<1>1. /\ w \in Seq(Request) /\ Len(w) = n /\ DOMAIN w = 1..n
      /\ \A i \in 1..n : w[i] = shell[i]
  <2>1. n \in Nat /\ \A i \in 1..n : shell[i] \in Request
    BY Types
  <2>2. /\ w \in Seq(Request) /\ Len(w) = (IF 1 <= n THEN n - 1 + 1 ELSE 0)
        /\ \A i \in 1..(n - 1 + 1) : w[i] = shell[1 + i - 1]
    BY <2>1, SubSeqProperties
  <2>3. Len(w) = n /\ DOMAIN w = 1..Len(w)
    BY <2>1, <2>2, LenProperties
  <2>4. QED
    BY <2>1, <2>2, <2>3
<1>2. /\ Output("error") \in Message
      /\ \A r \in Request : IdleStatus(r) \in Message
      /\ current \in Request
  <2>1. current \in Request /\ emitted[current] \in 0..(MaxOutputs + 1)
    BY Types DEF TypeOK
  <2>2. \A r \in Request : IdleStatus(r) \in Message
    BY BoundAssumption DEF IdleStatus, Message, Kinds
  <2>3. Output("error") \in Message
    BY <2>1, BoundAssumption DEF Output, Message, Kinds
  <2>4. QED
    BY <2>1, <2>2, <2>3
<1>3. two \in Seq(Message) /\ Len(two) = 2 /\ two[1] = Output("error") /\ two[2] = IdleStatus(current)
  BY <1>2
<1>4. rest \in Seq(Message) /\ Len(rest) = n /\ \A i \in 1..n : rest[i] = IdleStatus(shell[i])
  <2>1. \A i \in 1..n : rest[i] = IdleStatus(shell[i]) /\ rest[i] \in Message
    BY <1>1, <1>2, Types
  <2>2. rest \in [1..n -> Message]
    BY <1>1, <2>1
  <2>3. rest \in Seq(Message) /\ Len(rest) = n
    BY <2>2, Types
  <2>4. QED
    BY <2>1, <2>3
<1> HIDE DEF two, rest, w
<1>5. PICK ms : ms = two \o rest
  OBVIOUS
<1>6. ms \in Seq(Message) /\ Added(ms, two, rest)
  BY <1>3, <1>4, <1>5, ConcatOf
<1>7. Len(ms) = 2 + n /\ ErrorThenIdle(ms, 0, n)
  <2>1. Len(ms) = 2 + n /\ ms[1] = two[1] /\ ms[2] = two[2]
    BY <1>3, <1>4, <1>6 DEF Added
  <2>2. ASSUME NEW i \in 1..n PROVE ms[2 + i] = IdleStatus(shell[i])
    BY <1>3, <1>4, <1>6 DEF Added
  <2>3. QED
    BY <1>3, <2>1, <2>2 DEF ErrorThenIdle
<1>8. Publish(ms)
  BY <1>5 DEF Aborts, two, rest, w
<1>9. /\ iopub' \in Seq(Message) /\ former' \in Seq(Message)
      /\ (stage # "none" /\ iopub' = iopub) \/ Added(iopub', iopub, ms)
      /\ behind = {} => former' = former
      /\ former' = former \/ Added(former', former, ms)
      /\ UNCHANGED <<stage, behind, during>>
  BY <1>6, <1>8, Published
<1>10. Len(iopub) \in Nat /\ Len(former) \in Nat /\ n \in Nat
  BY Types
<1>11. /\ \/ stage # "none" /\ Len(iopub') = Len(iopub)
          \/ Len(iopub') = Len(iopub) + 2 + n /\ ErrorThenIdle(iopub', Len(iopub), n)
       /\ \A k \in 1..Len(iopub) : k \in 1..Len(iopub') /\ iopub'[k] = iopub[k]
  <2>1. CASE Added(iopub', iopub, ms)
    <3>1. PICK t : t = iopub'
      OBVIOUS
    <3>2. /\ Len(t) = Len(iopub) + 2 + n
          /\ \A k \in 1..Len(iopub) : t[k] = iopub[k]
          /\ \A k \in 1..(2 + n) : t[Len(iopub) + k] = ms[k]
      BY <1>7, <1>10, <2>1, <3>1 DEF Added
    <3>3. ms[1] = Output("error") /\ ms[2] = IdleStatus(current)
      BY <1>7 DEF ErrorThenIdle
    <3>4. t[Len(iopub) + 1] = Output("error") /\ t[Len(iopub) + 2] = IdleStatus(current)
      BY <1>10, <3>2, <3>3
    <3>5. ASSUME NEW i \in 1..n PROVE t[Len(iopub) + 2 + i] = IdleStatus(shell[i])
      <4>1. 2 + i \in 1..(2 + n) /\ Len(iopub) + (2 + i) = Len(iopub) + 2 + i
        BY <1>10
      <4>2. ms[2 + i] = IdleStatus(shell[i])
        <5>1. 0 + 2 + i = 2 + i
          BY <1>10
        <5>2. QED
          BY <1>7, <5>1 DEF ErrorThenIdle
      <4>3. QED
        BY <3>2, <4>1, <4>2
    <3>6. \A k \in 1..Len(iopub) : k \in 1..Len(t)
      BY <1>10, <3>2
    <3>7. ErrorThenIdle(t, Len(iopub), n)
      BY <3>4, <3>5 DEF ErrorThenIdle
    <3>8. QED
      BY <3>1, <3>2, <3>6, <3>7
  <2>2. CASE stage # "none" /\ iopub' = iopub
    BY <2>2
  <2>3. QED
    BY <1>9, <2>1, <2>2
<1>12. \A r \in Request :
         fate'[r] = IF r = current THEN "raised"
                    ELSE IF \E i \in 1..n : shell[i] = r THEN "aborted" ELSE fate[r]
  BY <1>1 DEF Aborts, w
<1>13. ASSUME NEW k \in 1..Len(former')
       PROVE  OfError(former'[k], n) \/ \E l \in 1..Len(former) : former'[k] = former[l]
  <2>1. CASE former' = former
    BY <1>13, <2>1
  <2>2. CASE Added(former', former, ms)
    <3>1. ASSUME NEW l \in 1..(2 + n) PROVE OfError(ms[l], n)
      <4>1. CASE l = 1 \/ l = 2
        BY <1>7, <4>1 DEF ErrorThenIdle, OfError
      <4>2. CASE l > 2
        <5>1. l - 2 \in 1..n /\ 0 + 2 + (l - 2) = l
          BY <1>10, <4>2
        <5>2. ms[l] = IdleStatus(shell[l - 2])
          BY <1>7, <5>1 DEF ErrorThenIdle
        <5>3. QED
          BY <5>1, <5>2 DEF OfError
      <4>3. QED
        BY <1>10, <4>1, <4>2
    <3>2. CASE k \in 1..Len(former)
      BY <2>2, <3>2 DEF Added
    <3>3. CASE k > Len(former)
      <4>1. k - Len(former) \in 1..(2 + n) /\ Len(former) + (k - Len(former)) = k
        BY <1>7, <1>10, <2>2, <3>3 DEF Added
      <4>2. former'[k] = ms[k - Len(former)]
        BY <1>7, <2>2, <4>1 DEF Added
      <4>3. QED
        BY <3>1, <4>1, <4>2
    <3>4. QED
      BY <1>10, <3>2, <3>3
  <2>3. QED
    BY <1>9, <2>1, <2>2
<1>14. QED
  BY <1>9, <1>10, <1>11, <1>12, <1>13

(* What an error leaves of the shell: the requests behind the n aborted.   *)
LEMMA ShellRest ==
  ASSUME TypeOK, NEW n \in 0..Len(shell), shell' = SubSeq(shell, n + 1, Len(shell))
  PROVE  /\ shell' \in Seq(Request) /\ Len(shell') = Len(shell) - n
         /\ \A i \in 1..(Len(shell) - n) : shell'[i] = shell[n + i]
<1>1. Len(shell) \in Nat /\ n + 1 \in Int /\ \A i \in 1..Len(shell) : shell[i] \in Request
  BY Types
<1>2. PICK t : t = SubSeq(shell, n + 1, Len(shell))
  OBVIOUS
<1>3. /\ t \in Seq(Request)
      /\ Len(t) = IF n + 1 <= Len(shell) THEN Len(shell) - (n + 1) + 1 ELSE 0
      /\ \A i \in 1..(Len(shell) - (n + 1) + 1) : t[i] = shell[(n + 1) + i - 1]
  BY <1>1, <1>2, SubSeqProperties
<1>4. Len(t) = Len(shell) - n
  BY <1>1, <1>3
<1>5. ASSUME NEW i \in 1..(Len(shell) - n) PROVE t[i] = shell[n + i]
  BY <1>1, <1>3
<1>6. QED
  BY <1>2, <1>3, <1>4, <1>5

LEMMA TailOf ==
  ASSUME NEW S, NEW q \in Seq(S), q # <<>>, NEW t, t = Tail(q)
  PROVE  /\ t \in Seq(S) /\ Len(t) = Len(q) - 1 /\ Len(q) \in Nat \ {0}
         /\ \A i \in 1..(Len(q) - 1) : t[i] = q[i + 1]
         /\ Head(q) = q[1]
<1>1. Len(q) \in Nat \ {0}
  BY EmptySeq
<1>2. QED
  BY <1>1, HeadTailProperties

LEMMA AppendOf ==
  ASSUME NEW S, NEW q \in Seq(S), NEW e \in S, NEW t, t = Append(q, e)
  PROVE  /\ t \in Seq(S) /\ Len(t) = Len(q) + 1 /\ Len(q) \in Nat
         /\ \A i \in 1..Len(q) : t[i] = q[i]
         /\ t[Len(q) + 1] = e
BY AppendProperties, LenProperties

-----------------------------------------------------------------------------
(***************************************************************************)
(* The steps of the kernel.                                                *)
(***************************************************************************)
LEMMA StartsKeeps ==
  ASSUME TypeOK, Inv, KernelStarts
  PROVE  TypeOK' /\ Inv'
<1> USE DEF KernelStarts, restart
<1>1. /\ shell' \in Seq(Request) /\ Len(shell') = Len(shell) - 1 /\ Len(shell) \in Nat \ {0}
      /\ \A i \in 1..(Len(shell) - 1) : shell'[i] = shell[i + 1]
      /\ current' = shell[1] /\ current' \in Request /\ current = 0
  BY TailOf, Types DEF TypeOK
<1>2. Fresh(current') /\ emitted[current'] = 0
  BY <1>1, Types DEF Fresh, InShell, Inv, FreshSilent
<1>3. \A r : Fresh(r)' => Fresh(r) /\ r # current'
  <2>1. ASSUME NEW r, InShell(r)' PROVE InShell(r) /\ r # current'
    <3>1. PICK i \in 1..Len(shell') : shell'[i] = r
      BY <2>1 DEF InShell
    <3>2. i + 1 \in 1..Len(shell) /\ shell[i + 1] = r /\ i + 1 # 1 /\ 1 \in 1..Len(shell)
      BY <1>1, <3>1
    <3>3. QED
      BY <1>1, <3>2 DEF InShell, Inv, NumberedOnce
  <2>2. current' <= requests
    BY <1>1 DEF Inv, NumberedOnce
  <2>3. QED
    BY <2>1, <2>2, Types DEF Fresh
<1>4. TypeOK'
  BY <1>1 DEF TypeOK, Request
<1>5. NumberedOnce'
  BY <1>1 DEF Inv, NumberedOnce
<1>6. FreshSilent'
  BY <1>3 DEF Inv, FreshSilent
<1>7. InOrder'
  BY <1>1, <1>2, BoundAssumption DEF Inv, InOrder, FreshSilent
<1>8. Collected'
  BY DEF Inv, Collected, Ordered
<1>9. NothingMissing'
  <2>1. ASSUME NEW c \in Caller, Undisturbed(c)'
        PROVE  InSequence(c)' /\ AllHere(c)' /\ ErrorHere(c)'
    <3>1. InSequence(c) /\ AllHere(c) /\ ErrorHere(c)
      BY <2>1 DEF Inv, NothingMissing, Undisturbed, Disturbed
    <3>2. AllHere(c)'
      <4>1. CASE msgId[c] = current'
        BY <1>2, <4>1 DEF AllHere
      <4>2. CASE msgId[c] # current'
        BY <3>1, <4>2 DEF AllHere
      <4>3. QED
        BY <4>1, <4>2
    <3>3. QED
      BY <3>1, <3>2 DEF InSequence, ErrorHere, Failed
  <2>2. QED
    BY <2>1 DEF NothingMissing
<1>10. EndedIsOver'
  BY <1>2, <1>3 DEF Inv, EndedIsOver, Ended
<1>11. OnlyOthersLoseOutput'
  BY DEF Inv, OnlyOthersLoseOutput, Ended, Complete, Disturbed
<1>12. QED
  BY <1>4, <1>5, <1>6, <1>7, <1>8, <1>9, <1>10, <1>11 DEF Inv

LEMMA PublishesKeeps ==
  ASSUME TypeOK, Inv, RestartInv, KernelPublishes
  PROVE  TypeOK' /\ Inv'
<1> USE DEF KernelPublishes
<1>1. /\ Output("out") \in Message /\ current \in Request /\ current # 0
      /\ Output("out").id = current /\ Output("out").kind = "out"
      /\ Output("out").n = emitted[current] + 1 /\ emitted[current] \in Nat
  BY Types, BoundAssumption DEF TypeOK, Output, Message, Kinds
<1>2. /\ iopub' \in Seq(Message) /\ former' \in Seq(Message) /\ Len(iopub) \in Nat
      /\ \A k \in 1..Len(iopub) : k \in 1..Len(iopub') /\ iopub'[k] = iopub[k]
      /\ (stage # "none" /\ Len(iopub') = Len(iopub)) \/ Len(iopub') = Len(iopub) + 1
      /\ Len(iopub) + 1 \in 1..Len(iopub') => iopub'[Len(iopub) + 1] = Output("out")
      /\ UNCHANGED <<stage, behind, during>>
  BY <1>1, PublishedOne
<1>3. /\ emitted'[current] = emitted[current] + 1
      /\ \A r \in Request : r # current => emitted'[r] = emitted[r]
      /\ \A r \in Request : emitted'[r] >= emitted[r]
  BY <1>1, Types DEF TypeOK
<1>4. \A k \in 1..Len(iopub') : k \in 1..Len(iopub) \/ k = Len(iopub) + 1
  BY <1>1, PublishedOne
<1>5. \A r : Fresh(r)' <=> Fresh(r)
  BY DEF Fresh, InShell
<1>6. TypeOK'
  BY <1>1, <1>2, BoundAssumption, SMTT(30) DEF TypeOK
<1>7. NumberedOnce'
  BY DEF Inv, NumberedOnce
<1>8. FreshSilent'
  BY <1>1, <1>2, <1>3, <1>4, <1>5 DEF Inv, FreshSilent
<1>9. InOrder'
  <2>1. emitted'[current] <= MaxOutputs
    BY <1>1, <1>3, BoundAssumption DEF TypeOK
  <2>2. ASSUME NEW k \in 1..Len(iopub'), NEW l \in 1..Len(iopub'),
               k < l, iopub'[k].id = iopub'[l].id
        PROVE  /\ iopub'[k].kind # "idle"
               /\ iopub'[l].kind # "idle" => iopub'[k].n < iopub'[l].n
    <3>1. k \in 1..Len(iopub)
      BY <1>2, <1>4, <2>2
    <3>2. CASE l \in 1..Len(iopub)
      BY <1>2, <2>2, <3>1, <3>2 DEF Inv, InOrder
    <3>3. CASE l = Len(iopub) + 1
      <4>1. iopub'[l] = Output("out") /\ iopub'[k] = iopub[k]
        BY <1>2, <3>1, <3>3
      <4>2. iopub[k].id = current /\ iopub[k].n \in Nat
        BY <1>1, <2>2, <3>1, <4>1, Types
      <4>3. iopub[k].kind # "idle" /\ iopub[k].n <= emitted[current]
        BY <3>1, <4>2 DEF Inv, InOrder
      <4>4. QED
        BY <1>1, <4>1, <4>2, <4>3
    <3>4. QED
      BY <1>4, <3>2, <3>3
  <2>3. ASSUME NEW k \in 1..Len(iopub')
        PROVE  /\ iopub'[k].kind # "idle" => iopub'[k].n \in 1..emitted'[iopub'[k].id]
               /\ iopub'[k].kind = "idle" => /\ iopub'[k].n = 0 /\ iopub'[k].id # current
                                             /\ fate[iopub'[k].id] # "none"
    <3>1. CASE k \in 1..Len(iopub)
      <4>1. iopub'[k] = iopub[k] /\ iopub[k].id \in Request
        BY <1>2, <3>1, Types
      <4>2. /\ iopub[k].kind # "idle" => iopub[k].n \in 1..emitted[iopub[k].id]
            /\ iopub[k].kind = "idle" => /\ iopub[k].n = 0 /\ iopub[k].id # current
                                         /\ fate[iopub[k].id] # "none"
        BY <3>1 DEF Inv, InOrder
      <4>3. /\ emitted[iopub[k].id] \in Nat /\ emitted'[iopub[k].id] \in Nat
            /\ emitted'[iopub[k].id] >= emitted[iopub[k].id]
        BY <1>1, <1>3, <4>1, Types
      <4>4. 1..emitted[iopub[k].id] \subseteq 1..emitted'[iopub[k].id]
        BY <4>3
      <4>5. QED
        BY <4>1, <4>2, <4>4
    <3>2. CASE k = Len(iopub) + 1
      <4>1. iopub'[k] = Output("out") /\ emitted'[current] \in Nat
        BY <1>1, <1>2, <1>3, <3>2
      <4>2. iopub'[k].kind = "out" /\ iopub'[k].n \in 1..emitted'[iopub'[k].id]
        BY <1>1, <1>3, <4>1
      <4>3. QED
        BY <4>2
    <3>3. QED
      BY <1>4, <3>1, <3>2
  <2>4. QED
    BY <2>1, <2>2, <2>3 DEF InOrder
<1>10. Collected'
  <2>1. ASSUME NEW c \in Caller, NEW i \in 1..Len(got[c])
        PROVE  /\ got[c][i].id = msgId[c] /\ got[c][i].n <= emitted'[msgId[c]]
               /\ msgId[c] \notin during =>
                    \A k \in 1..Len(iopub') :
                      iopub'[k].id = msgId[c] /\ iopub'[k].kind # "idle" => got[c][i].n < iopub'[k].n
    <3>1. /\ got[c][i].id = msgId[c] /\ got[c][i].n <= emitted[msgId[c]]
          /\ got[c][i].n \in Nat /\ msgId[c] \in Request
      BY <2>1, Types DEF Inv, Collected
    <3>2. got[c][i].n <= emitted'[msgId[c]]
      BY <1>1, <1>3, <3>1, Types
    <3>3. ASSUME msgId[c] \notin during, NEW k \in 1..Len(iopub'), iopub'[k].id = msgId[c], iopub'[k].kind # "idle"
          PROVE  got[c][i].n < iopub'[k].n
      <4>1. CASE k \in 1..Len(iopub)
        BY <1>2, <2>1, <3>3, <4>1 DEF Inv, Collected, Ordered
      <4>2. CASE k = Len(iopub) + 1
        BY <1>1, <1>2, <3>1, <3>3, <4>2
      <4>3. QED
        BY <1>4, <4>1, <4>2
    <3>4. QED
      BY <3>1, <3>2, <3>3
  <2>2. QED
    BY <1>2, <2>1 DEF Inv, Collected, Ordered
<1>11. NothingMissing'
  <2> SUFFICES ASSUME NEW c \in Caller, Undisturbed(c)
               PROVE  InSequence(c)' /\ AllHere(c)' /\ ErrorHere(c)'
    BY <1>2 DEF NothingMissing, Undisturbed, Disturbed
  <2>1. InSequence(c) /\ AllHere(c) /\ ErrorHere(c)
    BY DEF Inv, NothingMissing
  <2>2. ASSUME msgId[c] = current \/ \E k \in 1..Len(iopub') : iopub'[k].id = msgId[c],
               NEW m \in 1..emitted'[msgId[c]]
        PROVE  m <= Len(got[c]) \/ \E k \in 1..Len(iopub') : iopub'[k].id = msgId[c] /\ iopub'[k].n = m
    <3>1. msgId[c] = current \/ \E k \in 1..Len(iopub) : iopub[k].id = msgId[c]
      BY <1>1, <1>2, <1>4, <2>2
    <3>2. CASE m \in 1..emitted[msgId[c]]
      <4>1. m <= Len(got[c]) \/ \E k \in 1..Len(iopub) : iopub[k].id = msgId[c] /\ iopub[k].n = m
        BY <2>1, <3>1, <3>2 DEF AllHere
      <4>2. QED
        BY <1>2, <4>1
    <3>3. CASE m \notin 1..emitted[msgId[c]]
      <4>1. msgId[c] \in Request
        BY <1>1, <3>1, Types
      <4>2. msgId[c] = current /\ m = emitted[current] + 1
        BY <1>1, <1>3, <2>2, <3>3, <4>1, Types
      <4>3. Len(iopub) + 1 \in 1..Len(iopub')
        <5>1. stage = "none"
          BY <1>1, <4>2 DEF RestartInv, DuringOnly, Undisturbed, Disturbed
        <5>2. QED
          BY <1>2, <5>1
      <4>4. QED
        BY <1>1, <1>2, <4>2, <4>3
    <3>4. QED
      BY <3>2, <3>3
  <2>3. AllHere(c)'
    BY <2>2 DEF AllHere
  <2>4. ErrorHere(c)'
    BY <1>1, <1>2, <1>4, <2>1 DEF ErrorHere, Failed
  <2>5. QED
    BY <2>1, <2>3, <2>4 DEF InSequence
<1>12. EndedIsOver'
  BY <1>5 DEF Inv, EndedIsOver, Ended
<1>13. OnlyOthersLoseOutput'
  <2>1. ASSUME NEW c \in Caller, Ended(c) PROVE emitted'[msgId[c]] = emitted[msgId[c]]
    <3>1. msgId[c] \in Request /\ msgId[c] # current
      BY <2>1, Types DEF Inv, NumberedOnce, EndedIsOver, Ended, Request
    <3>2. QED
      BY <1>3, <3>1
  <2>2. QED
    BY <1>2, <2>1 DEF Inv, OnlyOthersLoseOutput, Ended, Complete, Disturbed
<1>14. QED
  BY <1>6, <1>7, <1>8, <1>9, <1>10, <1>11, <1>12, <1>13 DEF Inv

LEMMA FinishesKeeps ==
  ASSUME TypeOK, Inv, KernelFinishes
  PROVE  TypeOK' /\ Inv'
<1> USE DEF KernelFinishes
<1>1. /\ IdleStatus(current) \in Message /\ current \in Request /\ current # 0
      /\ IdleStatus(current).id = current /\ IdleStatus(current).kind = "idle"
      /\ IdleStatus(current).n = 0 /\ current' = 0
  BY Types, BoundAssumption DEF TypeOK, IdleStatus, Message, Kinds
<1>2. /\ iopub' \in Seq(Message) /\ former' \in Seq(Message) /\ Len(iopub) \in Nat
      /\ \A k \in 1..Len(iopub) : k \in 1..Len(iopub') /\ iopub'[k] = iopub[k]
      /\ Len(iopub) + 1 \in 1..Len(iopub') => iopub'[Len(iopub) + 1] = IdleStatus(current)
      /\ UNCHANGED <<stage, behind, during>>
  BY <1>1, PublishedOne
<1>3. /\ fate'[current] = "ran"
      /\ \A r \in Request : r # current => fate'[r] = fate[r]
  BY <1>1 DEF TypeOK
<1>4. \A k \in 1..Len(iopub') : k \in 1..Len(iopub) \/ k = Len(iopub) + 1
  BY <1>1, PublishedOne
<1>5. \A r : Fresh(r)' <=> Fresh(r)
  BY DEF Fresh, InShell
<1>6. TypeOK'
  BY <1>1, <1>2, BoundAssumption DEF TypeOK
<1>7. NumberedOnce'
  BY <1>1, Types DEF Inv, NumberedOnce
<1>8. FreshSilent'
  BY <1>1, <1>2, <1>4, <1>5, Types DEF Inv, FreshSilent
<1>9. InOrder'
  <2>1. ASSUME NEW k \in 1..Len(iopub'), NEW l \in 1..Len(iopub'),
               k < l, iopub'[k].id = iopub'[l].id
        PROVE  /\ iopub'[k].kind # "idle"
               /\ iopub'[l].kind # "idle" => iopub'[k].n < iopub'[l].n
    <3>1. k \in 1..Len(iopub)
      BY <1>2, <1>4, <2>1
    <3>2. CASE l \in 1..Len(iopub)
      BY <1>2, <2>1, <3>1, <3>2 DEF Inv, InOrder
    <3>3. CASE l = Len(iopub) + 1
      BY <1>1, <1>2, <2>1, <3>1, <3>3 DEF Inv, InOrder
    <3>4. QED
      BY <1>4, <3>2, <3>3
  <2>2. ASSUME NEW k \in 1..Len(iopub')
        PROVE  /\ iopub'[k].kind # "idle" => iopub'[k].n \in 1..emitted[iopub'[k].id]
               /\ iopub'[k].kind = "idle" => /\ iopub'[k].n = 0 /\ iopub'[k].id # 0
                                             /\ fate'[iopub'[k].id] # "none"
    <3>1. CASE k \in 1..Len(iopub)
      BY <1>1, <1>2, <1>3, <3>1, Types DEF Inv, InOrder
    <3>2. CASE k = Len(iopub) + 1
      BY <1>1, <1>2, <1>3, <3>2
    <3>3. QED
      BY <1>4, <3>1, <3>2
  <2>3. QED
    BY <1>1, <2>1, <2>2 DEF InOrder
<1>10. Collected'
  <2>1. ASSUME NEW c \in Caller, msgId[c] \notin during PROVE Ordered(c)'
    <3>1. Ordered(c)
      BY <2>1 DEF Inv, Collected
    <3>2. \A k \in 1..Len(iopub') :
            iopub'[k].kind # "idle" => k \in 1..Len(iopub) /\ iopub'[k] = iopub[k]
      BY <1>1, <1>2, <1>4
    <3>3. QED
      BY <3>1, <3>2 DEF Ordered
  <2>2. QED
    BY <1>2, <2>1 DEF Inv, Collected
<1>11. NothingMissing'
  <2> SUFFICES ASSUME NEW c \in Caller, Undisturbed(c)
               PROVE  InSequence(c)' /\ AllHere(c)' /\ ErrorHere(c)'
    BY <1>2 DEF NothingMissing, Undisturbed, Disturbed
  <2>1. InSequence(c) /\ AllHere(c) /\ ErrorHere(c)
    BY DEF Inv, NothingMissing
  <2>2. ASSUME msgId[c] = 0 \/ \E k \in 1..Len(iopub') : iopub'[k].id = msgId[c],
               NEW m \in 1..emitted[msgId[c]]
        PROVE  m <= Len(got[c]) \/ \E k \in 1..Len(iopub') : iopub'[k].id = msgId[c] /\ iopub'[k].n = m
    <3>1. msgId[c] # 0
      BY DEF Inv, NumberedOnce, Undisturbed
    <3>2. msgId[c] = current \/ \E k \in 1..Len(iopub) : iopub[k].id = msgId[c]
      BY <1>1, <1>2, <1>4, <2>2, <3>1
    <3>3. m <= Len(got[c]) \/ \E k \in 1..Len(iopub) : iopub[k].id = msgId[c] /\ iopub[k].n = m
      BY <2>1, <2>2, <3>2 DEF AllHere
    <3>4. QED
      BY <1>2, <3>3
  <2>3. AllHere(c)'
    BY <1>1, <2>2 DEF AllHere
  <2>4. ErrorHere(c)'
    <3>1. msgId[c] # 0 /\ msgId[c] \in Request
      BY Types DEF Inv, NumberedOnce, Undisturbed, Request
    <3>2. QED
      BY <1>1, <1>2, <1>3, <1>4, <2>1, <3>1 DEF ErrorHere, Failed
  <2>5. QED
    BY <2>1, <2>3, <2>4 DEF InSequence
<1>12. EndedIsOver'
  BY <1>1, <1>5 DEF Inv, EndedIsOver, Ended, NumberedOnce
<1>13. OnlyOthersLoseOutput'
  <2>1. ASSUME NEW c \in Caller, Ended(c) PROVE fate'[msgId[c]] = fate[msgId[c]]
    <3>1. msgId[c] \in Request /\ msgId[c] # current
      BY <2>1, Types DEF Inv, NumberedOnce, EndedIsOver, Ended, Request
    <3>2. QED
      BY <1>3, <3>1
  <2>2. QED
    BY <1>2, <2>1 DEF Inv, OnlyOthersLoseOutput, Ended, Complete, Disturbed
<1>14. QED
  BY <1>6, <1>7, <1>8, <1>9, <1>10, <1>11, <1>12, <1>13 DEF Inv

(* An error ends the request it is of and those it aborts, whether the     *)
(* code raised it or an interrupt did.                                     *)
LEMMA RaisesKeeps ==
  ASSUME TypeOK, Inv, RestartInv, KernelRaises,
         UNCHANGED <<owned, connected, requests, pc, msgId, got, lost>>
  PROVE  TypeOK' /\ Inv'
<1>1. PICK n \in 0..Len(shell) : /\ Aborts(SubSeq(shell, 1, n))
                                 /\ shell' = SubSeq(shell, n + 1, Len(shell))
  BY DEF KernelRaises
<1>2. /\ current # 0 /\ current \in Request /\ current' = 0
      /\ emitted' = [emitted EXCEPT ![current] = @ + 1]
      /\ emitted[current] \in Nat /\ emitted[current] <= MaxOutputs
  BY Types DEF KernelRaises, Inv, InOrder
<1>3. /\ Output("error").id = current /\ Output("error").kind = "error"
      /\ Output("error").n = emitted[current] + 1
      /\ \A r : IdleStatus(r).id = r /\ IdleStatus(r).kind = "idle" /\ IdleStatus(r).n = 0
  BY DEF Output, IdleStatus
<1>4. /\ iopub' \in Seq(Message) /\ former' \in Seq(Message) /\ Len(iopub) \in Nat /\ n \in Nat
      /\ \/ stage # "none" /\ Len(iopub') = Len(iopub)
         \/ Len(iopub') = Len(iopub) + 2 + n
      /\ \A k \in 1..Len(iopub) : k \in 1..Len(iopub') /\ iopub'[k] = iopub[k]
      /\ Len(iopub) + 1 \in 1..Len(iopub') =>
           /\ iopub'[Len(iopub) + 1] = Output("error")
           /\ iopub'[Len(iopub) + 2] = IdleStatus(current)
           /\ \A i \in 1..n : iopub'[Len(iopub) + 2 + i] = IdleStatus(shell[i])
      /\ UNCHANGED <<stage, behind, during>>
      /\ \A r \in Request :
           fate'[r] = IF r = current THEN "raised"
                      ELSE IF \E i \in 1..n : shell[i] = r THEN "aborted" ELSE fate[r]
  <2>1. Len(iopub) \in Nat /\ n \in Nat
    BY Types
  <2>2. /\ iopub' \in Seq(Message) /\ former' \in Seq(Message)
        /\ \/ stage # "none" /\ Len(iopub') = Len(iopub)
           \/ Len(iopub') = Len(iopub) + 2 + n /\ ErrorThenIdle(iopub', Len(iopub), n)
        /\ \A k \in 1..Len(iopub) : k \in 1..Len(iopub') /\ iopub'[k] = iopub[k]
        /\ \A r \in Request :
             fate'[r] = IF r = current THEN "raised"
                        ELSE IF \E i \in 1..n : shell[i] = r THEN "aborted" ELSE fate[r]
        /\ UNCHANGED <<stage, behind, during>>
    BY <1>1, <1>2, AbortedQueue
  <2>3. ASSUME Len(iopub) + 1 \in 1..Len(iopub')
        PROVE  /\ iopub'[Len(iopub) + 1] = Output("error")
               /\ iopub'[Len(iopub) + 2] = IdleStatus(current)
               /\ \A i \in 1..n : iopub'[Len(iopub) + 2 + i] = IdleStatus(shell[i])
    <3>1. Len(iopub') # Len(iopub)
      BY <2>1, <2>3
    <3>2. ErrorThenIdle(iopub', Len(iopub), n)
      BY <2>2, <3>1
    <3>3. QED
      BY <3>2 DEF ErrorThenIdle
  <2>4. QED
    BY <2>1, <2>2, <2>3
<1>5. /\ shell' \in Seq(Request) /\ Len(shell') = Len(shell) - n /\ Len(shell) \in Nat
      /\ \A i \in 1..(Len(shell) - n) : shell'[i] = shell[n + i]
  BY <1>1, ShellRest, Types
<1>6. ASSUME NEW k \in 1..Len(iopub')
      PROVE  \/ k \in 1..Len(iopub) /\ iopub'[k] = iopub[k]
             \/ /\ k = Len(iopub) + 1
                /\ iopub'[k].id = current /\ iopub'[k].kind = "error"
                /\ iopub'[k].n = emitted[current] + 1
             \/ /\ k = Len(iopub) + 2
                /\ iopub'[k].id = current /\ iopub'[k].kind = "idle" /\ iopub'[k].n = 0
             \/ \E i \in 1..n :
                  /\ k = Len(iopub) + 2 + i
                  /\ iopub'[k].id = shell[i] /\ iopub'[k].kind = "idle" /\ iopub'[k].n = 0
  <2>0. k > Len(iopub) => Len(iopub) + 1 \in 1..Len(iopub') /\ Len(iopub') = Len(iopub) + 2 + n
    BY <1>4
  <2>1. CASE k <= Len(iopub) + 2
    BY <1>3, <1>4, <2>0, <2>1
  <2>2. CASE k > Len(iopub) + 2
    <3>1. /\ k - (Len(iopub) + 2) \in 1..n
          /\ k = Len(iopub) + 2 + (k - (Len(iopub) + 2))
      BY <1>4, <2>0, <2>2
    <3>2. iopub'[k] = IdleStatus(shell[k - (Len(iopub) + 2)])
      <4>1. \A i \in 1..n : iopub'[Len(iopub) + 2 + i] = IdleStatus(shell[i])
        BY <1>4, <2>0, <2>2
      <4>2. PICK i \in 1..n : i = k - (Len(iopub) + 2) /\ k = Len(iopub) + 2 + i
        BY <3>1
      <4>3. QED
        BY <4>1, <4>2
    <3>3. QED
      BY <1>3, <3>1, <3>2
  <2>3. QED
    BY <1>4, <2>1, <2>2
<1>7. ASSUME NEW i \in 1..n
      PROVE  Fresh(shell[i]) /\ shell[i] \in Request /\ shell[i] # current
  BY <1>5, Types DEF Fresh, InShell, Inv, FreshSilent
<1>8. \A r : Fresh(r)' => Fresh(r) /\ \A i \in 1..n : shell[i] # r
  <2>1. ASSUME NEW r, InShell(r)' PROVE InShell(r) /\ \A i \in 1..n : shell[i] # r
    <3>1. PICK j \in 1..(Len(shell) - n) : shell[n + j] = r
      BY <1>5, <2>1 DEF InShell
    <3>2. n + j \in 1..Len(shell) /\ \A i \in 1..n : i # n + j /\ i \in 1..Len(shell)
      BY <1>4, <1>5
    <3>3. QED
      BY <3>1, <3>2 DEF InShell, Inv, NumberedOnce
  <2>2. \A i \in 1..n : i \in 1..Len(shell) /\ shell[i] <= requests /\ shell[i] \in Nat
    BY <1>5, <1>7, Types DEF Inv, NumberedOnce
  <2>3. QED
    BY <2>1, <2>2, Types DEF Fresh
<1>9. /\ emitted'[current] = emitted[current] + 1
      /\ \A r \in Request : r # current => emitted'[r] = emitted[r]
      /\ \A r \in Request : emitted'[r] >= emitted[r]
  BY <1>2, Types DEF TypeOK
<1>10. TypeOK'
  <2>1. /\ emitted' \in [Request -> 0..(MaxOutputs + 1)]
        /\ current' \in 0..MaxRequests
    BY <1>2, BoundAssumption DEF TypeOK
  <2>2. fate' \in [Request -> {"none", "ran", "raised", "aborted"}]
    <3>1. fate' = [r \in Request |-> fate'[r]]
      BY <1>1 DEF Aborts
    <3>2. \A r \in Request : fate'[r] \in {"none", "ran", "raised", "aborted"}
      BY <1>4 DEF TypeOK
    <3>3. QED
      BY <3>1, <3>2
  <2>3. QED
    BY <1>4, <1>5, <2>1, <2>2 DEF TypeOK
<1>11. NumberedOnce'
  <2>1. ASSUME NEW i \in 1..Len(shell')
        PROVE  n + i \in 1..Len(shell) /\ shell'[i] = shell[n + i]
    <3>1. i \in 1..(Len(shell) - n) /\ n \in Nat /\ Len(shell) \in Nat
      BY <1>4, <1>5
    <3>2. QED
      BY <1>5, <3>1
  <2>2. ASSUME NEW i \in 1..Len(shell'), NEW j \in 1..Len(shell'), shell'[i] = shell'[j]
        PROVE  i = j
    <3>1. n + i = n + j
      BY <2>1, <2>2 DEF Inv, NumberedOnce
    <3>2. QED
      BY <1>4, <1>5, <3>1
  <2>3. \A i \in 1..Len(shell') : shell'[i] <= requests
    BY <2>1 DEF Inv, NumberedOnce
  <2>4. QED
    BY <1>2, <2>2, <2>3, Types DEF Inv, NumberedOnce
<1>12. FreshSilent'
  <2>1. ASSUME NEW r \in Request, Fresh(r)'
        PROVE  /\ emitted'[r] = 0 /\ r # 0
               /\ \A k \in 1..Len(iopub') : iopub'[k].id # r
    <3>1. emitted[r] = 0 /\ r # current /\ \A k \in 1..Len(iopub) : iopub[k].id # r
      BY <1>8, <2>1 DEF Inv, FreshSilent
    <3>2. \A i \in 1..n : shell[i] # r
      BY <1>8, <2>1
    <3>3. \A k \in 1..Len(iopub') : iopub'[k].id # r
      BY <1>6, <3>1, <3>2
    <3>4. emitted'[r] = 0 /\ r # 0
      BY <1>9, <2>1, <3>1, Types
    <3>5. QED
      BY <3>3, <3>4
  <2>2. QED
    BY <1>2, <2>1 DEF FreshSilent
<1>13. InOrder'
  <2>1. ASSUME NEW k \in 1..Len(iopub'), NEW l \in 1..Len(iopub'),
               k < l, iopub'[k].id = iopub'[l].id
        PROVE  /\ iopub'[k].kind # "idle"
               /\ iopub'[l].kind # "idle" => iopub'[k].n < iopub'[l].n
    <3>1. CASE l \in 1..Len(iopub)
      <4>1. k \in 1..Len(iopub)
        BY <2>1, <3>1
      <4>2. QED
        BY <1>4, <2>1, <3>1, <4>1 DEF Inv, InOrder
    <3>2. CASE l = Len(iopub) + 1
      <4>1. k \in 1..Len(iopub) /\ iopub[k].id = current /\ iopub'[k] = iopub[k]
        <5>1. Len(iopub) \in Nat
          BY Types
        <5>2. k \in 1..Len(iopub)
          BY <2>1, <3>2, <5>1
        <5>3. iopub'[k] = iopub[k]
          BY <1>4, <5>2
        <5>4. iopub'[l].id = current
          BY <1>3, <1>4, <3>2
        <5>5. QED
          BY <2>1, <5>2, <5>3, <5>4
      <4>2. iopub[k].kind # "idle" /\ iopub[k].n <= emitted[current]
        BY <4>1, Types DEF Inv, InOrder
      <4>3. QED
        BY <1>2, <1>3, <1>4, <3>2, <4>1, <4>2, Types
    <3>3. CASE l = Len(iopub) + 2
      <4>1. CASE k \in 1..Len(iopub)
        BY <1>3, <1>4, <2>1, <3>3, <4>1, SMTT(30) DEF Inv, InOrder
      <4>2. CASE k = Len(iopub) + 1
        BY <1>3, <1>4, <3>3, <4>2
      <4>3. QED
        BY <1>4, <2>1, <3>3, <4>1, <4>2
    <3>4. ASSUME NEW j \in 1..n, l = Len(iopub) + 2 + j, iopub'[l].id = shell[j]
          PROVE  FALSE
      <4>1. iopub'[k].id = shell[j] /\ Fresh(shell[j]) /\ shell[j] # current /\ shell[j] \in Request
        BY <1>3, <1>7, <2>1, <3>4
      <4>2. \A i \in 1..n : i < j => shell[i] # shell[j]
        <5>1. \A i \in 1..n : i \in 1..Len(shell) /\ i \in Nat
          BY <1>5
        <5>2. \A h, i \in 1..Len(shell) : shell[h] = shell[i] => h = i
          BY DEF Inv, NumberedOnce
        <5>3. j \in 1..n /\ j \in Nat
          BY <3>4
        <5>4. QED
          BY <5>1, <5>2, <5>3
      <4>3. CASE k \in 1..Len(iopub)
        BY <1>4, <4>1, <4>3 DEF Inv, FreshSilent
      <4>4. CASE k = Len(iopub) + 1 \/ k = Len(iopub) + 2
        BY <1>3, <1>4, <4>1, <4>4
      <4>5. ASSUME NEW i \in 1..n, k = Len(iopub) + 2 + i, iopub'[k].id = shell[i]
            PROVE  FALSE
        <5>1. i < j /\ shell[i] = shell[j]
          BY <1>3, <1>4, <2>1, <3>4, <4>1, <4>5
        <5>2. QED
          BY <4>2, <5>1
      <4>6. QED
        BY <1>6, <4>3, <4>4, <4>5
    <3>5. QED
      BY <1>6, <3>1, <3>2, <3>3, <3>4
  <2>2. ASSUME NEW k \in 1..Len(iopub')
        PROVE  /\ iopub'[k].kind # "idle" => iopub'[k].n \in 1..emitted'[iopub'[k].id]
               /\ iopub'[k].kind = "idle" => /\ iopub'[k].n = 0 /\ iopub'[k].id # 0
                                             /\ fate'[iopub'[k].id] # "none"
    <3>1. CASE k \in 1..Len(iopub)
      <4>1. iopub'[k] = iopub[k] /\ iopub[k].id \in Request /\ iopub[k].n \in Nat
        BY <1>4, <3>1, Types
      <4>2. iopub[k].kind # "idle" => iopub[k].n \in 1..emitted'[iopub[k].id]
        BY <1>9, <3>1, <4>1, Types, SMTT(30) DEF Inv, InOrder
      <4>3. iopub[k].kind = "idle" => /\ iopub[k].n = 0 /\ iopub[k].id # 0
                                      /\ fate'[iopub[k].id] # "none"
        BY <1>4, <3>1, <4>1, Types DEF Inv, InOrder
      <4>4. QED
        BY <4>1, <4>2, <4>3
    <3>2. CASE k = Len(iopub) + 1 \/ k = Len(iopub) + 2
      <4>1. emitted[current] + 1 \in 1..emitted'[current] /\ fate'[current] # "none"
        BY <1>2, <1>4, <1>9
      <4>2. QED
        BY <1>2, <1>3, <1>4, <3>2, <4>1, SMTT(30)
    <3>3. ASSUME NEW i \in 1..n, iopub'[k].id = shell[i],
                 iopub'[k].kind = "idle" /\ iopub'[k].n = 0
          PROVE  iopub'[k].id # 0 /\ fate'[iopub'[k].id] # "none"
      <4>1. shell[i] \in Request /\ shell[i] # 0 /\ fate'[shell[i]] = "aborted"
        BY <1>4, <1>7, Types
      <4>2. QED
        BY <3>3, <4>1
    <3>4. QED
      BY <1>6, <3>1, <3>2, <3>3
  <2>3. QED
    BY <1>2, <2>1, <2>2 DEF InOrder
<1>14. Collected'
  <2>1. ASSUME NEW c \in Caller, NEW i \in 1..Len(got[c])
        PROVE  /\ got[c][i].id = msgId[c] /\ got[c][i].n <= emitted'[msgId[c]]
               /\ msgId[c] \notin during =>
                    \A k \in 1..Len(iopub') :
                      iopub'[k].id = msgId[c] /\ iopub'[k].kind # "idle" => got[c][i].n < iopub'[k].n
    <3>1. /\ got[c][i].id = msgId[c] /\ got[c][i].n <= emitted[msgId[c]]
          /\ got[c][i].n \in Nat /\ msgId[c] \in Request
      BY <2>1, Types DEF Inv, Collected
    <3>2. got[c][i].n <= emitted'[msgId[c]]
      BY <1>9, <3>1, Types
    <3>3. ASSUME msgId[c] \notin during, NEW k \in 1..Len(iopub'), iopub'[k].id = msgId[c], iopub'[k].kind # "idle"
          PROVE  got[c][i].n < iopub'[k].n
      <4>1. CASE k \in 1..Len(iopub)
        BY <1>4, <2>1, <3>3, <4>1 DEF Inv, Collected, Ordered
      <4>2. CASE k = Len(iopub) + 1
        <5>1. iopub'[k].id = current /\ iopub'[k].n = emitted[current] + 1
          BY <1>3, <1>4, <4>2
        <5>2. got[c][i].n <= emitted[current] /\ emitted[current] \in Nat
          BY <1>2, <3>1, <3>3, <5>1, Types
        <5>3. QED
          BY <3>1, <5>1, <5>2
      <4>3. QED
        BY <1>3, <1>4, <1>6, <3>3, <4>1, <4>2
    <3>4. QED
      BY <3>1, <3>2, <3>3
  <2>2. QED
    BY <1>4, <2>1 DEF Inv, Collected, Ordered
<1>15. NothingMissing'
  <2> SUFFICES ASSUME NEW c \in Caller, Undisturbed(c)
               PROVE  InSequence(c)' /\ AllHere(c)' /\ ErrorHere(c)'
    BY <1>4 DEF NothingMissing, Undisturbed, Disturbed
  <2>1. InSequence(c) /\ AllHere(c) /\ ErrorHere(c)
    BY DEF Inv, NothingMissing
  <2>2. msgId[c] # 0 /\ msgId[c] \in Request
    BY Types DEF Inv, NumberedOnce, Undisturbed, Request
  <2>3. CASE msgId[c] = current
    <3>0. Len(iopub) + 1 \in 1..Len(iopub')
      <4>1. stage = "none"
        BY <1>2, <2>3 DEF RestartInv, DuringOnly, Undisturbed, Disturbed
      <4>2. QED
        BY <1>4, <4>1
    <3>1. ASSUME NEW m \in 1..emitted'[current]
          PROVE  m <= Len(got[c]) \/ \E k \in 1..Len(iopub') : iopub'[k].id = current /\ iopub'[k].n = m
      <4>1. CASE m \in 1..emitted[current]
        <5>1. m <= Len(got[c]) \/ \E k \in 1..Len(iopub) : iopub[k].id = current /\ iopub[k].n = m
          BY <2>1, <2>3, <4>1 DEF AllHere
        <5>2. QED
          BY <1>4, <5>1
      <4>2. CASE m = emitted[current] + 1
        BY <1>3, <1>4, <3>0, <4>2
      <4>3. QED
        BY <1>2, <1>9, <4>1, <4>2
    <3>2. \E k \in 1..Len(iopub') : iopub'[k].id = current /\ iopub'[k].kind = "error"
      BY <1>3, <1>4, <3>0
    <3>3. QED
      BY <2>1, <2>3, <3>1, <3>2 DEF InSequence, AllHere, ErrorHere
  <2>4. CASE \E j \in 1..n : shell[j] = msgId[c]
    <3>1. PICK j \in 1..n : shell[j] = msgId[c]
      BY <2>4
    <3>2. Fresh(msgId[c]) /\ emitted[msgId[c]] = 0 /\ msgId[c] # current
      BY <1>7, <2>2, <3>1 DEF Inv, FreshSilent
    <3>3. emitted'[msgId[c]] = 0 /\ fate'[msgId[c]] = "aborted"
      BY <1>4, <1>9, <2>2, <3>1, <3>2
    <3>4. QED
      BY <2>1, <3>3 DEF InSequence, AllHere, ErrorHere
  <2>5. CASE msgId[c] # current /\ ~ \E j \in 1..n : shell[j] = msgId[c]
    <3>1. /\ emitted'[msgId[c]] = emitted[msgId[c]]
          /\ fate'[msgId[c]] = fate[msgId[c]]
      BY <1>4, <1>9, <2>2, <2>5
    <3>2. ASSUME NEW k \in 1..Len(iopub'), iopub'[k].id = msgId[c]
          PROVE  k \in 1..Len(iopub) /\ iopub'[k] = iopub[k]
      BY <1>6, <2>5, <3>2
    <3>3. \A k \in 1..Len(iopub) : k \in 1..Len(iopub') /\ iopub'[k] = iopub[k]
      BY <1>4
    <3>4. AllHere(c)'
      BY <1>2, <2>1, <2>2, <3>1, <3>2, <3>3, ZenonT(30) DEF AllHere
    <3>5. ErrorHere(c)'
      BY <2>1, <3>1, <3>2, <3>3 DEF ErrorHere, Failed
    <3>6. QED
      BY <2>1, <3>4, <3>5 DEF InSequence
  <2>6. QED
    BY <2>3, <2>4, <2>5
<1>16. EndedIsOver'
  BY <1>2, <1>8 DEF Inv, EndedIsOver, Ended, NumberedOnce
<1>17. OnlyOthersLoseOutput'
  <2>1. ASSUME NEW c \in Caller, Ended(c)
        PROVE  emitted'[msgId[c]] = emitted[msgId[c]] /\ fate'[msgId[c]] = fate[msgId[c]]
    <3>1. msgId[c] \in Request /\ msgId[c] # current /\ ~Fresh(msgId[c])
      BY <2>1, Types DEF Inv, NumberedOnce, EndedIsOver, Ended, Request
    <3>2. \A i \in 1..n : shell[i] # msgId[c]
      BY <1>7, <3>1
    <3>3. QED
      BY <1>4, <1>9, <3>1, <3>2
  <2>2. QED
    BY <1>4, <2>1 DEF Inv, OnlyOthersLoseOutput, Ended, Complete, Disturbed
<1>18. QED
  BY <1>10, <1>11, <1>12, <1>13, <1>14, <1>15, <1>16, <1>17 DEF Inv

-----------------------------------------------------------------------------
(***************************************************************************)
(* The steps of a caller.                                                  *)
(***************************************************************************)
LEMMA ExecuteKeeps ==
  ASSUME TypeOK, Inv, NEW c \in Caller, Execute(c)
  PROVE  TypeOK' /\ Inv'
<1> USE DEF Execute
<1> DEFINE r == requests + 1
<1>1. r \in Request /\ r \in Nat /\ r # 0 /\ r > requests /\ requests \in Nat
  BY Types, BoundAssumption DEF TypeOK, Request
<1>2. /\ shell' \in Seq(Request) /\ Len(shell') = Len(shell) + 1 /\ Len(shell) \in Nat
      /\ \A i \in 1..Len(shell) : shell'[i] = shell[i]
      /\ shell'[Len(shell) + 1] = r
  BY <1>1, AppendOf DEF TypeOK
<1>3. \A i \in 1..Len(shell') : i \in 1..Len(shell) \/ i = Len(shell) + 1
  BY <1>2
<1>4. /\ msgId'[c] = r /\ got'[c] = <<>> /\ pc'[c] = "waiting" /\ Len(<<>>) = 0
      /\ \A d \in Caller : d # c => /\ msgId'[d] = msgId[d] /\ got'[d] = got[d]
                                    /\ pc'[d] = pc[d]
  BY DEF TypeOK
<1>5. ASSUME NEW q \in Nat, Fresh(q)' PROVE Fresh(q)
  <2>1. CASE q > requests + 1
    BY <1>1, <2>1 DEF Fresh
  <2>2. CASE \E i \in 1..Len(shell') : shell'[i] = q
    BY <1>1, <1>2, <1>3, <2>2 DEF Fresh, InShell
  <2>3. QED
    BY <1>5, <2>1, <2>2 DEF Fresh, InShell
<1>6. Fresh(r) /\ emitted[r] = 0 /\ r # current /\ \A k \in 1..Len(iopub) : iopub[k].id # r
  BY <1>1 DEF Fresh, Inv, FreshSilent
<1>d. during \subseteq during' /\ during' \subseteq Request
  BY <1>1 DEF TypeOK
<1>7. TypeOK'
  BY <1>d, <1>1, <1>2, <1>4, EmptySeq DEF TypeOK, Request
<1>8. NumberedOnce'
  <2>1. ASSUME NEW i \in 1..Len(shell'), NEW j \in 1..Len(shell'), shell'[i] = shell'[j]
        PROVE  i = j
    <3>1. \A m \in 1..Len(shell) : shell[m] # r
      BY <1>1, Types DEF Inv, NumberedOnce
    <3>2. QED
      BY <1>2, <1>3, <2>1, <3>1 DEF Inv, NumberedOnce
  <2>2. \A i \in 1..Len(shell') : shell'[i] <= r
    BY <1>1, <1>2, <1>3, Types DEF Inv, NumberedOnce
  <2>3. \A d \in Caller : msgId[d] # r /\ msgId[d] <= r
    BY <1>1, Types DEF Inv, NumberedOnce
  <2>4. \A d, e \in Caller : d # e /\ msgId'[d] = msgId'[e] => msgId'[d] = 0
    BY <1>4, <2>3 DEF Inv, NumberedOnce
  <2>5. \A d \in Caller : /\ msgId'[d] <= r
                          /\ pc'[d] \in {"waiting", "ok", "error"} => msgId'[d] # 0
    BY <1>1, <1>4, <2>3 DEF Inv, NumberedOnce
  <2>6. current <= r
    BY <1>1, Types DEF Inv, NumberedOnce
  <2>7. QED
    BY <2>1, <2>2, <2>4, <2>5, <2>6 DEF NumberedOnce
<1>9. FreshSilent'
  BY <1>5, Types DEF Inv, FreshSilent
<1>10. InOrder'
  BY DEF Inv, InOrder
<1>11. Collected'
  BY <1>4, <1>d DEF Inv, Collected, Ordered
<1>12. NothingMissing'
  <2>1. ASSUME NEW d \in Caller, Undisturbed(d)'
        PROVE  InSequence(d)' /\ AllHere(d)' /\ ErrorHere(d)'
    <3>1. CASE d = c
      BY <1>4, <1>6, <3>1 DEF InSequence, AllHere, ErrorHere
    <3>2. CASE d # c
      BY <1>4, <1>d, <2>1, <3>2
      DEF Inv, NothingMissing, Undisturbed, Disturbed, InSequence, AllHere, ErrorHere, Failed
    <3>3. QED
      BY <3>1, <3>2
  <2>2. QED
    BY <2>1 DEF NothingMissing
<1>13. EndedIsOver'
  BY <1>4, <1>5, Types DEF Inv, EndedIsOver, Ended
<1>14. OnlyOthersLoseOutput'
  BY <1>4, <1>d DEF Inv, OnlyOthersLoseOutput, Ended, Complete, Disturbed
<1>15. QED
  BY <1>7, <1>8, <1>9, <1>10, <1>11, <1>12, <1>13, <1>14 DEF Inv

(* A caller that stops waiting without an answer changes nothing else.     *)
LEMMA GivesUpKeeps ==
  ASSUME TypeOK, Inv, NEW c \in Caller,
         ExecuteUnavailable(c) \/ Timeout(c) \/ ChannelGone(c)
  PROVE  TypeOK' /\ Inv'
<1>1. /\ pc' \in [Caller -> {"new", "waiting", "ok", "error", "timeout", "raised"}]
      /\ \A d \in Caller : pc'[d] = pc[d] \/ pc'[d] \in {"timeout", "raised"}
      /\ UNCHANGED <<owned, connected, shell, current, iopub, emitted, requests,
                     msgId, got, lost, fate, stage, behind, former, during>>
  BY DEF TypeOK, ExecuteUnavailable, Timeout, ChannelGone, EndCall, restart
<1>2. TypeOK'
  BY <1>1 DEF TypeOK
<1>3. NumberedOnce'
  BY <1>1 DEF Inv, NumberedOnce
<1>4. FreshSilent' /\ InOrder' /\ Collected'
  BY <1>1 DEF Inv, FreshSilent, Fresh, InShell, InOrder, Collected, Ordered
<1>5. NothingMissing'
  BY <1>1 DEF Inv, NothingMissing, Undisturbed, Disturbed, InSequence, AllHere, ErrorHere, Failed
<1>6. EndedIsOver'
  BY <1>1 DEF Inv, EndedIsOver, Ended, Fresh, InShell
<1>7. OnlyOthersLoseOutput'
  BY <1>1 DEF Inv, OnlyOthersLoseOutput, Ended, Complete, Disturbed
<1>8. QED
  BY <1>2, <1>3, <1>4, <1>5, <1>6, <1>7 DEF Inv

(* Taking a message: whoever waits for it keeps it, or ends with it.       *)
LEMMA ReceiveKeeps ==
  ASSUME TypeOK, Inv, NEW c \in Caller, Receive(c)
  PROVE  TypeOK' /\ Inv'
<1> DEFINE h == iopub[1]
           r == msgId[c]
<1>1. /\ iopub' \in Seq(Message) /\ Len(iopub') = Len(iopub) - 1 /\ Len(iopub) \in Nat \ {0}
      /\ \A k \in 1..(Len(iopub) - 1) : iopub'[k] = iopub[k + 1]
      /\ Head(iopub) = h
  BY TailOf DEF TypeOK, Receive, Take
<1>2. /\ pc[c] = "waiting" /\ connected
      /\ lost' = IF h.id = r THEN lost ELSE lost \cup {h.id}
      /\ UNCHANGED <<owned, connected, shell, current, emitted, requests, msgId, fate, stage, behind, former, during>>
  BY <1>1 DEF Receive, Take, restart
<1>3. /\ h \in Message /\ h.id \in Request /\ h.n \in Nat /\ h.kind \in Kinds
      /\ r # 0 /\ 1 \in 1..Len(iopub) /\ r \in Nat /\ r \in 0..MaxRequests
  BY <1>1, <1>2, Types DEF Inv, NumberedOnce
<1>4. \A k \in 1..Len(iopub') : k + 1 \in 1..Len(iopub) /\ iopub'[k] = iopub[k + 1]
  BY <1>1
<1>5. ASSUME NEW k \in 1..Len(iopub), k # 1
      PROVE  k - 1 \in 1..Len(iopub') /\ iopub'[k - 1] = iopub[k]
  <2>1. k - 1 \in 1..(Len(iopub) - 1) /\ (k - 1) + 1 = k
    BY <1>1, <1>5
  <2>2. QED
    BY <1>1, <2>1
<1>6. \A d \in Caller : d # c => pc'[d] = pc[d] /\ got'[d] = got[d]
  BY DEF Receive, Handle, Keep, Finish, TypeOK
<1>7. \A q : Fresh(q)' <=> Fresh(q)
  BY <1>2 DEF Fresh, InShell
<1>a. h.id # r => UNCHANGED <<pc, got>>
  BY <1>1 DEF Receive, Handle
<1>b. h.id = r /\ h.kind = "idle" => /\ got' = got
                                     /\ pc'[c] = IF Failed(got[c]) THEN "error" ELSE "ok"
                                     /\ pc' \in [Caller -> {"new", "waiting", "ok", "error", "timeout", "raised"}]
  BY <1>1 DEF Receive, Handle, Finish, TypeOK
<1>c. h.id = r /\ h.kind # "idle" =>
        /\ pc' = pc /\ h \in Outputs
        /\ got' \in [Caller -> Seq(Outputs)]
        /\ got[c] \in Seq(Outputs) /\ got'[c] = Append(got[c], h)
  <2> SUFFICES ASSUME h.id = r /\ h.kind # "idle"
               PROVE  /\ pc' = pc /\ h \in Outputs
                      /\ got' \in [Caller -> Seq(Outputs)]
                      /\ got[c] \in Seq(Outputs) /\ got'[c] = Append(got[c], h)
    OBVIOUS
  <2>1. h \in Outputs
    <3>1. h.n # 0
      BY <1>3, Types DEF Inv, InOrder
    <3>2. QED
      BY <1>3, <3>1, BoundAssumption DEF Message, Outputs
  <2>2. pc' = pc /\ got' = [got EXCEPT ![c] = Append(@, h)]
    BY <1>1 DEF Receive, Handle, Keep
  <2>3. got[c] \in Seq(Outputs) /\ Append(got[c], h) \in Seq(Outputs)
    BY <2>1, AppendOf DEF TypeOK
  <2>4. QED
    BY <2>1, <2>2, <2>3 DEF TypeOK
<1>8. h.id = r /\ h.kind # "idle" =>
        /\ Len(got'[c]) = Len(got[c]) + 1 /\ Len(got[c]) \in Nat
        /\ \A i \in 1..Len(got[c]) : got'[c][i] = got[c][i]
        /\ got'[c][Len(got[c]) + 1] = h
        /\ \A i \in 1..Len(got'[c]) : i \in 1..Len(got[c]) \/ i = Len(got[c]) + 1
        /\ DOMAIN got'[c] = 1..Len(got'[c]) /\ DOMAIN got[c] = 1..Len(got[c])
  <2> SUFFICES ASSUME h.id = r /\ h.kind # "idle"
               PROVE  /\ Len(got'[c]) = Len(got[c]) + 1 /\ Len(got[c]) \in Nat
                      /\ \A i \in 1..Len(got[c]) : got'[c][i] = got[c][i]
                      /\ got'[c][Len(got[c]) + 1] = h
                      /\ \A i \in 1..Len(got'[c]) : i \in 1..Len(got[c]) \/ i = Len(got[c]) + 1
                      /\ DOMAIN got'[c] = 1..Len(got'[c]) /\ DOMAIN got[c] = 1..Len(got[c])
    OBVIOUS
  <2>1. PICK g : g = got'[c]
    OBVIOUS
  <2>2. /\ Len(g) = Len(got[c]) + 1 /\ Len(got[c]) \in Nat /\ g \in Seq(Outputs)
        /\ \A i \in 1..Len(got[c]) : g[i] = got[c][i]
        /\ g[Len(got[c]) + 1] = h
    BY <1>c, <2>1, AppendOf, SMTT(30)
  <2>3. DOMAIN g = 1..Len(g) /\ DOMAIN got[c] = 1..Len(got[c])
    BY <1>c, <2>2, LenProperties
  <2>4. QED
    BY <2>1, <2>2, <2>3
<1>9. TypeOK'
  <2>1. lost' \subseteq Request
    BY <1>2, <1>3 DEF TypeOK
  <2>2. /\ got' \in [Caller -> Seq(Outputs)]
        /\ pc' \in [Caller -> {"new", "waiting", "ok", "error", "timeout", "raised"}]
    BY <1>a, <1>b, <1>c DEF TypeOK
  <2>3. QED
    BY <1>1, <1>2, <2>1, <2>2 DEF TypeOK
<1>10. NumberedOnce'
  <2>1. \A d \in Caller : pc'[d] \in {"waiting", "ok", "error"} => r = msgId[d] \/ pc[d] = pc'[d]
    BY <1>6
  <2>2. QED
    BY <1>2, <1>3, <2>1 DEF Inv, NumberedOnce
<1>11. FreshSilent'
  BY <1>2, <1>4, <1>7 DEF Inv, FreshSilent
<1>12. InOrder'
  <2>1. ASSUME NEW k \in 1..Len(iopub'), NEW l \in 1..Len(iopub'),
               k < l, iopub'[k].id = iopub'[l].id
        PROVE  /\ iopub'[k].kind # "idle"
               /\ iopub'[l].kind # "idle" => iopub'[k].n < iopub'[l].n
    <3>1. k + 1 < l + 1
      BY <1>1, <2>1
    <3>2. QED
      BY <1>4, <2>1, <3>1 DEF Inv, InOrder
  <2>2. QED
    BY <1>2, <1>4, <2>1 DEF Inv, InOrder
<1>13. Collected'
  <2>1. ASSUME NEW d \in Caller, d # c \/ got'[c] = got[c], NEW i \in 1..Len(got'[d])
        PROVE  /\ got'[d][i].id = msgId[d] /\ got'[d][i].n <= emitted[msgId[d]]
               /\ msgId[d] \notin during => \A k \in 1..Len(iopub') :
                    iopub'[k].id = msgId[d] /\ iopub'[k].kind # "idle" => got'[d][i].n < iopub'[k].n
               /\ msgId[d] \notin during =>
                    \A j \in 1..Len(got'[d]) : i < j => got'[d][i].n < got'[d][j].n
    <3>1. got'[d] = got[d]
      BY <1>6, <2>1
    <3>2. ASSUME msgId[d] \notin during,
                 NEW k \in 1..Len(iopub'), iopub'[k].id = msgId[d], iopub'[k].kind # "idle"
          PROVE  got[d][i].n < iopub'[k].n
      <4>1. k + 1 \in 1..Len(iopub) /\ iopub'[k] = iopub[k + 1]
        BY <1>4, <3>2
      <4>2. i \in 1..Len(got[d])
        BY <2>1, <3>1
      <4>3. \A l \in 1..Len(iopub) :
              iopub[l].id = msgId[d] /\ iopub[l].kind # "idle" => got[d][i].n < iopub[l].n
        BY <2>1, <3>2, <4>2 DEF Inv, Collected, Ordered
      <4>4. QED
        BY <3>2, <4>1, <4>3
    <3>3. QED
      BY <2>1, <3>1, <3>2 DEF Inv, Collected, Ordered
  <2>2. ASSUME h.id = r, h.kind # "idle", NEW i \in 1..Len(got'[c])
        PROVE  /\ got'[c][i].id = r /\ got'[c][i].n <= emitted[r]
               /\ r \notin during => \A k \in 1..Len(iopub') :
                    iopub'[k].id = r /\ iopub'[k].kind # "idle" => got'[c][i].n < iopub'[k].n
               /\ r \notin during =>
                    \A j \in 1..Len(got'[c]) : i < j => got'[c][i].n < got'[c][j].n
    <3>1. CASE i \in 1..Len(got[c])
      <4>1. /\ got'[c][i] = got[c][i] /\ got[c][i].id = r /\ got[c][i].n <= emitted[r]
            /\ r \notin during => got[c][i].n < h.n
        BY <1>3, <1>8, <2>2, <3>1 DEF Inv, Collected, Ordered
      <4>2. r \notin during => \A k \in 1..Len(iopub') :
              iopub'[k].id = r /\ iopub'[k].kind # "idle" => got[c][i].n < iopub'[k].n
        BY <1>4, <3>1 DEF Inv, Collected, Ordered
      <4>3. ASSUME r \notin during, NEW j \in 1..Len(got'[c]), i < j PROVE got[c][i].n < got'[c][j].n
        <5>1. CASE j \in 1..Len(got[c])
          BY <1>8, <2>2, <3>1, <4>3, <5>1 DEF Inv, Collected, Ordered
        <5>2. CASE j = Len(got[c]) + 1
          BY <1>8, <2>2, <4>1, <4>3, <5>2
        <5>3. QED
          BY <1>8, <2>2, <5>1, <5>2
      <4>4. QED
        BY <4>1, <4>2, <4>3
    <3>2. CASE i = Len(got[c]) + 1
      <4>1. got'[c][i] = h
        BY <1>8, <2>2, <3>2
      <4>2. h.n <= emitted[r]
        BY <1>3, <2>2, Types DEF Inv, InOrder
      <4>3. ASSUME NEW k \in 1..Len(iopub'), iopub'[k].id = r, iopub'[k].kind # "idle"
            PROVE  h.n < iopub'[k].n
        <5>1. 1 < k + 1
          BY <1>1
        <5>2. QED
          BY <1>3, <1>4, <2>2, <4>3, <5>1 DEF Inv, InOrder
      <4>4. \A j \in 1..Len(got'[c]) : ~(i < j)
        BY <1>8, <2>2, <3>2
      <4>5. QED
        BY <2>2, <4>1, <4>2, <4>3, <4>4
    <3>3. QED
      BY <1>8, <2>2, <3>1, <3>2
  <2>3. \A d \in Caller : (d # c \/ got'[c] = got[c]) \/ (d = c /\ h.id = r /\ h.kind # "idle")
    BY <1>a, <1>b
  <2>4. QED
    BY <1>2, <2>1, <2>2, <2>3 DEF Collected, Ordered
<1>14. ASSUME NEW d \in Caller, Undisturbed(d)', h.id # msgId[d], got'[d] = got[d], pc'[d] = pc[d]
       PROVE  InSequence(d)' /\ AllHere(d)' /\ ErrorHere(d)'
  <2>1. Undisturbed(d)
    BY <1>2, <1>14 DEF Undisturbed, Disturbed
  <2>2. InSequence(d) /\ AllHere(d) /\ ErrorHere(d)
    BY <2>1 DEF Inv, NothingMissing
  <2>3. AllHere(d)'
    <3>1. (\E k \in 1..Len(iopub') : iopub'[k].id = msgId[d])
            => \E k \in 1..Len(iopub) : iopub[k].id = msgId[d]
      BY <1>4
    <3>2. ASSUME NEW m, NEW k \in 1..Len(iopub), iopub[k].id = msgId[d], iopub[k].n = m
          PROVE  \E l \in 1..Len(iopub') : iopub'[l].id = msgId[d] /\ iopub'[l].n = m
      <4>1. k # 1
        BY <1>14, <3>2
      <4>2. QED
        BY <1>5, <3>2, <4>1
    <3>3. QED
      BY <1>2, <1>14, <2>2, <3>1, <3>2 DEF AllHere
  <2>4. ErrorHere(d)'
    <3>1. ASSUME NEW k \in 1..Len(iopub'), iopub'[k].id = msgId[d], iopub'[k].kind = "idle"
          PROVE  \E l \in 1..Len(iopub) : iopub[l].id = msgId[d] /\ iopub[l].kind = "idle"
      BY <1>4, <3>1
    <3>2. ASSUME NEW k \in 1..Len(iopub), iopub[k].id = msgId[d], iopub[k].kind = "error"
          PROVE  \E l \in 1..Len(iopub') : iopub'[l].id = msgId[d] /\ iopub'[l].kind = "error"
      <4>1. k # 1
        BY <1>14, <3>2
      <4>2. QED
        BY <1>5, <3>2, <4>1
    <3>3. QED
      BY <1>2, <1>14, <2>2, <3>1, <3>2 DEF ErrorHere, Failed
  <2>5. QED
    BY <1>2, <1>14, <2>2, <2>3, <2>4 DEF InSequence
<1>15. ASSUME h.id = r, h.kind # "idle", Undisturbed(c)'
       PROVE  InSequence(c)' /\ AllHere(c)' /\ ErrorHere(c)'
  <2>1. InSequence(c) /\ AllHere(c) /\ ErrorHere(c)
    BY <1>2, <1>15 DEF Inv, NothingMissing, Undisturbed, Disturbed
  <2>2. \A m \in 1..emitted[r] :
          m <= Len(got[c]) \/ \E k \in 1..Len(iopub) : iopub[k].id = r /\ iopub[k].n = m
    BY <1>3, <1>15, <2>1 DEF AllHere
  <2>3. h.n \in 1..emitted[r] /\ emitted[r] \in Nat /\ Len(got[c]) \in Nat
    BY <1>3, <1>15, Types DEF Inv, InOrder
  <2>4. h.n > Len(got[c])
    <3>1. CASE Len(got[c]) = 0
      BY <2>3, <3>1
    <3>2. CASE Len(got[c]) # 0
      <4>1. Len(got[c]) \in 1..Len(got[c])
        BY <2>3, <3>2
      <4>2. got[c][Len(got[c])].n = Len(got[c]) /\ got[c][Len(got[c])].n < h.n
        BY <1>2, <1>3, <1>15, <2>1, <4>1 DEF Inv, Collected, Ordered, InSequence, Undisturbed, Disturbed
      <4>3. QED
        BY <1>3, <2>3, <4>2
    <3>3. QED
      BY <3>1, <3>2
  <2>5. h.n = Len(got[c]) + 1
    <3>1. SUFFICES ASSUME h.n # Len(got[c]) + 1 PROVE FALSE
      OBVIOUS
    <3>2. Len(got[c]) + 1 \in 1..emitted[r] /\ Len(got[c]) + 1 < h.n /\ Len(got[c]) + 1 # 0
      BY <1>3, <2>3, <2>4, <3>1
    <3>3. PICK k \in 1..Len(iopub) : iopub[k].id = r /\ iopub[k].n = Len(got[c]) + 1
      BY <2>2, <2>3, <3>2, SMTT(30)
    <3>4. k # 1 /\ 1 < k
      BY <3>1, <3>3
    <3>5. iopub[k].kind # "idle"
      BY <3>2, <3>3 DEF Inv, InOrder
    <3>6. h.n < iopub[k].n
      BY <1>3, <1>15, <3>3, <3>4, <3>5 DEF Inv, InOrder
    <3>7. QED
      BY <1>3, <2>3, <3>2, <3>3, <3>6
  <2>6. InSequence(c)'
    BY <1>8, <1>15, <2>1, <2>5 DEF InSequence
  <2>7. AllHere(c)'
    <3>1. ASSUME NEW m \in 1..emitted[r]
          PROVE  m <= Len(got'[c]) \/ \E k \in 1..Len(iopub') : iopub'[k].id = r /\ iopub'[k].n = m
      <4>1. CASE m <= Len(got[c])
        BY <1>8, <1>15, <4>1
      <4>2. ASSUME NEW k \in 1..Len(iopub), iopub[k].id = r, iopub[k].n = m
            PROVE  m <= Len(got'[c]) \/ \E l \in 1..Len(iopub') : iopub'[l].id = r /\ iopub'[l].n = m
        <5>1. CASE k = 1
          BY <1>8, <1>15, <2>3, <2>5, <4>2, <5>1
        <5>2. CASE k # 1
          BY <1>5, <4>2, <5>2
        <5>3. QED
          BY <5>1, <5>2
      <4>3. QED
        BY <2>2, <4>1, <4>2
    <3>2. QED
      BY <1>2, <3>1 DEF AllHere
  <2>8. ErrorHere(c)'
    <3>1. ASSUME Failed(got[c]) PROVE Failed(got'[c])
      BY <1>8, <1>15, <3>1 DEF Failed
    <3>2. ASSUME h.kind = "error" PROVE Failed(got'[c])
      <4>1. Len(got[c]) + 1 \in DOMAIN got'[c] /\ got'[c][Len(got[c]) + 1].kind # "out"
        BY <1>8, <1>15, <3>2
      <4>2. QED
        BY <4>1 DEF Failed
    <3>3. QED
      BY <1>2, <1>4, <1>5, <1>15, <2>1, <3>1, <3>2, ZenonT(30) DEF ErrorHere
  <2>9. QED
    BY <2>6, <2>7, <2>8
<1>16. NothingMissing'
  <2>1. ASSUME NEW d \in Caller, Undisturbed(d)'
        PROVE  InSequence(d)' /\ AllHere(d)' /\ ErrorHere(d)'
    <3>1. CASE d # c
      <4>1. msgId[d] # r
        BY <1>3, <3>1 DEF Inv, NumberedOnce
      <4>2. h.id # msgId[d]
        BY <1>2, <2>1, <4>1 DEF Undisturbed, Disturbed
      <4>3. QED
        BY <1>6, <1>14, <2>1, <3>1, <4>2
    <3>2. CASE d = c /\ h.id # r
      BY <1>a, <1>14, <2>1, <3>2
    <3>3. CASE d = c /\ h.id = r
      <4>1. h.kind # "idle"
        BY <1>b, <2>1, <3>3 DEF Undisturbed
      <4>2. QED
        BY <1>15, <2>1, <3>3, <4>1
    <3>4. QED
      BY <3>1, <3>2, <3>3
  <2>2. QED
    BY <2>1 DEF NothingMissing
<1>17. \A d \in Caller : Ended(d)' =>
         \/ Ended(d) /\ pc'[d] = pc[d] /\ got'[d] = got[d]
         \/ /\ d = c /\ h.id = r /\ h.kind = "idle" /\ got' = got
            /\ pc'[c] = IF Failed(got[c]) THEN "error" ELSE "ok"
  BY <1>2, <1>6, <1>a, <1>b, <1>c DEF Ended
<1>18. EndedIsOver'
  <2>1. h.kind = "idle" => h.id # current /\ ~Fresh(h.id)
    BY <1>3 DEF Inv, InOrder, FreshSilent
  <2>2. QED
    BY <1>2, <1>7, <1>17, <2>1 DEF Inv, EndedIsOver
<1>19. ASSUME h.id = r, h.kind = "idle"
       PROVE  /\ Complete(c) \/ Disturbed(c)
              /\ fate[r] \in {"ran", "aborted"} \/ (fate[r] = "raised" /\ (Disturbed(c) \/ Failed(got[c])))
  <2>1. fate[r] \in {"ran", "raised", "aborted"}
    BY <1>3, <1>19 DEF Inv, InOrder, TypeOK
  <2>2. CASE Disturbed(c)
    BY <2>1, <2>2
  <2>3. CASE ~Disturbed(c)
    <3>1. InSequence(c) /\ AllHere(c) /\ ErrorHere(c)
      BY <1>2, <2>3 DEF Inv, NothingMissing, Undisturbed, Disturbed
    <3>2. \A k \in 1..Len(iopub) : k # 1 => iopub[k].id # r
      BY <1>1, <1>3, <1>19 DEF Inv, InOrder
    <3>3. h.n = 0
      BY <1>3, <1>19 DEF Inv, InOrder
    <3>4. \A m \in 1..emitted[r] : m <= Len(got[c])
      BY <1>3, <1>19, <3>1, <3>2, <3>3 DEF AllHere
    <3>5. emitted[r] \in Nat /\ Len(got[c]) \in Nat /\ DOMAIN got[c] = 1..Len(got[c])
      BY <1>3, <1>19, Types
    <3>6. emitted[r] <= Len(got[c])
      BY <3>4, <3>5
    <3>7. Len(got[c]) <= emitted[r]
      <4>1. CASE Len(got[c]) = 0
        BY <3>5, <4>1
      <4>2. CASE Len(got[c]) # 0
        <5>1. Len(got[c]) \in 1..Len(got[c])
          BY <3>5, <4>2
        <5>2. QED
          BY <3>1, <5>1 DEF Inv, Collected, InSequence
      <4>3. QED
        BY <4>1, <4>2
    <3>8. Complete(c)
      BY <3>1, <3>5, <3>6, <3>7 DEF Complete, InSequence
    <3>9. fate[r] = "raised" => Failed(got[c])
      BY <1>3, <1>19, <3>1, <3>2 DEF ErrorHere
    <3>10. QED
      BY <2>1, <3>8, <3>9
  <2>4. QED
    BY <2>2, <2>3
<1>20. OnlyOthersLoseOutput'
  <2>1. ASSUME NEW d \in Caller
        PROVE  /\ Ended(d)' => Complete(d)' \/ Disturbed(d)'
               /\ pc'[d] = "ok" => \/ fate[msgId[d]] \in {"ran", "aborted"}
                                   \/ fate[msgId[d]] = "raised" /\ Disturbed(d)'
    <3>1. Disturbed(d) => Disturbed(d)'
      BY <1>2 DEF Disturbed
    <3>2. CASE Ended(d) /\ pc'[d] = pc[d] /\ got'[d] = got[d]
      BY <1>2, <3>1, <3>2 DEF Inv, OnlyOthersLoseOutput, Complete
    <3>3. CASE /\ d = c /\ h.id = r /\ h.kind = "idle" /\ got' = got
               /\ pc'[c] = IF Failed(got[c]) THEN "error" ELSE "ok"
      BY <1>2, <1>19, <3>1, <3>3 DEF Complete
    <3>4. CASE ~Ended(d)'
      BY <3>4 DEF Ended
    <3>5. QED
      BY <1>17, <3>2, <3>3, <3>4
  <2>2. QED
    BY <1>2, <2>1 DEF OnlyOthersLoseOutput
<1>21. QED
  BY <1>9, <1>10, <1>11, <1>12, <1>13, <1>16, <1>18, <1>20 DEF Inv

-----------------------------------------------------------------------------
(***************************************************************************)
(* interrupt, restart, disconnect.                                         *)
(***************************************************************************)

(* A step that leaves all but the connection alone, and does not mend it.  *)
LEMMA StillKeeps ==
  ASSUME TypeOK, Inv, connected' \in BOOLEAN, connected' => connected,
         UNCHANGED <<owned, shell, current, iopub, emitted, requests, pc, msgId,
                     got, lost, fate, stage, behind, former, during>>
  PROVE  TypeOK' /\ Inv'
<1>1. TypeOK' /\ NumberedOnce'
  BY DEF TypeOK, Inv, NumberedOnce
<1>2. FreshSilent' /\ InOrder' /\ Collected'
  BY DEF Inv, FreshSilent, Fresh, InShell, InOrder, Collected, Ordered
<1>3. NothingMissing'
  BY DEF Inv, NothingMissing, Undisturbed, Disturbed, InSequence, AllHere, ErrorHere, Failed
<1>4. EndedIsOver' /\ OnlyOthersLoseOutput'
  BY DEF Inv, EndedIsOver, Ended, Fresh, InShell, OnlyOthersLoseOutput, Complete, Disturbed
<1>5. QED
  BY <1>1, <1>2, <1>3, <1>4 DEF Inv

LEMMA InterruptKeeps ==
  ASSUME TypeOK, Inv, RestartInv, Interrupt
  PROVE  TypeOK' /\ Inv'
<1>1. CASE owned /\ KernelRaises
  BY <1>1, RaisesKeeps DEF Interrupt
<1>2. CASE owned /\ ~KernelRaises
  BY <1>2, StillKeeps DEF Interrupt, TypeOK, restart
<1>3. CASE ~owned
  BY <1>3, StillKeeps DEF Interrupt, restart
<1>4. QED
  BY <1>1, <1>2, <1>3

(* Messages of the head of the queue that are gone are missed by nobody who*)
(* could still be answered: his kernel is gone, too, or a restart is under *)
(* way and they are not his.                                               *)
LEMMA ShrinksKeeps ==
  ASSUME TypeOK, TypeOK', Inv, connected' => connected,
         UNCHANGED <<emitted, requests, pc, msgId, got, lost, fate, during>>,
         (shell' = shell /\ current' = current) \/ (shell' = <<>> /\ current' = 0),
         NEW s \in Nat, Len(iopub') = Len(iopub) - s,
         \A k \in 1..Len(iopub') : iopub'[k] = iopub[k + s],
         connected' /\ s # 0 => /\ current' \in during \cup {0}
                               /\ \A k \in 1..Len(iopub') : iopub'[k].id \in during
  PROVE  Inv'
<1>1. 1..Len(shell') = {} \/ shell' = shell
  <2>1. \A q : q = <<>> => 1..Len(q) = {}
    OBVIOUS
  <2>2. QED
    BY <2>1
<1>2. \A q : Fresh(q)' => Fresh(q)
  BY <1>1 DEF Fresh, InShell
<1>3. current' = current \/ current' = 0
  OBVIOUS
<1>4. \A k \in 1..Len(iopub') : k + s \in 1..Len(iopub)
  BY Types
<1>5. NumberedOnce'
  BY <1>1, Types DEF Inv, NumberedOnce
<1>6. FreshSilent'
  BY <1>2, <1>3, <1>4, Types DEF Inv, FreshSilent
<1>7. InOrder'
  <2>1. ASSUME NEW k \in 1..Len(iopub'), NEW l \in 1..Len(iopub'),
               k < l, iopub'[k].id = iopub'[l].id
        PROVE  /\ iopub'[k].kind # "idle"
               /\ iopub'[l].kind # "idle" => iopub'[k].n < iopub'[l].n
    <3>1. k + s < l + s
      BY <2>1
    <3>2. iopub[k + s].id = iopub[l + s].id
      BY <2>1
    <3>3. QED
      BY <1>4, <3>1, <3>2 DEF Inv, InOrder
  <2>2. ASSUME NEW k \in 1..Len(iopub')
        PROVE  /\ iopub'[k].kind # "idle" => iopub'[k].n \in 1..emitted[iopub'[k].id]
               /\ iopub'[k].kind = "idle" => /\ iopub'[k].n = 0 /\ iopub'[k].id # current'
                                             /\ fate[iopub'[k].id] # "none"
    <3>1. k + s \in 1..Len(iopub) /\ iopub'[k] = iopub[k + s]
      BY <1>4
    <3>2. iopub[k + s].id # 0
      BY <3>1, Types
    <3>3. QED
      BY <1>3, <3>1, <3>2 DEF Inv, InOrder
  <2>3. QED
    BY <1>3, <2>1, <2>2 DEF Inv, InOrder
<1>8. Collected'
  <2>1. ASSUME NEW c \in Caller, msgId[c] \notin during PROVE Ordered(c)'
    <3>1. Ordered(c)
      BY <2>1 DEF Inv, Collected
    <3>2. QED
      BY <1>4, <3>1 DEF Ordered
  <2>2. QED
    BY <2>1 DEF Inv, Collected
<1>9. NothingMissing'
  <2>1. ASSUME NEW c \in Caller, Undisturbed(c)'
        PROVE  InSequence(c)' /\ AllHere(c)' /\ ErrorHere(c)'
    <3>1. /\ InSequence(c) /\ AllHere(c) /\ ErrorHere(c) /\ connected'
          /\ msgId[c] \notin during /\ msgId[c] # 0
      BY <2>1 DEF Inv, NothingMissing, NumberedOnce, Undisturbed, Disturbed
    <3>2. CASE s = 0
      <4>1. /\ Len(iopub') = Len(iopub)
            /\ \A k \in 1..Len(iopub) : iopub'[k] = iopub[k]
        <5>1. Len(iopub') = Len(iopub)
          BY <3>2, Types
        <5>2. \A k \in 1..Len(iopub) : iopub'[k] = iopub[k + 0] /\ k + 0 = k
          BY <3>2, <5>1
        <5>3. QED
          BY <5>1, <5>2
      <4>2. AllHere(c)'
        BY <1>3, <3>1, <4>1 DEF AllHere
      <4>3. ErrorHere(c)'
        BY <3>1, <4>1 DEF ErrorHere, Failed
      <4>4. QED
        BY <3>1, <4>2, <4>3 DEF InSequence
    <3>3. CASE s # 0
      <4>1. msgId[c] # current' /\ \A k \in 1..Len(iopub') : iopub'[k].id # msgId[c]
        BY <3>1, <3>3
      <4>2. QED
        BY <3>1, <4>1 DEF InSequence, AllHere, ErrorHere
    <3>4. QED
      BY <3>2, <3>3
  <2>2. QED
    BY <2>1 DEF NothingMissing
<1>10. EndedIsOver'
  BY <1>2, <1>3 DEF Inv, EndedIsOver, Ended, NumberedOnce
<1>11. OnlyOthersLoseOutput'
  BY DEF Inv, OnlyOthersLoseOutput, Ended, Complete, Disturbed
<1>12. QED
  BY <1>5, <1>6, <1>7, <1>8, <1>9, <1>10, <1>11 DEF Inv

LEMMA NoneLeft ==
  ASSUME NEW q, q = <<>>
  PROVE  Len(q) = 0 /\ 1..Len(q) = {} /\ \A S : q \in Seq(S)
BY EmptySeq

LEMMA RestartKernelKeeps ==
  ASSUME TypeOK, Inv, RestartKernel
  PROVE  TypeOK' /\ Inv'
<1> USE DEF RestartKernel
<1>1. shell' \in Seq(Request)
  BY NoneLeft
<1>2. TypeOK'
  BY <1>1, BoundAssumption DEF TypeOK
<1>3. Len(iopub') = Len(iopub) - 0 /\ \A k \in 1..Len(iopub') : iopub'[k] = iopub[k + 0]
  <2>1. Len(iopub) \in Nat /\ \A k \in 1..Len(iopub) : k + 0 = k
    BY Types
  <2>2. QED
    BY <2>1
<1>4. QED
  BY <1>2, <1>3, ShrinksKeeps

LEMMA SwapKeeps ==
  ASSUME TypeOK, Inv, RestartInv, SwapClient
  PROVE  TypeOK' /\ Inv'
<1> USE DEF SwapClient
<1>1. Len(iopub') = 0 /\ 1..Len(iopub') = {} /\ iopub' \in Seq(Message)
  BY NoneLeft
<1>2. TypeOK'
  BY <1>1 DEF TypeOK
<1>3. Len(iopub) \in Nat /\ Len(iopub') = Len(iopub) - Len(iopub)
  BY <1>1, Types
<1>4. current' \in during \cup {0}
  BY DEF RestartInv, DuringOnly
<1>5. QED
  BY <1>1, <1>2, <1>3, <1>4, ShrinksKeeps

LEMMA DrainKeeps ==
  ASSUME TypeOK, Inv, RestartInv, Drain
  PROVE  TypeOK' /\ Inv'
<1> USE DEF Drain, restart
<1>1. /\ iopub' \in Seq(Message) /\ Len(iopub') = Len(iopub) - 1 /\ Len(iopub) \in Nat
      /\ \A k \in 1..(Len(iopub) - 1) : iopub'[k] = iopub[k + 1]
  BY TailOf DEF TypeOK
<1>2. TypeOK'
  BY <1>1 DEF TypeOK
<1>3. current' \in during \cup {0} /\ \A k \in 1..Len(iopub') : iopub'[k].id \in during
  <2>1. \A k \in 1..Len(iopub') : k + 1 \in 1..Len(iopub)
    BY <1>1
  <2>2. QED
    BY <1>1, <2>1 DEF RestartInv, DuringOnly
<1>4. QED
  BY <1>1, <1>2, <1>3, ShrinksKeeps

\* The end of a restart is of no account for messages and calls.
LEMMA EndKeeps ==
  ASSUME TypeOK, Inv, RestartEnds
  PROVE  TypeOK' /\ Inv'
<1> USE DEF RestartEnds
<1>1. TypeOK'
  BY DEF TypeOK
<1>2. Len(iopub') = Len(iopub) - 0 /\ \A k \in 1..Len(iopub') : iopub'[k] = iopub[k + 0]
  <2>1. Len(iopub) \in Nat /\ \A k \in 1..Len(iopub) : k + 0 = k
    BY Types
  <2>2. QED
    BY <2>1
<1>3. QED
  BY <1>1, <1>2, ShrinksKeeps

LEMMA DisconnectKeeps ==
  ASSUME TypeOK, Inv, Disconnect
  PROVE  TypeOK' /\ Inv'
<1> USE DEF Disconnect, restart
<1>1. Len(iopub') = 0 /\ 1..Len(iopub') = {} /\ iopub' \in Seq(Message)
  BY NoneLeft
<1>2. /\ (shell' = shell /\ current' = current) \/ (shell' = <<>> /\ current' = 0)
      /\ shell' \in Seq(Request)
  BY NoneLeft DEF TypeOK
<1>3. TypeOK'
  <2>1. current' \in 0..MaxRequests
    BY <1>2, BoundAssumption DEF TypeOK
  <2>2. QED
    BY <1>1, <1>2, <2>1 DEF TypeOK
<1>4. Len(iopub) \in Nat /\ Len(iopub') = Len(iopub) - Len(iopub)
  BY <1>1, Types
<1>5. QED
  BY <1>1, <1>2, <1>3, <1>4, ShrinksKeeps

(* A message of the former client: only a caller whose request was sent    *)
(* during the restart finds one of its own.                                *)
LEMMA FormerKeeps ==
  ASSUME TypeOK, Inv, RestartInv, NEW c \in Caller, ReceiveFormer(c) \/ FormerSilent(c)
  PROVE  TypeOK' /\ Inv'
<1> USE DEF Leave
<1>1. /\ UNCHANGED <<owned, connected, shell, current, iopub, emitted, requests, msgId,
                     lost, fate, stage, during>>
      /\ behind' = behind \ {c}
  BY DEF ReceiveFormer, FormerSilent
<1>2. former' \in Seq(Message)
  <2>1. PICK none : none = <<>>
    OBVIOUS
  <2>2. none \in Seq(Message)
    BY <2>1, NoneLeft
  <2>3. former # <<>> => Tail(former) \in Seq(Message)
    BY TailOf DEF TypeOK
  <2>4. former' = none \/ former' = former \/ (former # <<>> /\ former' = Tail(former))
    BY <2>1 DEF ReceiveFormer, FormerSilent
  <2>5. QED
    BY <2>2, <2>3, <2>4 DEF TypeOK
<1>3. ASSUME UNCHANGED <<pc, got>> PROVE TypeOK' /\ Inv'
  <2>1. TypeOK'
    BY <1>1, <1>2, <1>3 DEF TypeOK
  <2>2. Len(iopub') = Len(iopub) - 0 /\ \A k \in 1..Len(iopub') : iopub'[k] = iopub[k + 0]
    <3>1. Len(iopub) \in Nat /\ \A k \in 1..Len(iopub) : k + 0 = k
      BY Types
    <3>2. QED
      BY <1>1, <3>1
  <2>3. QED
    BY <1>1, <1>3, <2>1, <2>2, ShrinksKeeps
<1>4. ASSUME ReceiveFormer(c), Head(former).id = msgId[c] PROVE TypeOK' /\ Inv'
  <2> DEFINE h == former[1]
             r == msgId[c]
  <2>1. Head(former) = h /\ 1 \in 1..Len(former)
    BY <1>4, TailOf DEF ReceiveFormer, TypeOK
  <2>2. /\ h \in Message /\ h.id \in Request /\ h.n \in Nat /\ h.kind \in Kinds
        /\ h.id = r /\ c \in behind /\ pc[c] = "waiting" /\ Told(h)
    BY <1>4, <2>1, Types DEF ReceiveFormer, RestartInv, LeftBehind
  <2>3. r \in during /\ Disturbed(c)' /\ r # 0
    BY <1>1, <2>2, Types DEF Told, Disturbed
  <2>4. \A d \in Caller : d # c => pc'[d] = pc[d] /\ got'[d] = got[d]
    BY <1>4 DEF ReceiveFormer, Handle, Keep, Finish, TypeOK
  <2>5. h.kind = "idle" => /\ got' = got
                           /\ pc' = [pc EXCEPT ![c] = IF Failed(got[c]) THEN "error" ELSE "ok"]
    BY <1>4, <2>1 DEF ReceiveFormer, Handle, Finish
  <2>6. h.kind # "idle" => /\ h \in Outputs /\ h.n <= emitted[r]
                           /\ pc' = pc /\ got' = [got EXCEPT ![c] = Append(@, h)]
    <3>1. h.kind # "idle" => h.n \in 1..emitted[r] /\ emitted[r] \in Nat
      BY <2>2, Types DEF Told, Said
    <3>2. h.kind # "idle" => h \in Outputs
      BY <2>2, <3>1, BoundAssumption DEF Message, Outputs
    <3>3. QED
      BY <1>4, <2>1, <3>1, <3>2 DEF ReceiveFormer, Handle, Keep
  <2>7. h.kind # "idle" =>
          /\ Append(got[c], h) \in Seq(Outputs)
          /\ Len(got'[c]) = Len(got[c]) + 1
          /\ \A i \in 1..Len(got[c]) : got'[c][i] = got[c][i]
          /\ got'[c][Len(got[c]) + 1] = h
    <3> SUFFICES ASSUME h.kind # "idle"
                 PROVE  /\ Append(got[c], h) \in Seq(Outputs)
                        /\ Len(got'[c]) = Len(got[c]) + 1
                        /\ \A i \in 1..Len(got[c]) : got'[c][i] = got[c][i]
                        /\ got'[c][Len(got[c]) + 1] = h
      OBVIOUS
    <3>1. PICK g \in Seq(Outputs) : g = got[c]
      BY DEF TypeOK
    <3>2. PICK t : t = Append(g, h)
      OBVIOUS
    <3>3. /\ t \in Seq(Outputs) /\ Len(t) = Len(g) + 1
          /\ \A i \in 1..Len(g) : t[i] = g[i]
          /\ t[Len(g) + 1] = h
      BY <2>6, <3>2, AppendOf
    <3>4. got'[c] = t
      BY <2>6, <3>1, <3>2 DEF TypeOK
    <3>5. QED
      BY <3>1, <3>2, <3>3, <3>4
  <2>8. TypeOK'
    <3>1. /\ got' \in [Caller -> Seq(Outputs)]
          /\ pc' \in [Caller -> {"new", "waiting", "ok", "error", "timeout", "raised"}]
      BY <2>5, <2>6, <2>7 DEF TypeOK
    <3>2. QED
      BY <1>1, <1>2, <3>1 DEF TypeOK
  <2>9. NumberedOnce'
    BY <1>1, <2>3, <2>4 DEF Inv, NumberedOnce
  <2>10. FreshSilent' /\ InOrder'
    BY <1>1 DEF Inv, FreshSilent, Fresh, InShell, InOrder
  <2>11. Collected'
    <3>1. ASSUME NEW i \in 1..Len(got'[c]) PROVE got'[c][i].id = r /\ got'[c][i].n <= emitted[r]
      <4>1. CASE i \in 1..Len(got[c])
        BY <2>5, <2>7, <4>1 DEF Inv, Collected
      <4>2. CASE i \notin 1..Len(got[c])
        <5>1. h.kind # "idle" /\ i = Len(got[c]) + 1
          BY <2>5, <2>7, <4>2, Types
        <5>2. QED
          BY <2>2, <2>6, <2>7, <5>1
      <4>3. QED
        BY <4>1, <4>2
    <3>2. QED
      BY <1>1, <2>3, <2>4, <3>1 DEF Inv, Collected, Ordered
  <2>12. NothingMissing'
    BY <1>1, <2>3, <2>4
    DEF Inv, NothingMissing, Undisturbed, Disturbed, InSequence, AllHere, ErrorHere, Failed
  <2>13. \A d \in Caller : Ended(d)' => (d # c /\ Ended(d)) \/ (d = c /\ h.kind = "idle")
    BY <2>2, <2>4, <2>6 DEF Ended
  <2>14. EndedIsOver'
    <3>1. \A q : Fresh(q)' <=> Fresh(q)
      BY <1>1 DEF Fresh, InShell
    <3>2. QED
      BY <1>1, <2>2, <2>13, <3>1 DEF Inv, EndedIsOver, Told, Said
  <2>15. OnlyOthersLoseOutput'
    <3>1. h.kind = "idle" => fate[r] \in {"ran", "raised", "aborted"}
      BY <2>2 DEF Told, Said, TypeOK
    <3>2. ASSUME NEW d \in Caller, d # c
          PROVE  /\ Ended(d)' => Complete(d)' \/ Disturbed(d)'
                 /\ pc'[d] = "ok" => \/ fate[msgId[d]] \in {"ran", "aborted"}
                                     \/ fate[msgId[d]] = "raised" /\ Disturbed(d)'
      BY <1>1, <2>4, <3>2 DEF Inv, OnlyOthersLoseOutput, Ended, Complete, Disturbed
    <3>3. pc'[c] = "ok" => h.kind = "idle"
      BY <2>2, <2>6
    <3>4. QED
      BY <1>1, <2>3, <3>1, <3>2, <3>3 DEF OnlyOthersLoseOutput
  <2>16. QED
    BY <2>8, <2>9, <2>10, <2>11, <2>12, <2>14, <2>15 DEF Inv
<1>5. CASE ReceiveFormer(c) /\ Head(former).id # msgId[c]
  BY <1>3, <1>5 DEF ReceiveFormer, Handle
<1>6. CASE FormerSilent(c)
  BY <1>3, <1>6 DEF FormerSilent
<1>7. QED
  BY <1>4, <1>5, <1>6

-----------------------------------------------------------------------------
(***************************************************************************)
(* The theorems.                                                           *)
(***************************************************************************)
LEMMA StartsRight == Init => TypeOK /\ Inv /\ RestartInv
<1>1. SUFFICES ASSUME Init PROVE TypeOK /\ Inv /\ RestartInv
  OBVIOUS
<1>2. <<>> \in Seq(Message) /\ <<>> \in Seq(Request) /\ <<>> \in Seq(Outputs)
  BY EmptySeq
<1>3. \A s : s = <<>> => Len(s) = 0 /\ 1..Len(s) = {}
  OBVIOUS
<1>4. /\ shell \in Seq(Request) /\ iopub \in Seq(Message)
      /\ shell = <<>> /\ iopub = <<>>
      /\ former \in Seq(Message) /\ former = <<>>
  BY <1>1, <1>2 DEF Init
<1>5. \A c \in Caller : got[c] = <<>> /\ pc[c] = "new" /\ msgId[c] = 0
  BY <1>1 DEF Init
<1>6. /\ 1..Len(shell) = {} /\ 1..Len(iopub) = {} /\ 1..Len(former) = {}
      /\ \A c \in Caller : 1..Len(got[c]) = {}
  BY <1>3, <1>4, <1>5
<1>7. got \in [Caller -> Seq(Outputs)]
  BY <1>1, <1>2, <1>5 DEF Init
<1>8. /\ owned \in BOOLEAN /\ connected = TRUE /\ current = 0 /\ requests = 0
      /\ emitted = [r \in Request |-> 0] /\ fate = [r \in Request |-> "none"]
      /\ pc = [c \in Caller |-> "new"] /\ msgId = [c \in Caller |-> 0] /\ lost = {}
      /\ stage = "none" /\ behind = {} /\ during = {}
  BY <1>1 DEF Init
<1>9. TypeOK
  BY <1>4, <1>7, <1>8, BoundAssumption DEF TypeOK
<1>10. NumberedOnce
  BY <1>5, <1>6, <1>8 DEF NumberedOnce
<1>11. FreshSilent
  BY <1>6, <1>8, BoundAssumption DEF FreshSilent, Request
<1>12. InOrder
  BY <1>6, <1>8 DEF InOrder
<1>13. Collected
  BY <1>6 DEF Collected, Ordered
<1>14. NothingMissing /\ EndedIsOver /\ OnlyOthersLoseOutput
  BY <1>5 DEF NothingMissing, Undisturbed, EndedIsOver, Ended, OnlyOthersLoseOutput
<1>15. RestartInv
  BY <1>4, <1>6, <1>8 DEF RestartInv, DuringOnly, LeftBehind
<1>16. QED
  BY <1>9, <1>10, <1>11, <1>12, <1>13, <1>14, <1>15 DEF Inv

LEMMA StepKeeps == TypeOK /\ Inv /\ RestartInv /\ [Next]_vars => TypeOK' /\ Inv'
<1>1. SUFFICES ASSUME TypeOK, Inv, RestartInv, [Next]_vars PROVE TypeOK' /\ Inv'
  OBVIOUS
<1>2. CASE KernelStarts
  BY <1>1, <1>2, StartsKeeps
<1>3. CASE KernelPublishes
  BY <1>1, <1>3, PublishesKeeps
<1>4. CASE KernelFinishes
  BY <1>1, <1>4, FinishesKeeps
<1>5. CASE KernelFails
  BY <1>1, <1>5, RaisesKeeps DEF KernelFails
<1>6. ASSUME NEW c \in Caller, Execute(c) PROVE TypeOK' /\ Inv'
  BY <1>1, <1>6, ExecuteKeeps
<1>7. ASSUME NEW c \in Caller, ExecuteUnavailable(c) PROVE TypeOK' /\ Inv'
  BY <1>1, <1>7, GivesUpKeeps DEF ExecuteUnavailable
<1>8. ASSUME NEW c \in Caller, Receive(c) PROVE TypeOK' /\ Inv'
  BY <1>1, <1>8, ReceiveKeeps
<1>9. ASSUME NEW c \in Caller, Timeout(c) PROVE TypeOK' /\ Inv'
  BY <1>1, <1>9, GivesUpKeeps DEF Timeout, EndCall
<1>10. ASSUME NEW c \in Caller, ChannelGone(c) PROVE TypeOK' /\ Inv'
  BY <1>1, <1>10, GivesUpKeeps DEF ChannelGone, EndCall
<1>11. CASE Interrupt
  BY <1>1, <1>11, InterruptKeeps
<1>12. CASE RestartKernel \/ RestartContinues
  BY <1>1, <1>12, RestartKernelKeeps, SwapKeeps, DrainKeeps, EndKeeps DEF RestartContinues
<1>13. CASE Disconnect
  BY <1>1, <1>13, DisconnectKeeps
<1>14. CASE UNCHANGED vars
  BY <1>1, <1>14, StillKeeps DEF vars, TypeOK, restart
<1>15. ASSUME NEW c \in Caller, ReceiveFormer(c) \/ FormerSilent(c) PROVE TypeOK' /\ Inv'
  BY <1>1, <1>15, FormerKeeps
<1>16. QED
  BY <1>1, <1>2, <1>3, <1>4, <1>5, <1>6, <1>7, <1>8, <1>9, <1>10, <1>11, <1>12,
     <1>13, <1>14, <1>15 DEF Next, Kernel, Wait

-----------------------------------------------------------------------------
(***************************************************************************)
(* What a restart under way may know of.                                   *)
(***************************************************************************)
LEMMA TellsOn ==
  ASSUME RestartInv,
         UNCHANGED <<pc, msgId, behind, during>>,
         \A q : Fresh(q)' => Fresh(q),
         \A c \in behind : msgId[c] # 0, current' \in {0, current},
         \A k \in 1..Len(former) : former[k].id \in Request /\ former[k].id # 0,
         \A r \in Request : \A n \in 1..emitted[r] : n \in 1..emitted'[r],
         \A r \in Request : fate[r] # "none" => fate'[r] # "none",
         behind = {} => former' = former,
         \A k \in 1..Len(former') :
           \/ \E l \in 1..Len(former) : former'[k] = former[l]
           \/ \E m : former'[k] = m /\ Said(m)' /\ (m.id = current \/ Fresh(m.id))
  PROVE  LeftBehind'
<1>1. ASSUME NEW m, Said(m), m.id \in Request, m.id # 0 PROVE Said(m)'
  BY <1>1 DEF Said
<1>2. ASSUME NEW m, Told(m), m.id \in Request, m.id # 0 PROVE Told(m)'
  BY <1>1, <1>2 DEF Told
<1>3. ASSUME NEW m, m.id = current \/ Fresh(m.id), Said(m)' PROVE Told(m)'
  <2>1. \A c \in behind : m.id = msgId[c] => msgId[c] \in during
    BY <1>3 DEF RestartInv, LeftBehind
  <2>2. QED
    BY <1>3, <2>1 DEF Told
<1>4. ASSUME NEW k \in 1..Len(former') PROVE Told(former[k])'
  <2>1. CASE \E l \in 1..Len(former) : former'[k] = former[l]
    <3>1. PICK l \in 1..Len(former) : former'[k] = former[l]
      BY <2>1
    <3>2. PICK m : m = former[l] /\ m = former'[k]
      BY <3>1
    <3>3. Told(m) /\ m.id \in Request /\ m.id # 0
      BY <3>2 DEF RestartInv, LeftBehind
    <3>4. Told(m)'
      BY <1>2, <3>3
    <3>5. QED
      BY <3>2, <3>4
  <2>2. CASE \E m : former'[k] = m /\ Said(m)' /\ (m.id = current \/ Fresh(m.id))
    <3>1. PICK m : former'[k] = m /\ Said(m)' /\ (m.id = current \/ Fresh(m.id))
      BY <2>2
    <3>2. Told(m)'
      BY <1>3, <3>1
    <3>3. QED
      BY <3>1, <3>2
  <2>3. \/ \E l \in 1..Len(former) : former'[k] = former[l]
        \/ \E m : former'[k] = m /\ Said(m)' /\ (m.id = current \/ Fresh(m.id))
    OBVIOUS
  <2>4. QED
    BY <2>1, <2>2, <2>3
<1>5. behind' = {} => former' = <<>>
  BY DEF RestartInv, LeftBehind
<1>6. \A c \in behind : /\ pc[c] = "waiting"
                        /\ msgId[c] \notin during => msgId[c] # current' /\ ~Fresh(msgId[c])'
  BY DEF RestartInv, LeftBehind
<1>7. QED
  BY <1>4, <1>5, <1>6 DEF LeftBehind

LEMMA FormerIds ==
  ASSUME TypeOK, Inv, RestartInv
  PROVE  /\ \A c \in behind : msgId[c] # 0 /\ msgId[c] <= requests /\ msgId[c] \in Nat
         /\ \A k \in 1..Len(former) : former[k].id \in Request /\ former[k].id # 0
<1>1. \A k \in 1..Len(former) : former[k].id \in Request /\ former[k].id # 0
  BY Types
<1>2. behind \subseteq Caller
  BY DEF TypeOK
<1>3. QED
  BY <1>1, <1>2, Types DEF Inv, NumberedOnce, RestartInv, LeftBehind

LEMMA StartsRestart ==
  ASSUME TypeOK, Inv, RestartInv, KernelStarts
  PROVE  RestartInv'
<1> USE DEF KernelStarts, restart
<1>1. /\ Len(shell') = Len(shell) - 1 /\ Len(shell) \in Nat \ {0}
      /\ \A i \in 1..(Len(shell) - 1) : shell'[i] = shell[i + 1]
      /\ current' = shell[1] /\ 1 \in 1..Len(shell)
  BY TailOf DEF TypeOK
<1>2. \A i \in 1..Len(shell') : i + 1 \in 1..Len(shell) /\ shell'[i] = shell[i + 1]
  BY <1>1
<1>3. Fresh(current') /\ \A q : Fresh(q)' => Fresh(q)
  BY <1>1, <1>2 DEF Fresh, InShell
<1>4. DuringOnly'
  BY <1>1, <1>2 DEF RestartInv, DuringOnly
<1>5. \A m : Said(m) => Said(m)'
  BY <1>3 DEF Said
<1>6. LeftBehind'
  BY <1>3, <1>5 DEF RestartInv, LeftBehind, Told
<1>7. QED
  BY <1>4, <1>6 DEF RestartInv

LEMMA PublishesRestart ==
  ASSUME TypeOK, Inv, RestartInv, KernelPublishes
  PROVE  RestartInv'
<1> USE DEF KernelPublishes
<1>1. /\ Output("out") \in Message /\ current \in Request /\ current # 0
      /\ Output("out").id = current /\ Output("out").kind = "out"
      /\ Output("out").n = emitted[current] + 1 /\ emitted[current] \in Nat
  BY Types, BoundAssumption DEF TypeOK, Output, Message, Kinds
<1>2. /\ \A k \in 1..Len(iopub) : iopub'[k] = iopub[k]
      /\ \A k \in 1..Len(iopub') : k \in 1..Len(iopub) \/ k = Len(iopub) + 1
      /\ Len(iopub) + 1 \in 1..Len(iopub') => iopub'[Len(iopub) + 1] = Output("out")
      /\ behind = {} => former' = former
      /\ \A k \in 1..Len(former') :
           former'[k] = Output("out") \/ \E l \in 1..Len(former) : former'[k] = former[l]
      /\ UNCHANGED <<stage, behind, during>>
  BY <1>1, PublishedOne
<1>3. DuringOnly'
  BY <1>1, <1>2 DEF RestartInv, DuringOnly
<1>4. \A q : Fresh(q)' <=> Fresh(q)
  BY DEF Fresh, InShell
<1>5. /\ emitted'[current] = emitted[current] + 1
      /\ \A r \in Request : emitted'[r] \in Nat /\ emitted'[r] >= emitted[r]
  BY <1>1, Types DEF TypeOK
<1>6. \A r \in Request : \A n \in 1..emitted[r] : n \in 1..emitted'[r]
  BY <1>5, Types
<1>7. PICK m : m = Output("out")
  OBVIOUS
<1>8. m.id = current /\ Said(m)'
  <2>1. m.id = current /\ m.kind = "out" /\ m.n \in 1..emitted'[current] /\ ~Fresh(current)
    BY <1>1, <1>5, <1>7 DEF Inv, FreshSilent
  <2>2. QED
    BY <1>4, <2>1 DEF Said
<1>9. ASSUME NEW k \in 1..Len(former')
      PROVE  \/ \E l \in 1..Len(former) : former'[k] = former[l]
             \/ \E n : former'[k] = n /\ Said(n)' /\ (n.id = current \/ Fresh(n.id))
  BY <1>2, <1>7, <1>8
<1>10. LeftBehind'
  BY <1>2, <1>4, <1>6, <1>9, FormerIds, TellsOn
<1>11. QED
  BY <1>3, <1>10 DEF RestartInv

LEMMA FinishesRestart ==
  ASSUME TypeOK, Inv, RestartInv, KernelFinishes
  PROVE  RestartInv'
<1> USE DEF KernelFinishes
<1>1. /\ IdleStatus(current) \in Message /\ current \in Request /\ current # 0
      /\ IdleStatus(current).id = current /\ IdleStatus(current).kind = "idle"
      /\ IdleStatus(current).n = 0 /\ current' = 0
  BY Types, BoundAssumption DEF TypeOK, IdleStatus, Message, Kinds
<1>2. /\ \A k \in 1..Len(iopub) : iopub'[k] = iopub[k]
      /\ \A k \in 1..Len(iopub') : k \in 1..Len(iopub) \/ k = Len(iopub) + 1
      /\ Len(iopub) + 1 \in 1..Len(iopub') => iopub'[Len(iopub) + 1] = IdleStatus(current)
      /\ behind = {} => former' = former
      /\ \A k \in 1..Len(former') :
           former'[k] = IdleStatus(current) \/ \E l \in 1..Len(former) : former'[k] = former[l]
      /\ UNCHANGED <<stage, behind, during>>
  BY <1>1, PublishedOne
<1>3. DuringOnly'
  BY <1>1, <1>2 DEF RestartInv, DuringOnly
<1>4. \A q : Fresh(q)' <=> Fresh(q)
  BY DEF Fresh, InShell
<1>5. fate'[current] = "ran" /\ \A r \in Request : fate[r] # "none" => fate'[r] # "none"
  BY <1>1 DEF TypeOK
<1>6. PICK m : m = IdleStatus(current)
  OBVIOUS
<1>7. m.id = current /\ Said(m)'
  <2>1. m.id = current /\ m.kind = "idle" /\ m.n = 0 /\ ~Fresh(current)
    BY <1>1, <1>6 DEF Inv, FreshSilent
  <2>2. QED
    BY <1>1, <1>4, <1>5, <2>1 DEF Said
<1>8. ASSUME NEW k \in 1..Len(former')
      PROVE  \/ \E l \in 1..Len(former) : former'[k] = former[l]
             \/ \E n : former'[k] = n /\ Said(n)' /\ (n.id = current \/ Fresh(n.id))
  BY <1>2, <1>6, <1>7
<1>9. LeftBehind'
  BY <1>1, <1>2, <1>4, <1>5, <1>8, FormerIds, TellsOn
<1>10. QED
  BY <1>3, <1>9 DEF RestartInv

LEMMA RaisesRestart ==
  ASSUME TypeOK, Inv, RestartInv, KernelRaises, UNCHANGED <<requests, pc, msgId>>
  PROVE  RestartInv'
<1>1. PICK n \in 0..Len(shell) : /\ Aborts(SubSeq(shell, 1, n))
                                 /\ shell' = SubSeq(shell, n + 1, Len(shell))
  BY DEF KernelRaises
<1>2. /\ current # 0 /\ current \in Request /\ current' = 0
      /\ emitted' = [emitted EXCEPT ![current] = @ + 1]
      /\ emitted[current] \in Nat /\ emitted[current] <= MaxOutputs
  BY Types DEF KernelRaises, Inv, InOrder
<1>3. /\ Len(iopub) \in Nat
      /\ \/ Len(iopub') = Len(iopub)
         \/ Len(iopub') = Len(iopub) + 2 + n /\ ErrorThenIdle(iopub', Len(iopub), n)
      /\ \A k \in 1..Len(iopub) : k \in 1..Len(iopub') /\ iopub'[k] = iopub[k]
      /\ \A r \in Request :
           fate'[r] = IF r = current THEN "raised"
                      ELSE IF \E i \in 1..n : shell[i] = r THEN "aborted" ELSE fate[r]
      /\ behind = {} => former' = former
      /\ \A k \in 1..Len(former') :
           OfError(former'[k], n) \/ \E l \in 1..Len(former) : former'[k] = former[l]
      /\ UNCHANGED <<stage, behind, during>>
  BY <1>1, <1>2, AbortedQueue
<1>4. /\ Len(shell') = Len(shell) - n /\ Len(shell) \in Nat /\ n \in Nat
      /\ \A i \in 1..(Len(shell) - n) : shell'[i] = shell[n + i]
  <2>1. Len(shell) \in Nat /\ n \in Nat
    BY Types
  <2>2. QED
    BY <1>1, <2>1, ShellRest
<1>5. \A i \in 1..Len(shell') : n + i \in 1..Len(shell) /\ shell'[i] = shell[n + i]
  BY <1>4
<1>6. \A q : Fresh(q)' => Fresh(q)
  BY <1>5 DEF Fresh, InShell
<1>7. ASSUME NEW r, NEW i \in 1..n, r = shell[i]
      PROVE  Fresh(r) /\ ~Fresh(r)' /\ r \in Request /\ r # 0
  <2>1. i \in 1..Len(shell) /\ r \in Request /\ r # 0 /\ r <= requests
    BY <1>4, <1>7, Types DEF Inv, NumberedOnce
  <2>2. ASSUME NEW j \in 1..Len(shell') PROVE shell'[j] # r
    <3>1. n + j # i /\ n + j \in 1..Len(shell) /\ shell'[j] = shell[n + j]
      BY <1>4, <1>5
    <3>2. QED
      BY <1>7, <2>1, <3>1 DEF Inv, NumberedOnce
  <2>3. requests \in Nat /\ r \in Nat
    BY <2>1, Types
  <2>4. QED
    BY <1>7, <2>1, <2>2, <2>3 DEF Fresh, InShell
<1>8. /\ Output("error").id = current /\ Output("error").kind = "error"
      /\ Output("error").n = emitted[current] + 1
      /\ \A r : IdleStatus(r).id = r /\ IdleStatus(r).kind = "idle" /\ IdleStatus(r).n = 0
  BY DEF Output, IdleStatus
<1>9. /\ emitted'[current] = emitted[current] + 1
      /\ \A r \in Request : emitted'[r] \in Nat /\ emitted'[r] >= emitted[r]
  BY <1>2, Types, SMTT(30) DEF TypeOK
<1>10. \A r \in Request : \A k \in 1..emitted[r] : k \in 1..emitted'[r]
  BY <1>9, Types
<1>11. \A r \in Request : fate[r] # "none" => fate'[r] # "none"
  BY <1>3
<1>12. ASSUME NEW m, OfError(m, n)
       PROVE  (m.id = current \/ Fresh(m.id)) /\ Said(m)'
  <2>1. PICK q : q = current
    OBVIOUS
  <2>2. ~Fresh(q)' /\ q \in Request /\ q # 0
    BY <1>2, <1>6, <2>1 DEF Inv, FreshSilent
  <2>3. CASE m = Output("error")
    <3>1. m.id = q /\ m.kind = "error" /\ m.n \in 1..emitted'[q]
      BY <1>2, <1>8, <1>9, <2>1, <2>3
    <3>2. QED
      BY <2>1, <2>2, <3>1 DEF Said
  <2>4. CASE m = IdleStatus(current)
    <3>1. m.id = q /\ m.kind = "idle" /\ m.n = 0 /\ fate'[q] # "none"
      BY <1>2, <1>3, <1>8, <2>1, <2>4
    <3>2. QED
      BY <1>2, <2>1, <2>2, <3>1 DEF Said
  <2>5. ASSUME NEW i \in 1..n, m = IdleStatus(shell[i])
        PROVE  Fresh(m.id) /\ Said(m)'
    <3>1. PICK r : r = shell[i]
      OBVIOUS
    <3>2. m.id = r /\ m.kind = "idle" /\ m.n = 0
      BY <1>8, <2>5, <3>1
    <3>3. Fresh(r) /\ ~Fresh(r)' /\ r \in Request /\ r # 0
      BY <1>7, <3>1
    <3>4. fate'[r] # "none"
      BY <1>3, <3>1, <3>3
    <3>5. QED
      BY <1>2, <3>2, <3>3, <3>4 DEF Said
  <2>6. QED
    BY <1>12, <2>3, <2>4, <2>5, <2>1 DEF OfError
<1>13. ASSUME NEW k \in 1..Len(former')
       PROVE  \/ \E l \in 1..Len(former) : former'[k] = former[l]
              \/ \E m : former'[k] = m /\ Said(m)' /\ (m.id = current \/ Fresh(m.id))
  <2>1. PICK m : m = former'[k]
    OBVIOUS
  <2>2. QED
    BY <1>3, <1>12, <2>1
<1>14. LeftBehind'
  BY <1>2, <1>3, <1>6, <1>10, <1>11, <1>13, FormerIds, TellsOn
<1>15. DuringOnly'
  <2>1. stage # "none" => \A i \in 1..Len(shell') : shell'[i] \in during
    BY <1>5 DEF RestartInv, DuringOnly
  <2>2. ASSUME stage = "swapped", NEW k \in 1..Len(iopub') PROVE iopub'[k].id \in during
    <3>1. current \in during /\ \A i \in 1..n : shell[i] \in during
      <4>1. \A i \in 1..n : i \in 1..Len(shell)
        BY <1>4
      <4>2. QED
        BY <1>2, <2>2, <4>1 DEF RestartInv, DuringOnly
    <3>2. CASE k \in 1..Len(iopub)
      BY <1>3, <2>2, <3>2 DEF RestartInv, DuringOnly
    <3>3. CASE k \notin 1..Len(iopub)
      <4>1. Len(iopub') = Len(iopub) + 2 + n /\ ErrorThenIdle(iopub', Len(iopub), n)
        BY <1>3, <2>2, <3>3
      <4>2. CASE k = Len(iopub) + 1 \/ k = Len(iopub) + 2
        BY <1>8, <3>1, <4>1, <4>2 DEF ErrorThenIdle
      <4>3. CASE k > Len(iopub) + 2
        <5>1. PICK i \in 1..n : k = Len(iopub) + 2 + i
          <6>1. k - (Len(iopub) + 2) \in 1..n /\ k = Len(iopub) + 2 + (k - (Len(iopub) + 2))
            BY <1>3, <1>4, <4>1, <4>3
          <6>2. QED
            BY <6>1
        <5>2. iopub'[k] = IdleStatus(shell[i])
          BY <4>1, <5>1 DEF ErrorThenIdle
        <5>3. QED
          BY <1>8, <3>1, <5>2
      <4>4. QED
        BY <1>3, <3>3, <4>2, <4>3
    <3>4. QED
      BY <3>2, <3>3
  <2>3. QED
    BY <1>2, <1>3, <2>1, <2>2 DEF DuringOnly
<1>16. QED
  BY <1>14, <1>15 DEF RestartInv

LEMMA ExecuteRestart ==
  ASSUME TypeOK, Inv, RestartInv, NEW c \in Caller, Execute(c)
  PROVE  RestartInv'
<1> USE DEF Execute
<1> DEFINE r == requests + 1
<1>1. r \in Request /\ r \in Nat /\ r > requests /\ requests \in Nat
  BY Types, BoundAssumption DEF TypeOK, Request
<1>2. /\ Len(shell') = Len(shell) + 1 /\ Len(shell) \in Nat
      /\ \A i \in 1..Len(shell) : shell'[i] = shell[i]
      /\ shell'[Len(shell) + 1] = r
  BY <1>1, AppendOf DEF TypeOK
<1>3. \A i \in 1..Len(shell') : i \in 1..Len(shell) \/ i = Len(shell) + 1
  BY <1>2
<1>4. during \subseteq during' /\ (stage # "none" => r \in during')
  OBVIOUS
<1>5. DuringOnly'
  BY <1>2, <1>3, <1>4 DEF RestartInv, DuringOnly
<1>6. ASSUME NEW q \in Nat, Fresh(q)' PROVE Fresh(q)
  <2>1. CASE q > requests + 1
    BY <1>1, <2>1 DEF Fresh
  <2>2. CASE \E i \in 1..Len(shell') : shell'[i] = q
    BY <1>1, <1>2, <1>3, <2>2 DEF Fresh, InShell
  <2>3. QED
    BY <1>6, <2>1, <2>2 DEF Fresh, InShell
<1>7. \A d \in behind : d # c /\ d \in Caller /\ pc'[d] = pc[d] /\ msgId'[d] = msgId[d]
  BY DEF RestartInv, LeftBehind, TypeOK
<1>8. ASSUME NEW m, Told(m), m.id \in Nat PROVE Told(m)'
  <2>1. Said(m)'
    BY <1>6, <1>8 DEF Told, Said
  <2>2. QED
    BY <1>4, <1>7, <1>8, <2>1 DEF Told
<1>9. \A k \in 1..Len(former) : Told(former[k])'
  <2>1. ASSUME NEW k \in 1..Len(former) PROVE Told(former[k])'
    <3>1. PICK m : m = former[k] /\ m = former'[k]
      OBVIOUS
    <3>2. Told(m) /\ m.id \in Nat
      BY <3>1, FormerIds, Types DEF RestartInv, LeftBehind
    <3>3. Told(m)'
      BY <1>8, <3>2
    <3>4. QED
      BY <3>1, <3>3
  <2>2. QED
    BY <2>1
<1>10. ASSUME NEW d \in behind, msgId[d] \notin during'
       PROVE  msgId[d] # current /\ ~Fresh(msgId[d])'
  BY <1>4, <1>6, <1>10, FormerIds DEF RestartInv, LeftBehind
<1>11. LeftBehind'
  BY <1>7, <1>9, <1>10 DEF RestartInv, LeftBehind
<1>12. QED
  BY <1>5, <1>11 DEF RestartInv

(* Steps that leave the kernel and what it is asked alone: who is behind   *)
(* waits on, or leaves with one message less in the former queue.          *)
LEMMA WaitsRestart ==
  ASSUME TypeOK, RestartInv,
         UNCHANGED <<shell, current, emitted, requests, msgId, fate, stage, during>>,
         behind' \subseteq behind, \A c \in behind' : pc'[c] = pc[c],
         behind' = {} => former' = <<>>,
         \A k \in 1..Len(former') : \E l \in 1..Len(former) : former'[k] = former[l],
         \A k \in 1..Len(iopub') : \E l \in 1..Len(iopub) : iopub'[k] = iopub[l]
  PROVE  RestartInv'
<1>1. DuringOnly'
  BY DEF RestartInv, DuringOnly
<1>2. \A q : Fresh(q)' <=> Fresh(q)
  BY DEF Fresh, InShell
<1>3. \A m : Told(m) => Told(m)'
  BY <1>2 DEF Told, Said
<1>4. ASSUME NEW k \in 1..Len(former') PROVE Told(former[k])'
  <2>1. PICK l \in 1..Len(former) : former'[k] = former[l]
    OBVIOUS
  <2>2. PICK m : m = former[l] /\ m = former'[k]
    BY <2>1
  <2>3. Told(m)'
    BY <1>3, <2>2 DEF RestartInv, LeftBehind
  <2>4. QED
    BY <2>2, <2>3
<1>5. LeftBehind'
  BY <1>2, <1>4 DEF RestartInv, LeftBehind
<1>6. QED
  BY <1>1, <1>5 DEF RestartInv

LEMMA TailIn ==
  ASSUME NEW S, NEW q \in Seq(S), q # <<>>, NEW t, t = Tail(q)
  PROVE  \A k \in 1..Len(t) : \E l \in 1..Len(q) : t[k] = q[l]
<1>1. /\ Len(t) = Len(q) - 1 /\ Len(q) \in Nat \ {0}
      /\ \A i \in 1..(Len(q) - 1) : t[i] = q[i + 1]
  BY TailOf
<1>2. ASSUME NEW k \in 1..Len(t) PROVE k + 1 \in 1..Len(q) /\ t[k] = q[k + 1]
  BY <1>1
<1>3. QED
  BY <1>2

LEMMA CallerRestart ==
  ASSUME TypeOK, Inv, RestartInv, NEW c \in Caller, ExecuteUnavailable(c) \/ Wait(c)
  PROVE  RestartInv'
<1>1. RestartInv /\ (behind = {} => former = <<>>) /\ \A d \in behind : pc[d] = "waiting"
  BY DEF RestartInv, LeftBehind
<1>2. CASE ExecuteUnavailable(c) \/ Timeout(c) \/ ChannelGone(c)
  <2>1. /\ c \notin behind
        /\ pc' \in {[pc EXCEPT ![c] = "timeout"], [pc EXCEPT ![c] = "raised"]}
        /\ UNCHANGED <<shell, current, iopub, emitted, requests, msgId, fate, restart>>
    BY <1>1, <1>2 DEF ExecuteUnavailable, Timeout, ChannelGone, EndCall
  <2>2. \A d \in behind : pc'[d] = pc[d]
    BY <2>1 DEF TypeOK
  <2>3. QED
    BY <1>1, <2>1, <2>2, WaitsRestart DEF restart
<1>3. CASE Receive(c)
  <2>1. /\ c \notin behind /\ iopub # <<>> /\ iopub' = Tail(iopub)
        /\ UNCHANGED <<shell, current, emitted, requests, msgId, fate, restart>>
    BY <1>3 DEF Receive, Take
  <2>2. \A d \in behind : pc'[d] = pc[d]
    BY <1>3, <2>1 DEF Receive, Handle, Keep, Finish, TypeOK
  <2>3. \A k \in 1..Len(iopub') : \E l \in 1..Len(iopub) : iopub'[k] = iopub[l]
    BY <2>1, TailIn DEF TypeOK
  <2>4. QED
    BY <1>1, <2>1, <2>2, <2>3, WaitsRestart DEF restart
<1>4. CASE ReceiveFormer(c) \/ FormerSilent(c)
  <2>1. /\ UNCHANGED <<shell, current, iopub, emitted, requests, msgId, fate, stage, during>>
        /\ behind' = behind \ {c}
    BY <1>4 DEF ReceiveFormer, FormerSilent, Leave
  <2>2. \A d \in behind' : pc'[d] = pc[d]
    BY <1>4, <2>1 DEF ReceiveFormer, FormerSilent, Handle, Keep, Finish, TypeOK
  <2>3. behind' = {} => former' = <<>>
    BY <1>4, <2>1 DEF ReceiveFormer, FormerSilent
  <2>4. \A k \in 1..Len(former') : \E l \in 1..Len(former) : former'[k] = former[l]
    <3>1. \/ former' = <<>> \/ former' = former
          \/ former # <<>> /\ former' = Tail(former)
      BY <1>4 DEF ReceiveFormer, FormerSilent
    <3>2. former' = <<>> => 1..Len(former') = {}
      BY NoneLeft
    <3>3. former # <<>> /\ former' = Tail(former) =>
            \A k \in 1..Len(former') : \E l \in 1..Len(former) : former'[k] = former[l]
      BY TailIn DEF TypeOK
    <3>4. QED
      BY <3>1, <3>2, <3>3
  <2>5. QED
    BY <2>1, <2>2, <2>3, <2>4, WaitsRestart
<1>5. QED
  BY <1>2, <1>3, <1>4 DEF Wait

(* The kernel is gone with what it was asked: only a restart or a          *)
(* disconnection does this, and none is under way yet.                     *)
LEMMA GoneRestart ==
  ASSUME TypeOK, Inv, RestartInv,
         (shell' = <<>> /\ current' = 0) \/ (stage' = "none" /\ UNCHANGED <<shell, current>>),
         stage' # "swapped",
         UNCHANGED <<emitted, requests, pc, msgId, fate, behind, former, during>>
  PROVE  RestartInv'
<1>1. shell' = <<>> => 1..Len(shell') = {}
  BY NoneLeft
<1>2. DuringOnly'
  BY <1>1 DEF RestartInv, DuringOnly
<1>3. \A q : Fresh(q)' => Fresh(q)
  BY <1>1 DEF Fresh, InShell
<1>4. /\ \A k \in 1..Len(former') : \E l \in 1..Len(former) : former'[k] = former[l]
      /\ behind = {} => former' = former
      /\ current' \in {0, current}
      /\ \A r \in Request : \A n \in 1..emitted[r] : n \in 1..emitted'[r]
      /\ \A r \in Request : fate[r] # "none" => fate'[r] # "none"
  OBVIOUS
<1>5. LeftBehind'
  BY <1>3, <1>4, FormerIds, TellsOn
<1>6. QED
  BY <1>2, <1>5 DEF RestartInv

LEMMA SwapRestart ==
  ASSUME TypeOK, Inv, RestartInv, SwapClient
  PROVE  RestartInv'
<1> USE DEF SwapClient
<1>1. 1..Len(iopub') = {} /\ former = <<>> /\ 1..Len(former) = {}
  BY NoneLeft DEF RestartInv, LeftBehind
<1>2. DuringOnly'
  BY <1>1 DEF RestartInv, DuringOnly
<1>3. ASSUME NEW c \in behind'
      PROVE  /\ pc[c] = "waiting"
             /\ msgId[c] \notin during => msgId[c] # current /\ ~Fresh(msgId[c])'
  <2>1. c \in Caller /\ pc[c] = "waiting"
    OBVIOUS
  <2>2. msgId[c] # 0 /\ msgId[c] <= requests /\ msgId[c] \in Nat /\ requests \in Nat
    BY <2>1, Types DEF Inv, NumberedOnce
  <2>3. msgId[c] \notin during => msgId[c] # current /\ ~InShell(msgId[c])
    BY <2>2 DEF RestartInv, DuringOnly, InShell
  <2>4. QED
    BY <2>1, <2>2, <2>3 DEF Fresh, InShell
<1>4. LeftBehind'
  BY <1>1, <1>3 DEF LeftBehind
<1>5. QED
  BY <1>2, <1>4 DEF RestartInv

LEMMA RestartStep == TypeOK /\ Inv /\ RestartInv /\ [Next]_vars => RestartInv'
<1>1. SUFFICES ASSUME TypeOK, Inv, RestartInv, [Next]_vars PROVE RestartInv'
  OBVIOUS
<1>a. /\ behind = {} => former = <<>>
      /\ \A k \in 1..Len(former) : \E l \in 1..Len(former) : former[k] = former[l]
      /\ \A k \in 1..Len(iopub) : \E l \in 1..Len(iopub) : iopub[k] = iopub[l]
  BY <1>1 DEF RestartInv, LeftBehind
<1>2. CASE Kernel
  BY <1>1, <1>2, StartsRestart, PublishesRestart, FinishesRestart, RaisesRestart
  DEF Kernel, KernelFails
<1>3. ASSUME NEW c \in Caller, Execute(c) PROVE RestartInv'
  BY <1>1, <1>3, ExecuteRestart
<1>4. ASSUME NEW c \in Caller, ExecuteUnavailable(c) \/ Wait(c) PROVE RestartInv'
  BY <1>1, <1>4, CallerRestart
<1>5. CASE Interrupt
  <2>1. CASE KernelRaises
    BY <1>1, <1>5, <2>1, RaisesRestart DEF Interrupt
  <2>2. CASE ~KernelRaises
    <3>1. UNCHANGED <<shell, current, iopub, emitted, requests, pc, msgId, fate, restart>>
      BY <1>5, <2>2 DEF Interrupt
    <3>2. QED
      BY <1>1, <1>a, <3>1, WaitsRestart DEF restart
  <2>3. QED
    BY <2>1, <2>2
<1>6. CASE RestartKernel
  BY <1>1, <1>6, GoneRestart DEF RestartKernel
<1>7. CASE SwapClient
  BY <1>1, <1>7, SwapRestart
<1>8. CASE Drain
  <2>1. \A k \in 1..Len(iopub') : \E l \in 1..Len(iopub) : iopub'[k] = iopub[l]
    BY <1>1, <1>8, TailIn DEF Drain, TypeOK
  <2>2. QED
    BY <1>1, <1>8, <1>a, <2>1, WaitsRestart DEF Drain, restart
<1>9. CASE RestartEnds
  BY <1>1, <1>9, GoneRestart DEF RestartEnds
<1>10. CASE Disconnect
  <2>1. stage = "none" /\ UNCHANGED restart
    BY <1>10 DEF Disconnect, Called
  <2>2. (shell' = <<>> /\ current' = 0) \/ UNCHANGED <<shell, current>>
    BY <1>10 DEF Disconnect
  <2>3. QED
    BY <1>1, <1>10, <2>1, <2>2, GoneRestart DEF Disconnect, restart
<1>11. CASE UNCHANGED vars
  BY <1>1, <1>11, <1>a, WaitsRestart DEF vars
<1>12. QED
  BY <1>1, <1>2, <1>3, <1>4, <1>5, <1>6, <1>7, <1>8, <1>9, <1>10, <1>11
  DEF Next, RestartContinues

LEMMA Always == Spec => [](TypeOK /\ Inv /\ RestartInv)
<1>1. QED
  BY StartsRight, StepKeeps, RestartStep, PTL DEF Spec

(* The queues, the calls and what they collected keep their shape.         *)
THEOREM TypeCorrect == Spec => []TypeOK
<1>1. QED
  BY Always, PTL

(* A caller collects only its own request's output, in the order the kernel*)
(* wrote it, whatever late messages the shared queue holds                 *)
(* (kernel_client.py:121-122).                                             *)
THEOREM NoCrossTalkEver == Spec => []NoCrossTalk
<1>1. ASSUME TypeOK, Inv PROVE NoCrossTalk
  BY <1>1, Types DEF Inv, Collected, Ordered, NoCrossTalk
<1>2. QED
  BY <1>1, Always, PTL

(* An execution that ends returns everything its code wrote and does not   *)
(* report the success of code that failed, unless another caller on the    *)
(* same backend took one of its messages (kernel_client.py:119-150).       *)
THEOREM OutputIsWhole == Spec => []OnlyOthersLoseOutput
<1>1. Inv => OnlyOthersLoseOutput
  BY DEF Inv
<1>2. QED
  BY <1>1, Always, PTL

-----------------------------------------------------------------------------
(***************************************************************************)
(* What became of a request: it is decided once, when the kernel is done   *)
(* with it, and the queue the kernel aborts is behind what it raised.      *)
(***************************************************************************)
AbortedBehindRaised ==
  \A r \in Request : fate[r] = "aborted" => \E q \in 1..(r - 1) : fate[q] = "raised"

QueueOrder ==
  /\ \A i, j \in 1..Len(shell) : i < j => shell[i] < shell[j]
  /\ current # 0 => \A i \in 1..Len(shell) : current < shell[i]

Undecided == \A r \in Request : Fresh(r) \/ r = current => fate[r] = "none"

FateInv == QueueOrder /\ Undecided /\ AbortedBehindRaised

LEMMA StartsFate ==
  ASSUME TypeOK, Inv, FateInv, KernelStarts
  PROVE  FateInv'
<1> USE DEF KernelStarts
<1>1. /\ Len(shell') = Len(shell) - 1 /\ Len(shell) \in Nat \ {0}
      /\ \A i \in 1..(Len(shell) - 1) : shell'[i] = shell[i + 1]
      /\ current' = shell[1]
  BY TailOf DEF TypeOK
<1>2. \A i \in 1..Len(shell') : i + 1 \in 1..Len(shell) /\ shell'[i] = shell[i + 1]
  BY <1>1
<1>3. QueueOrder'
  <2>1. \A i \in 1..Len(shell') : current' < shell'[i]
    BY <1>1, <1>2 DEF FateInv, QueueOrder
  <2>2. \A i, j \in 1..Len(shell') : i < j => shell'[i] < shell'[j]
    <3>1. ASSUME NEW i \in 1..Len(shell'), NEW j \in 1..Len(shell'), i < j
          PROVE  shell'[i] < shell'[j]
      <4>1. i + 1 < j + 1
        BY <1>1, <3>1
      <4>2. QED
        BY <1>2, <4>1 DEF FateInv, QueueOrder
    <3>2. QED
      BY <3>1
  <2>3. QED
    BY <2>1, <2>2 DEF QueueOrder
<1>4. Undecided'
  BY <1>1, <1>2 DEF FateInv, Undecided, Fresh, InShell
<1>5. QED
  BY <1>3, <1>4 DEF FateInv, AbortedBehindRaised

LEMMA FinishesFate ==
  ASSUME TypeOK, Inv, FateInv, KernelFinishes
  PROVE  FateInv'
<1> USE DEF KernelFinishes
<1>1. /\ current \in Request
      /\ \A r \in Request : fate'[r] = IF r = current THEN "ran" ELSE fate[r]
  BY Types DEF TypeOK
<1>2. fate[current] = "none" /\ ~Fresh(current)
  BY <1>1 DEF FateInv, Undecided, Inv, FreshSilent
<1>3. QueueOrder'
  BY DEF FateInv, QueueOrder
<1>4. Undecided'
  BY <1>1, <1>2, Types DEF FateInv, Undecided, Fresh, InShell
<1>5. AbortedBehindRaised'
  <2>1. ASSUME NEW r \in Request, fate'[r] = "aborted"
        PROVE  \E q \in 1..(r - 1) : fate'[q] = "raised"
    <3>1. fate[r] = "aborted"
      BY <1>1, <2>1
    <3>2. PICK q \in 1..(r - 1) : fate[q] = "raised"
      BY <3>1 DEF FateInv, AbortedBehindRaised
    <3>3. q \in Request /\ q # current
      BY <1>2, <3>2, BoundAssumption DEF Request
    <3>4. QED
      BY <1>1, <3>2, <3>3
  <2>2. QED
    BY <2>1 DEF AbortedBehindRaised
<1>6. QED
  BY <1>3, <1>4, <1>5 DEF FateInv

LEMMA RaisesFate ==
  ASSUME TypeOK, Inv, FateInv, KernelRaises, UNCHANGED requests
  PROVE  FateInv'
<1>1. PICK n \in 0..Len(shell) : /\ Aborts(SubSeq(shell, 1, n))
                                 /\ shell' = SubSeq(shell, n + 1, Len(shell))
  BY DEF KernelRaises
<1>2. /\ current # 0 /\ current \in Request /\ current' = 0
      /\ emitted[current] <= MaxOutputs
  BY Types DEF KernelRaises, Inv, InOrder
<1>3. \A r \in Request :
        fate'[r] = IF r = current THEN "raised"
                   ELSE IF \E i \in 1..n : shell[i] = r THEN "aborted" ELSE fate[r]
  BY <1>1, <1>2, AbortedQueue
<1>4. /\ Len(shell') = Len(shell) - n /\ Len(shell) \in Nat /\ n \in Nat
      /\ \A i \in 1..(Len(shell) - n) : shell'[i] = shell[n + i]
  <2>1. Len(shell) \in Nat /\ n \in Nat
    BY Types
  <2>2. QED
    BY <1>1, <2>1, ShellRest
<1>5. \A i \in 1..Len(shell') : n + i \in 1..Len(shell) /\ shell'[i] = shell[n + i]
  BY <1>4
<1>6. fate[current] = "none" /\ ~Fresh(current)
  BY <1>2 DEF FateInv, Undecided, Inv, FreshSilent
<1>7. QueueOrder'
  <2>1. ASSUME NEW i \in 1..Len(shell'), NEW j \in 1..Len(shell'), i < j
        PROVE  shell'[i] < shell'[j]
    <3>1. n + i < n + j
      BY <1>4, <2>1
    <3>2. QED
      BY <1>5, <3>1 DEF FateInv, QueueOrder
  <2>2. QED
    BY <1>2, <2>1 DEF QueueOrder
<1>8. Undecided'
  <2>1. ASSUME NEW r \in Request, Fresh(r)' PROVE fate'[r] = "none"
    <3>1. CASE r > requests
      <4>1. ASSUME NEW i \in 1..n PROVE shell[i] # r
        <5>1. i \in 1..Len(shell) /\ shell[i] <= requests
          BY <1>4 DEF Inv, NumberedOnce
        <5>2. shell[i] \in Nat /\ r \in Nat /\ requests \in Nat
          BY <5>1, Types
        <5>3. QED
          BY <3>1, <5>1, <5>2
      <4>2. r # current /\ fate[r] = "none"
        BY <1>6, <3>1 DEF FateInv, Undecided, Fresh
      <4>3. QED
        BY <1>3, <4>1, <4>2
    <3>2. CASE \E i \in 1..Len(shell') : shell'[i] = r
      <4>1. PICK i \in 1..Len(shell') : shell'[i] = r
        BY <3>2
      <4>2. shell[n + i] = r /\ n + i \in 1..Len(shell)
        BY <1>5, <4>1
      <4>3. \A k \in 1..n : k \in 1..Len(shell) /\ k # n + i
        BY <1>4, <4>2
      <4>4. \A k \in 1..n : shell[k] # r
        BY <4>2, <4>3 DEF Inv, NumberedOnce
      <4>5. r # current /\ fate[r] = "none"
        BY <1>6, <4>2 DEF FateInv, Undecided, Fresh, InShell
      <4>6. QED
        BY <1>3, <4>4, <4>5
    <3>3. QED
      BY <2>1, <3>1, <3>2 DEF Fresh, InShell
  <2>2. QED
    BY <1>2, <2>1, Types DEF Undecided
<1>9. AbortedBehindRaised'
  <2>1. ASSUME NEW r \in Request, fate'[r] = "aborted"
        PROVE  \E q \in 1..(r - 1) : fate'[q] = "raised"
    <3>1. CASE \E i \in 1..n : shell[i] = r
      <4>1. current < r /\ current \in Nat /\ r \in Nat
        BY <1>2, <1>4, <3>1, Types DEF FateInv, QueueOrder
      <4>2. current \in 1..(r - 1) /\ fate'[current] = "raised"
        BY <1>2, <1>3, <4>1
      <4>3. QED
        BY <4>2
    <3>2. CASE ~\E i \in 1..n : shell[i] = r
      <4>1. fate[r] = "aborted"
        BY <1>3, <2>1, <3>2
      <4>2. PICK q \in 1..(r - 1) : fate[q] = "raised"
        BY <4>1 DEF FateInv, AbortedBehindRaised
      <4>3. q \in Request /\ q # current
        BY <1>6, <4>2, BoundAssumption DEF Request
      <4>4. \A i \in 1..n : shell[i] # q
        <5>1. ~Fresh(q)
          BY <4>2, <4>3 DEF FateInv, Undecided
        <5>2. QED
          BY <1>4, <5>1 DEF Fresh, InShell
      <4>5. QED
        BY <1>3, <4>2, <4>3, <4>4
    <3>3. QED
      BY <3>1, <3>2
  <2>2. QED
    BY <2>1 DEF AbortedBehindRaised
<1>10. QED
  BY <1>7, <1>8, <1>9 DEF FateInv

LEMMA ExecuteFate ==
  ASSUME TypeOK, Inv, FateInv, NEW c \in Caller, Execute(c)
  PROVE  FateInv'
<1> USE DEF Execute
<1> DEFINE r == requests + 1
<1>1. r \in Request /\ r \in Nat /\ r > requests /\ requests \in Nat
  BY Types, BoundAssumption DEF TypeOK, Request
<1>2. /\ Len(shell') = Len(shell) + 1 /\ Len(shell) \in Nat
      /\ \A i \in 1..Len(shell) : shell'[i] = shell[i]
      /\ shell'[Len(shell) + 1] = r
  BY <1>1, AppendOf DEF TypeOK
<1>3. \A i \in 1..Len(shell') : i \in 1..Len(shell) \/ i = Len(shell) + 1
  BY <1>2
<1>4. \A i \in 1..Len(shell) : shell[i] < r
  BY <1>1, Types DEF Inv, NumberedOnce
<1>5. current < r
  BY <1>1, Types DEF Inv, NumberedOnce
<1>6. QueueOrder'
  <2>1. ASSUME NEW i \in 1..Len(shell'), NEW j \in 1..Len(shell'), i < j
        PROVE  shell'[i] < shell'[j]
    <3>1. i \in 1..Len(shell)
      BY <1>2, <1>3, <2>1
    <3>2. CASE j \in 1..Len(shell)
      BY <1>2, <2>1, <3>1, <3>2 DEF FateInv, QueueOrder
    <3>3. CASE j = Len(shell) + 1
      BY <1>2, <1>4, <3>1, <3>3
    <3>4. QED
      BY <1>3, <3>2, <3>3
  <2>2. ASSUME current # 0, NEW i \in 1..Len(shell') PROVE current < shell'[i]
    BY <1>2, <1>3, <1>5, <2>2 DEF FateInv, QueueOrder
  <2>3. QED
    BY <2>1, <2>2 DEF QueueOrder
<1>7. \A q \in Request : Fresh(q)' => Fresh(q)
  BY <1>1, <1>2, <1>3, Types DEF Fresh, InShell
<1>8. QED
  BY <1>6, <1>7 DEF FateInv, Undecided, AbortedBehindRaised

\* What is left of the queue is the queue, or nothing.
LEMMA KeepsFate ==
  ASSUME TypeOK, FateInv, UNCHANGED <<requests, fate>>,
         shell' = shell \/ shell' = <<>>, current' = current \/ current' = 0
  PROVE  FateInv'
<1>1. 1..Len(shell') = {} \/ shell' = shell
  <2>1. \A s : s = <<>> => 1..Len(s) = {}
    OBVIOUS
  <2>2. QED
    BY <2>1
<1>2. QueueOrder'
  BY <1>1 DEF FateInv, QueueOrder
<1>3. Undecided'
  BY <1>1, Types DEF FateInv, Undecided, Fresh, InShell
<1>4. QED
  BY <1>2, <1>3 DEF FateInv, AbortedBehindRaised

LEMMA FateStep == TypeOK /\ Inv /\ FateInv /\ [Next]_vars => FateInv'
<1>1. SUFFICES ASSUME TypeOK, Inv, FateInv, [Next]_vars PROVE FateInv'
  OBVIOUS
<1>2. CASE KernelStarts
  BY <1>1, <1>2, StartsFate
<1>3. CASE KernelPublishes
  BY <1>1, <1>3, KeepsFate DEF KernelPublishes
<1>4. CASE KernelFinishes
  BY <1>1, <1>4, FinishesFate
<1>5. CASE KernelFails
  BY <1>1, <1>5, RaisesFate DEF KernelFails
<1>6. ASSUME NEW c \in Caller, Execute(c) PROVE FateInv'
  BY <1>1, <1>6, ExecuteFate
<1>7. ASSUME NEW c \in Caller, ExecuteUnavailable(c) \/ Wait(c) PROVE FateInv'
  BY <1>1, <1>7, KeepsFate DEF ExecuteUnavailable, Wait, Receive, Take, ReceiveFormer,
     FormerSilent, Leave, Timeout, ChannelGone
<1>8. CASE Interrupt
  <2>1. CASE KernelRaises
    BY <1>1, <1>8, <2>1, RaisesFate DEF Interrupt
  <2>2. CASE ~KernelRaises
    BY <1>1, <1>8, <2>2, KeepsFate DEF Interrupt
  <2>3. QED
    BY <2>1, <2>2
<1>9. CASE RestartKernel \/ RestartContinues \/ Disconnect
  BY <1>1, <1>9, KeepsFate DEF RestartKernel, RestartContinues, SwapClient, Drain,
     RestartEnds, Disconnect
<1>10. CASE UNCHANGED vars
  BY <1>1, <1>10, KeepsFate DEF vars
<1>11. QED
  BY <1>1, <1>2, <1>3, <1>4, <1>5, <1>6, <1>7, <1>8, <1>9, <1>10 DEF Next, Kernel

LEMMA FateStarts == Init => FateInv
<1>1. \A s : s = <<>> => 1..Len(s) = {}
  OBVIOUS
<1>2. ASSUME Init PROVE 1..Len(shell) = {} /\ current = 0 /\ fate = [r \in Request |-> "none"]
  BY <1>1, <1>2 DEF Init
<1>3. QED
  BY <1>2 DEF FateInv, QueueOrder, Undecided, AbortedBehindRaised

(* A request the kernel drops without executing it was sent after one whose*)
(* code failed (kernel_client.py:102 leaves stop_on_error at its default).  *)
THEOREM AbortsFollowErrors == Spec => []AbortedBehindRaised
<1>1. FateInv => AbortedBehindRaised
  BY DEF FateInv
<1>2. QED
  BY <1>1, FateStarts, FateStep, Always, PTL DEF Spec
=============================================================================
