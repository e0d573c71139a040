-------------------------- MODULE SessionCallsProofs --------------------------
(***************************************************************************)
(* Proofs about the two managers whose every operation is a command in the *)
(* queue of a kernel (SessionCalls): first Environments, for any sessions, *)
(* kernels, packages, versions, profiles and number of calls, whatever pip *)
(* and the users' code do; then Notebooks, for any sessions, kernels,      *)
(* texts, notebook sizes and number of calls, whatever the cells do.       *)
(* Kernels drop, sessions get others and calls give up anywhere in both.   *)
(***************************************************************************)
EXTENDS Environments, Notebooks, SequenceTheorems, WellFoundedInduction, TLAPS

(***************************************************************************)
(* Queues.                                                                 *)
(***************************************************************************)
LEMMA AtTheEnd ==
  ASSUME NEW S, NEW q \in Seq(S), NEW c \in S, NEW t, t = Append(q, c)
  PROVE  /\ t \in Seq(S)
         /\ Len(t) = Len(q) + 1
         /\ DOMAIN t = DOMAIN q \cup {Len(t)}
         /\ \A i \in DOMAIN q : t[i] = q[i]
         /\ t[Len(t)] = c
BY AppendProperties

LEMMA FromTheHead ==
  ASSUME NEW S, NEW q \in Seq(S), q # <<>>, NEW t, t = Tail(q)
  PROVE  /\ Head(q) \in S /\ 1 \in DOMAIN q /\ Head(q) = q[1]
         /\ t \in Seq(S)
         /\ \A i \in DOMAIN t : i + 1 \in DOMAIN q /\ t[i] = q[i + 1]
<1>1. Head(q) \in S /\ Head(q) = q[1] /\ Len(q) \in Nat \ {0} /\ DOMAIN q = 1..Len(q)
  BY HeadTailProperties, EmptySeq, LenProperties
<1>2. t \in Seq(S) /\ Len(t) = Len(q) - 1 /\ \A i \in 1..Len(t) : t[i] = q[i + 1]
  BY HeadTailProperties
<1>3. DOMAIN t = 1..Len(t) /\ Len(t) \in Nat
  BY <1>2, LenProperties
<1>4. QED
  BY <1>1, <1>2, <1>3

-----------------------------------------------------------------------------
(***************************************************************************)
(* Environments: the inductive invariant.                                  *)
(***************************************************************************)
\* While a call waits, and when it has answered ok, its command counts.
Matters == reply \in {"waiting", "ok"}

\* Only installations and removals name packages, only saves and applies name
\* a profile that matters.
Asked(c) == /\ Lists(c.op) => c.arg = Nothing
            /\ c.op \in {"save", "apply"} => c.profile \in Profile

(* Ids never run ahead of the calls: a new one is new everywhere.          *)
Sent ==
  \A k \in Kernel :
    /\ \A i \in DOMAIN queue[k] : queue[k][i].id <= calls
    /\ running[k] # NoCommand => running[k].id <= calls

(* What carries the id of the current call is its command.                 *)
Carried ==
  Matters =>
    /\ call \in Command /\ Asked(call)
    /\ \A k \in Kernel :
         /\ \A i \in DOMAIN queue[k] : queue[k][i].id = call.id => queue[k][i] = call
         /\ running[k] # NoCommand /\ running[k].id = call.id => running[k] = call

(* The only requirements file is the one of the call that waits.           *)
OneFile == \A i \in files : Waiting /\ i = call.id

(* A profile is what was installed when it was saved, and an apply asks    *)
(* for all of it.                                                          *)
ProfilesWhole ==
  /\ \A n \in Profile \ mixed : profile[n] # NoProfile => profile[n] = saved[n]
  /\ Matters /\ call.op = "apply" /\ call.profile \notin mixed =>
       call.arg = saved[call.profile]

Did(c, after) ==
  \A p \in Present(c.arg) : after[p] = IF c.op = "uninstall" THEN Absent ELSE c.arg[p]

(* What a pip has done is still so when it ends, and what it has listed is *)
(* still all there is, unless the others at its Python have come between.  *)
Lasts(c, seen, now) == /\ Asked(c) => Did(c, now)
                       /\ Lists(c.op) => seen = now

Kept ==
  \A k \in Kernel :
    /\ running[k] = NoCommand => stage[k] = "begun"
    /\ stage[k] = "done" /\ k \notin clashed => Lasts(running[k], listed[k], Here(k))

(* What the call has been told is what its own command did.                *)
Tells(c, o) ==
  o.done /\ ~o.clash => /\ Did(c, o.after)
                        /\ (Lists(c.op) /\ o.whole => o.shown = o.after)

Printed == Matters /\ output # NoOutput => output \in Output /\ Tells(call, output)

(* Nothing but an output that says so makes an ok.                         *)
Answered == reply = "ok" => output # NoOutput /\ Understood

Inv == Sent /\ Carried /\ OneFile /\ ProfilesWhole /\ Kept /\ Printed /\ Answered

-----------------------------------------------------------------------------
(***************************************************************************)
(* The calls and the kernels, whatever the commands do.                    *)
(***************************************************************************)
LEMMA InQueue ==
  ASSUME TypeOK
  PROVE  \A k \in Kernel :
           /\ queue[k] \in Seq(Command)
           /\ \A i \in DOMAIN queue[k] : queue[k][i] \in Command /\ queue[k][i].id \in Nat
<1>1. ASSUME NEW k \in Kernel
      PROVE  queue[k] \in Seq(Command)
  BY <1>1 DEF TypeOK, CallsTypeOK
<1>2. ASSUME NEW k \in Kernel, NEW i \in DOMAIN queue[k]
      PROVE  queue[k][i] \in Command
  BY <1>1, LenProperties
<1>3. \A c \in Command : c.id \in Nat
  BY DEF Command, Id
<1>4. QED
  BY <1>1, <1>2, <1>3

LEMMA HereIs == TypeOK => \A k \in Kernel : Home(k) \in Place /\ Here(k) \in Contents
BY DEF TypeOK, Home, Place, Here

\* What runs and what its pip has seen are one kernel's own.
LEMMA StartKeeps ==
  ASSUME TypeOK, Inv, NEW k \in Kernel, PipStarts(k)
  PROVE  TypeOK' /\ Inv'
<1>1. PICK c : c = Head(queue[k])
  OBVIOUS
<1>2. PICK t : t = Tail(queue[k])
  OBVIOUS
<1>3. /\ queue' = [queue EXCEPT ![k] = t]
      /\ running' = [running EXCEPT ![k] = c]
      /\ running[k] = NoCommand /\ queue[k] # <<>>
      /\ UNCHANGED <<places, call, output, reply, calls>>
      /\ UNCHANGED <<installed, files, pip, profiles>>
  BY <1>1, <1>2 DEF PipStarts, Start
<1>4. /\ c \in Command /\ 1 \in DOMAIN queue[k] /\ c = queue[k][1]
      /\ t \in Seq(Command)
      /\ \A i \in DOMAIN t : i + 1 \in DOMAIN queue[k] /\ t[i] = queue[k][i + 1]
  BY <1>1, <1>2, <1>3, InQueue, FromTheHead
<1>5. /\ queue'[k] = t /\ \A j \in Kernel \ {k} : queue'[j] = queue[j]
      /\ running'[k] = c /\ \A j \in Kernel \ {k} : running'[j] = running[j]
  BY <1>3, <1>4 DEF TypeOK, CallsTypeOK
<1>6. TypeOK'
  <2>1. queue' \in [Kernel -> Seq(Command)] /\ running' \in [Kernel -> Command \cup {NoCommand}]
    BY <1>3, <1>4 DEF TypeOK, CallsTypeOK
  <2>2. CallsTypeOK(Command, Output)'
    BY <1>3, <2>1 DEF TypeOK, CallsTypeOK, places
  <2>3. QED
    BY <1>3, <2>2 DEF TypeOK, places, Place, pip, profiles
<1>7. Sent'
  BY <1>3, <1>4, <1>5 DEF Inv, Sent
<1>8. Carried'
  <2> SUFFICES ASSUME Matters
               PROVE  Carried'
    BY <1>3 DEF Carried, Matters
  <2>1. ASSUME NEW i \in DOMAIN t, t[i].id = call.id
        PROVE  t[i] = call
    BY <1>4, <2>1 DEF Inv, Carried
  <2>2. c.id = call.id => c = call
    BY <1>4 DEF Inv, Carried
  <2>3. QED
    BY <1>3, <1>5, <2>1, <2>2 DEF Inv, Carried, Asked
<1>9. Kept'
  <2>1. stage[k] = "begun"
    BY <1>3 DEF Inv, Kept
  <2>2. ASSUME NEW j \in Kernel \ {k}
        PROVE  /\ running'[j] = NoCommand => stage'[j] = "begun"
               /\ stage'[j] = "done" /\ j \notin clashed' =>
                    Lasts(running'[j], listed'[j], Here(j)')
    BY <1>3, <1>5, <2>2 DEF Inv, Kept, Here, Home, places, pip
  <2>3. QED
    BY <1>3, <2>1, <2>2 DEF Kept, pip
<1>10. OneFile' /\ ProfilesWhole' /\ Printed' /\ Answered'
  BY <1>3 DEF Inv, OneFile, ProfilesWhole, Printed, Answered, Matters, Waiting, Tells, Did,
     Understood, profiles
<1>11. QED
  BY <1>6, <1>7, <1>8, <1>9, <1>10 DEF Inv

\* With its command a pip leaves all that it has seen.
LEMMA RestsKept ==
  ASSUME TypeOK, Inv, NEW k \in Kernel, Rests(k), UNCHANGED <<local, installed>>,
         running' = [running EXCEPT ![k] = NoCommand]
  PROVE  /\ stage' \in [Kernel -> {"begun", "ready", "done"}]
         /\ listed' \in [Kernel -> Contents] /\ clashed' \subseteq Kernel
         /\ Kept'
<1>0. Nothing \in Contents
  BY DEF Nothing, Contents
<1>1. /\ stage' \in [Kernel -> {"begun", "ready", "done"}]
      /\ listed' \in [Kernel -> Contents] /\ clashed' \subseteq Kernel
  BY <1>0 DEF Rests, TypeOK
<1>2. /\ stage'[k] = "begun"
      /\ \A j \in Kernel \ {k} : /\ running'[j] = running[j] /\ stage'[j] = stage[j]
                                 /\ listed'[j] = listed[j]
                                 /\ j \notin clashed' => j \notin clashed
  BY DEF Rests, TypeOK, CallsTypeOK
<1>3. ASSUME NEW j \in Kernel \ {k}
      PROVE  /\ running'[j] = NoCommand => stage'[j] = "begun"
             /\ stage'[j] = "done" /\ j \notin clashed' =>
                  Lasts(running'[j], listed'[j], Here(j)')
  BY <1>2, <1>3 DEF Inv, Kept, Here, Home
<1>4. Kept'
  BY <1>2, <1>3 DEF Kept
<1>5. QED
  BY <1>1, <1>4

LEMMA FinishKeeps ==
  ASSUME TypeOK, Inv, NEW k \in Kernel, NEW result \in Output,
         Finish(k, result), Rests(k), UNCHANGED <<queue, installed, files, profiles>>,
         Asked(running[k]) => Tells(running[k], result)
  PROVE  TypeOK' /\ Inv'
<1>1. /\ running[k] # NoCommand
      /\ running' = [running EXCEPT ![k] = NoCommand]
      /\ UNCHANGED <<places, call, reply, calls, queue, installed, files, profiles>>
      /\ output' = IF Waiting /\ call.id = running[k].id THEN result ELSE output
  BY DEF Finish, Reports
<1>2. running'[k] = NoCommand /\ \A j \in Kernel \ {k} : running'[j] = running[j]
  BY <1>1 DEF TypeOK, CallsTypeOK
<1>3. /\ stage' \in [Kernel -> {"begun", "ready", "done"}]
      /\ listed' \in [Kernel -> Contents] /\ clashed' \subseteq Kernel
      /\ Kept'
  BY <1>1, RestsKept DEF places
<1>4. TypeOK'
  <2>1. CallsTypeOK(Command, Output)'
    BY <1>1 DEF TypeOK, CallsTypeOK, places
  <2>2. QED
    BY <1>1, <1>3, <2>1 DEF TypeOK, places, Place, profiles
<1>5. Sent'
  BY <1>1, <1>2 DEF Inv, Sent
<1>6. Carried'
  BY <1>1, <1>2 DEF Inv, Carried, Matters, Asked
<1>7. OneFile' /\ ProfilesWhole'
  BY <1>1 DEF Inv, OneFile, ProfilesWhole, Matters, Waiting, profiles
<1>8. Printed' /\ Answered'
  <2>1. CASE Waiting /\ call.id = running[k].id
    <3>1. /\ output' = result /\ call' = call /\ reply' = "waiting" /\ Asked(call)
          /\ running[k] = call
      BY <1>1, <2>1 DEF Inv, Carried, Matters, Waiting
    <3>2. QED
      BY <3>1 DEF Printed, Answered, Tells, Did
  <2>2. CASE ~(Waiting /\ call.id = running[k].id)
    <3>1. output' = output
      BY <1>1, <2>2
    <3>2. QED
      BY <1>1, <3>1 DEF Inv, Printed, Answered, Matters, Tells, Did, Understood
  <2>3. QED
    BY <2>1, <2>2
<1>9. QED
  BY <1>3, <1>4, <1>5, <1>6, <1>7, <1>8 DEF Inv

LEMMA DropKeeps ==
  ASSUME TypeOK, Inv, NEW k \in Kernel, KernelDrops(k)
  PROVE  TypeOK' /\ Inv'
<1>1. /\ running' = [running EXCEPT ![k] = NoCommand]
      /\ UNCHANGED <<places, call, output, reply, calls, installed, files, profiles>>
      /\ queue' \in {queue, [queue EXCEPT ![k] = <<>>]}
      /\ Rests(k)
  BY DEF KernelDrops, Drop, Abort
<1>2. /\ running'[k] = NoCommand /\ \A j \in Kernel \ {k} : running'[j] = running[j]
      /\ \A j \in Kernel : queue'[j] = queue[j] \/ queue'[j] = <<>>
  BY <1>1 DEF TypeOK, CallsTypeOK
<1>3. /\ stage' \in [Kernel -> {"begun", "ready", "done"}]
      /\ listed' \in [Kernel -> Contents] /\ clashed' \subseteq Kernel
      /\ Kept'
  BY <1>1, RestsKept DEF places
<1>4. TypeOK'
  <2>0. PICK none \in Seq(Command) : none = <<>>
    BY EmptySeq
  <2>1. queue' = queue \/ queue' = [queue EXCEPT ![k] = none]
    BY <1>1, <2>0
  <2>2. running' \in [Kernel -> Command \cup {NoCommand}]
    BY <1>1 DEF TypeOK, CallsTypeOK
  <2>3. queue' \in [Kernel -> Seq(Command)]
    BY <2>1 DEF TypeOK, CallsTypeOK
  <2>4. CallsTypeOK(Command, Output)'
    BY <1>1, <2>2, <2>3 DEF TypeOK, CallsTypeOK, places
  <2>5. QED
    BY <1>1, <1>3, <2>4 DEF TypeOK, places, Place, profiles
<1>5. DOMAIN <<>> = {}
  OBVIOUS
<1>6. Sent'
  BY <1>1, <1>2, <1>5 DEF Inv, Sent
<1>7. Carried'
  BY <1>1, <1>2, <1>5 DEF Inv, Carried, Matters, Asked
<1>8. OneFile' /\ ProfilesWhole' /\ Printed' /\ Answered'
  BY <1>1 DEF Inv, OneFile, ProfilesWhole, Printed, Answered, Matters, Waiting, Tells, Did,
     Understood, profiles
<1>9. QED
  BY <1>3, <1>4, <1>6, <1>7, <1>8 DEF Inv

-----------------------------------------------------------------------------
(***************************************************************************)
(* pip.                                                                    *)
(***************************************************************************)
\* While pips are under way nothing but what they have seen can go wrong.
LEMMA PipKeeps ==
  ASSUME TypeOK, Inv, UNCHANGED <<runtime, files, profiles>>,
         installed' \in [Place -> Contents],
         stage' \in [Kernel -> {"begun", "ready", "done"}],
         listed' \in [Kernel -> Contents], clashed' \subseteq Kernel,
         Kept'
  PROVE  TypeOK' /\ Inv'
<1>1. UNCHANGED <<local, kernel, queue, running, call, output, reply, calls, files,
                  profile, saved, mixed>>
  BY DEF runtime, places, profiles
<1>2. CallsTypeOK(Command, Output)'
  BY <1>1 DEF TypeOK, CallsTypeOK
<1>3. TypeOK'
  BY <1>1, <1>2 DEF TypeOK
<1>4. Sent' /\ Carried' /\ OneFile' /\ ProfilesWhole'
  BY <1>1 DEF Inv, Sent, Carried, OneFile, ProfilesWhole, Matters, Waiting, Asked
<1>5. Printed' /\ Answered'
  BY <1>1 DEF Inv, Printed, Answered, Matters, Tells, Did, Understood
<1>6. QED
  BY <1>3, <1>4, <1>5 DEF Inv

LEMMA ReadsKeeps ==
  ASSUME TypeOK, Inv, NEW k \in Kernel, PipReads(k)
  PROVE  TypeOK' /\ Inv'
<1>1. /\ running[k] # NoCommand /\ stage' = [stage EXCEPT ![k] = "ready"]
      /\ UNCHANGED <<runtime, installed, files, listed, clashed, profiles>>
  BY DEF PipReads, To
<1>2. UNCHANGED <<local, running>>
  BY <1>1 DEF runtime, places
<1>3. stage'[k] = "ready" /\ \A j \in Kernel \ {k} : stage'[j] = stage[j]
  BY <1>1 DEF TypeOK
<1>4. ASSUME NEW j \in Kernel
      PROVE  /\ running'[j] = NoCommand => stage'[j] = "begun"
             /\ stage'[j] = "done" /\ j \notin clashed' =>
                  Lasts(running'[j], listed'[j], Here(j)')
  BY <1>1, <1>2, <1>3, <1>4 DEF Inv, Kept, Here, Home
<1>5. Kept'
  BY <1>4 DEF Kept
<1>6. QED
  BY <1>1, <1>5, PipKeeps DEF TypeOK

LEMMA ListsKeeps ==
  ASSUME TypeOK, Inv, NEW k \in Kernel, PipLists(k)
  PROVE  TypeOK' /\ Inv'
<1>1. PICK seen \in IF k \in clashed THEN Contents ELSE {Here(k)} :
        listed' = [listed EXCEPT ![k] = seen]
  BY DEF PipLists
<1>2. /\ running[k] # NoCommand /\ stage' = [stage EXCEPT ![k] = "done"]
      /\ Lists(running[k].op)
      /\ UNCHANGED <<runtime, installed, files, clashed, profiles>>
  BY DEF PipLists, To
<1>3. UNCHANGED <<local, running>>
  BY <1>2 DEF runtime, places
<1>4. seen \in Contents /\ (k \notin clashed => seen = Here(k))
  BY <1>1, HereIs
<1>5. /\ stage' \in [Kernel -> {"begun", "ready", "done"}] /\ listed' \in [Kernel -> Contents]
      /\ listed'[k] = seen /\ \A j \in Kernel \ {k} : stage'[j] = stage[j] /\ listed'[j] = listed[j]
  BY <1>1, <1>2, <1>4 DEF TypeOK
<1>6. k \notin clashed => Lasts(running[k], seen, Here(k))
  BY <1>2, <1>4 DEF Lasts, Asked, Did, Present, Nothing
<1>7. ASSUME NEW j \in Kernel \ {k}
      PROVE  /\ running'[j] = NoCommand => stage'[j] = "begun"
             /\ stage'[j] = "done" /\ j \notin clashed' =>
                  Lasts(running'[j], listed'[j], Here(j)')
  BY <1>2, <1>3, <1>5, <1>7 DEF Inv, Kept, Here, Home
<1>8. /\ running'[k] # NoCommand
      /\ k \notin clashed' => Lasts(running'[k], listed'[k], Here(k)')
  BY <1>2, <1>3, <1>5, <1>6 DEF Here, Home
<1>9. Kept'
  BY <1>7, <1>8 DEF Kept
<1>10. QED
  BY <1>2, <1>5, <1>9, PipKeeps DEF TypeOK

(* A change is seen by no other pip there that goes unmarked.              *)
LEMMA ChangesKept ==
  ASSUME TypeOK, Inv, NEW e \in Place, NEW k, NEW new \in Contents, Changes(e, k, new),
         UNCHANGED <<local, running, listed>>,
         \A j \in Kernel \ {k} : stage'[j] = stage[j],
         k \in Kernel => running[k] # NoCommand /\ Home(k) = e,
         k \in Kernel /\ stage'[k] = "done" => Lasts(running[k], listed[k], new)
  PROVE  installed' \in [Place -> Contents] /\ clashed' \subseteq Kernel /\ Kept'
<1>1. /\ installed' \in [Place -> Contents] /\ clashed' \subseteq Kernel
      /\ installed'[e] = new /\ \A x \in Place \ {e} : installed'[x] = installed[x]
  BY DEF Changes, TypeOK, UnderWay
<1>2. \A j \in Kernel : Home(j) \in Place /\ Home(j)' = Home(j) /\ Here(j)' = installed'[Home(j)]
  BY HereIs DEF Home, Here
<1>3. ASSUME NEW j \in Kernel \ {k}
      PROVE  /\ running'[j] = NoCommand => stage'[j] = "begun"
             /\ stage'[j] = "done" /\ j \notin clashed' =>
                  Lasts(running'[j], listed'[j], Here(j)')
  <2>1. running'[j] = NoCommand => stage'[j] = "begun"
    BY <1>3 DEF Inv, Kept
  <2>2. ASSUME stage'[j] = "done", j \notin clashed'
        PROVE  Lasts(running'[j], listed'[j], Here(j)')
    <3>1. stage[j] = "done" /\ j \notin clashed /\ Home(j) # e
      BY <1>3, <2>2 DEF Changes, UnderWay
    <3>2. Here(j)' = Here(j)
      BY <1>1, <1>2, <1>3, <3>1 DEF Here
    <3>3. Lasts(running[j], listed[j], Here(j))
      BY <1>3, <3>1 DEF Inv, Kept
    <3>4. QED
      BY <3>2, <3>3
  <2>3. QED
    BY <2>1, <2>2
<1>4. ASSUME k \in Kernel
      PROVE  /\ running'[k] # NoCommand
             /\ stage'[k] = "done" => Lasts(running'[k], listed'[k], Here(k)')
  BY <1>1, <1>2, <1>4
<1>5. Kept'
  BY <1>3, <1>4 DEF Kept
<1>6. QED
  BY <1>1, <1>5

LEMMA RemovesKeeps ==
  ASSUME TypeOK, Inv, NEW k \in Kernel, PipRemoves(k)
  PROVE  TypeOK' /\ Inv'
<1>1. PICK p \in Package : Changes(Home(k), k, [Here(k) EXCEPT ![p] = Absent])
  BY DEF PipRemoves, Present
<1>2. PICK new : new = [Here(k) EXCEPT ![p] = Absent]
  OBVIOUS
<1>3. new \in Contents /\ Home(k) \in Place
  BY <1>2, HereIs DEF Contents
<1>4. /\ running[k] # NoCommand /\ stage[k] = "ready"
      /\ UNCHANGED <<runtime, files, stage, listed, profiles>>
  BY DEF PipRemoves
<1>5. UNCHANGED <<local, running>>
  BY <1>4 DEF runtime, places
<1>6. Changes(Home(k), k, new)
  BY <1>1, <1>2
<1>7. installed' \in [Place -> Contents] /\ clashed' \subseteq Kernel /\ Kept'
  BY <1>3, <1>4, <1>5, <1>6, ChangesKept
<1>8. QED
  BY <1>4, <1>7, PipKeeps DEF TypeOK

\* A command that succeeds has done what it says.
LEMMA OutcomesDid ==
  ASSUME NEW c \in Command, NEW before \in Contents, NEW new \in Outcomes(c, before)
  PROVE  new \in Contents /\ Did(c, new)
<1>1. CASE c.op = "uninstall"
  <2>1. new = [p \in Package |-> IF c.arg[p] # Absent THEN Absent ELSE before[p]]
    BY <1>1 DEF Outcomes
  <2>2. QED
    BY <1>1, <2>1 DEF Contents, Did, Present
<1>2. CASE c.op # "uninstall"
  <2>1. new \in {x \in Contents : \A p \in Present(c.arg) : x[p] = c.arg[p]}
    BY <1>2 DEF Outcomes
  <2>2. QED
    BY <1>2, <2>1 DEF Did
<1>3. QED
  BY <1>1, <1>2

LEMMA PipChangesKeeps ==
  ASSUME TypeOK, Inv, NEW k \in Kernel, PipChanges(k)
  PROVE  TypeOK' /\ Inv'
<1>1. PICK new \in Outcomes(running[k], Here(k)) : Changes(Home(k), k, new)
  BY DEF PipChanges
<1>2. /\ running[k] # NoCommand /\ stage' = [stage EXCEPT ![k] = "done"]
      /\ ~Lists(running[k].op)
      /\ UNCHANGED <<runtime, files, listed, profiles>>
  BY DEF PipChanges, To
<1>3. UNCHANGED <<local, running>>
  BY <1>2 DEF runtime, places
<1>4. running[k] \in Command /\ Here(k) \in Contents /\ Home(k) \in Place
  BY <1>2, HereIs DEF TypeOK, CallsTypeOK
<1>5. new \in Contents /\ Did(running[k], new)
  BY <1>1, <1>4, OutcomesDid
<1>6. Lasts(running[k], listed[k], new)
  BY <1>2, <1>5 DEF Lasts
<1>7. /\ stage' \in [Kernel -> {"begun", "ready", "done"}]
      /\ \A j \in Kernel \ {k} : stage'[j] = stage[j]
  BY <1>2 DEF TypeOK
<1>8. installed' \in [Place -> Contents] /\ clashed' \subseteq Kernel /\ Kept'
  BY <1>1, <1>2, <1>3, <1>4, <1>5, <1>6, <1>7, ChangesKept
<1>9. QED
  BY <1>2, <1>7, <1>8, PipKeeps DEF TypeOK

\* What is printed tells what was kept until then.
LEMMA PrintsTell ==
  ASSUME TypeOK, Inv, NEW k \in Kernel, NEW done \in BOOLEAN, NEW o, o = Prints(k, done),
         done => stage[k] = "done"
  PROVE  o \in Output /\ (Asked(running[k]) => Tells(running[k], o))
<1>1. listed[k] \in Contents /\ Here(k) \in Contents
  BY HereIs DEF TypeOK
<1>2. Tails(listed[k]) \in Contents
  BY <1>1 DEF Tails, Contents
<1>3. /\ o \in Output /\ o.done = done /\ o.after = Here(k)
      /\ o.clash <=> k \in clashed
      /\ o.whole => o.shown = listed[k]
  <2>1. PICK whole \in BOOLEAN : whole <=> Tails(listed[k]) = listed[k]
    OBVIOUS
  <2>2. PICK clash \in BOOLEAN : clash <=> k \in clashed
    OBVIOUS
  <2>3. o = [done |-> done, shown |-> Tails(listed[k]), whole |-> whole, after |-> Here(k),
             clash |-> clash]
    BY <2>1, <2>2, Zenon DEF Prints
  <2>4. QED
    BY <1>1, <1>2, <2>1, <2>2, <2>3 DEF Output
<1>4. o.done /\ ~o.clash => Lasts(running[k], listed[k], Here(k))
  BY <1>3 DEF Inv, Kept
<1>5. QED
  BY <1>3, <1>4 DEF Lasts, Tells

LEMMA PipEndsKeeps ==
  ASSUME TypeOK, Inv, NEW k \in Kernel, PipSucceeds(k) \/ PipFails(k)
  PROVE  TypeOK' /\ Inv'
<1>1. PICK done \in BOOLEAN :
        /\ done => stage[k] = "done"
        /\ Finish(k, Prints(k, done)) /\ Rests(k)
        /\ UNCHANGED <<queue, installed, files, profiles>>
  BY DEF PipSucceeds, PipFails
<1>2. PICK o : o = Prints(k, done)
  OBVIOUS
<1>3. o \in Output /\ (Asked(running[k]) => Tells(running[k], o))
  BY <1>1, <1>2, PrintsTell
<1>4. Finish(k, o)
  BY <1>1, <1>2
<1>5. QED
  BY <1>1, <1>3, <1>4, FinishKeeps

LEMMA UserCodeKeeps ==
  ASSUME TypeOK, Inv, NEW e \in Place, UserCode(e)
  PROVE  TypeOK' /\ Inv'
<1>1. PICK p \in Package, v \in Version \cup {Absent} : installed' = [installed EXCEPT ![e][p] = v]
  BY DEF UserCode
<1>2. PICK new : new = [installed[e] EXCEPT ![p] = v]
  OBVIOUS
<1>3. new \in Contents /\ installed' = [installed EXCEPT ![e] = new]
  BY <1>1, <1>2 DEF TypeOK, Contents
<1>4. /\ clashed' = clashed \cup UnderWay(e)
      /\ UNCHANGED <<runtime, files, stage, listed, profiles>>
  BY DEF UserCode
<1>5. UNCHANGED <<local, running>>
  BY <1>4 DEF runtime, places
<1>6. PICK x : x \notin Kernel
  BY NoSetContainsEverything
<1>7. Changes(e, x, new)
  BY <1>3, <1>4, <1>6 DEF Changes, UnderWay
<1>8. installed' \in [Place -> Contents] /\ clashed' \subseteq Kernel /\ Kept'
  BY <1>3, <1>4, <1>5, <1>6, <1>7, ChangesKept
<1>9. QED
  BY <1>4, <1>8, PipKeeps DEF TypeOK

-----------------------------------------------------------------------------
(***************************************************************************)
(* The calls.                                                              *)
(***************************************************************************)
\* What the pips have seen does not depend on the calls.
LEMMA KeptStays ==
  ASSUME Inv, UNCHANGED <<local, running, installed, pip>>
  PROVE  Kept'
BY DEF Inv, Kept, Here, Home, pip

LEMMA AskKeeps ==
  ASSUME TypeOK, Inv, NEW op \in Ops, NEW s \in Session, NEW arg \in Contents,
         NEW n \in Profile \cup {NoProfile},
         Lists(op) => arg = Nothing,
         op \in {"save", "apply"} => n \in Profile,
         op = "apply" => n \in mixed \/ arg = saved[n],
         Ask(op, s, arg, n)
  PROVE  TypeOK' /\ Inv'
<1>1. PICK c : c = [id |-> calls + 1, op |-> op, arg |-> arg, profile |-> n]
  OBVIOUS
<1>2. PICK k \in Kernel : k = kernel[s]
  BY DEF TypeOK, CallsTypeOK
<1>3. PICK t : t = Append(queue[k], c)
  OBVIOUS
<1>4. /\ calls < MaxCalls /\ calls' = calls + 1 /\ call' = c /\ ~Waiting
      /\ queue' = [queue EXCEPT ![k] = t]
      /\ reply' = "waiting" /\ output' = NoOutput
      /\ files' = IF FromFile(op) THEN files \cup {calls + 1} ELSE files
      /\ UNCHANGED <<places, running, installed, pip, profiles>>
  BY <1>1, <1>2, <1>3 DEF Ask, Send, MayCall
<1>5. calls \in Nat /\ calls + 1 \in Id
  BY <1>4, MaxCallsAssumption DEF TypeOK, CallsTypeOK, Id
<1>6. /\ c \in Command /\ c.id = calls + 1 /\ Asked(c)
      /\ c.op = "apply" => c.profile \in mixed \/ c.arg = saved[c.profile]
  BY <1>1, <1>5 DEF Command, Asked
<1>7. /\ t \in Seq(Command)
      /\ Len(t) = Len(queue[k]) + 1
      /\ DOMAIN t = DOMAIN queue[k] \cup {Len(t)}
      /\ \A i \in DOMAIN queue[k] : t[i] = queue[k][i]
      /\ t[Len(t)] = c
  BY <1>3, <1>6, InQueue, AtTheEnd
<1>8. queue'[k] = t /\ \A j \in Kernel \ {k} : queue'[j] = queue[j]
  BY <1>4 DEF TypeOK, CallsTypeOK
<1>9. TypeOK'
  <2>1. queue' \in [Kernel -> Seq(Command)] /\ files' \subseteq Id
    BY <1>4, <1>5, <1>7 DEF TypeOK, CallsTypeOK
  <2>2. CallsTypeOK(Command, Output)'
    BY <1>4, <1>5, <1>6, <2>1 DEF TypeOK, CallsTypeOK, places
  <2>3. QED
    BY <1>4, <2>1, <2>2 DEF TypeOK, pip, profiles, places, Place
<1>10. \A d \in Command : d.id \in Nat
  BY DEF Command, Id
<1>11. ASSUME NEW j \in Kernel, NEW i \in DOMAIN queue'[j]
       PROVE  /\ queue'[j][i].id <= calls + 1
              /\ queue'[j][i].id = calls + 1 => queue'[j][i] = c
  <2>1. CASE j = k /\ i = Len(t)
    BY <1>5, <1>6, <1>7, <1>8, <2>1
  <2>2. CASE ~(j = k /\ i = Len(t))
    <3>1. i \in DOMAIN queue[j] /\ queue'[j][i] = queue[j][i]
      BY <1>7, <1>8, <1>11, <2>2
    <3>2. queue[j][i].id <= calls /\ queue[j][i].id \in Nat
      BY <1>11, <3>1, InQueue DEF Inv, Sent
    <3>3. QED
      BY <1>5, <3>1, <3>2
  <2>3. QED
    BY <2>1, <2>2
<1>12. ASSUME NEW j \in Kernel, running[j] # NoCommand
       PROVE  running[j].id <= calls + 1 /\ running[j].id # calls + 1
  <2>1. running[j] \in Command /\ running[j].id <= calls
    BY <1>12 DEF TypeOK, CallsTypeOK, Inv, Sent
  <2>2. QED
    BY <1>5, <1>10, <2>1
<1>13. Sent' /\ Carried'
  <2>1. Sent'
    BY <1>4, <1>11, <1>12 DEF Sent
  <2>2. Carried'
    BY <1>4, <1>6, <1>11, <1>12 DEF Carried, Asked
  <2>3. QED
    BY <2>1, <2>2
<1>14. OneFile'
  BY <1>4, <1>6 DEF Inv, OneFile, Waiting
<1>15. ProfilesWhole'
  BY <1>4, <1>6 DEF Inv, ProfilesWhole, profiles
<1>16. Printed' /\ Answered'
  BY <1>4 DEF Printed, Answered
<1>17. Kept'
  BY <1>4, KeptStays DEF places
<1>18. QED
  BY <1>9, <1>13, <1>14, <1>15, <1>16, <1>17 DEF Inv

LEMMA ReconnectsKeeps ==
  ASSUME TypeOK, Inv, NEW s \in Session, Reconnects(s)
  PROVE  TypeOK' /\ Inv'
<1>1. /\ kernel' \in [Session -> Kernel]
      /\ UNCHANGED <<local, queue, running, call, output, reply, calls>>
      /\ UNCHANGED <<installed, files, pip, profiles>>
  BY DEF Reconnects, Reconnect, TypeOK, CallsTypeOK
<1>2. CallsTypeOK(Command, Output)'
  BY <1>1 DEF TypeOK, CallsTypeOK
<1>3. TypeOK'
  BY <1>1, <1>2 DEF TypeOK, pip, profiles, Place
<1>4. Sent' /\ Carried' /\ OneFile' /\ ProfilesWhole'
  BY <1>1 DEF Inv, Sent, Carried, OneFile, ProfilesWhole, Matters, Waiting, Asked, profiles
<1>5. Printed' /\ Answered'
  BY <1>1 DEF Inv, Printed, Answered, Matters, Tells, Did, Understood
<1>6. Kept'
  BY <1>1, KeptStays
<1>7. QED
  BY <1>3, <1>4, <1>5, <1>6 DEF Inv

LEMMA CallsKeeps ==
  ASSUME TypeOK, Inv, NEW s \in Session, Calls(s)
  PROVE  TypeOK' /\ Inv'
<1>1. Nothing \in Contents
  BY DEF Nothing, Contents
<1>2. \A p \in Package, v \in Version : Only(p, v) \in Contents
  BY DEF Only, Nothing, Contents
<1>3. ASSUME NEW p \in Package, NEW v \in Version, InstallPackage(s, p, v)
      PROVE  TypeOK' /\ Inv'
  BY <1>2, <1>3, AskKeeps DEF InstallPackage, Ops, Lists
<1>4. ASSUME NEW p \in Package, RemovePackage(s, p)
      PROVE  TypeOK' /\ Inv'
  BY <1>2, <1>4, AskKeeps DEF RemovePackage, Ops, Lists
<1>5. ASSUME NEW pins \in Contents \ {Nothing}, InstallRequirements(s, pins)
      PROVE  TypeOK' /\ Inv'
  BY <1>5, AskKeeps DEF InstallRequirements, Ops, Lists
<1>6. ASSUME NEW n \in Profile, SaveProfile(s, n)
      PROVE  TypeOK' /\ Inv'
  BY <1>1, <1>6, AskKeeps DEF SaveProfile, Ops
<1>7. ASSUME NEW n \in Profile, ApplyProfile(s, n)
      PROVE  TypeOK' /\ Inv'
  <2>1. Ask("apply", s, profile[n], n) /\ (n \in mixed \/ profile[n] = saved[n])
    BY <1>7 DEF ApplyProfile, Inv, ProfilesWhole
  <2>2. profile[n] \in Contents
    BY <1>7 DEF ApplyProfile, TypeOK
  <2>3. QED
    BY <2>1, <2>2, AskKeeps DEF Ops, Lists
<1>8. CASE ListPackages(s) \/ ExportRequirements(s)
  BY <1>1, <1>8, AskKeeps DEF ListPackages, ExportRequirements, Ops
<1>9. QED
  BY <1>3, <1>4, <1>5, <1>6, <1>7, <1>8, ReconnectsKeeps DEF Calls

LEMMA RejectKeeps ==
  ASSUME TypeOK, Inv, Reject
  PROVE  TypeOK' /\ Inv'
<1>1. /\ calls < MaxCalls /\ calls' = calls + 1 /\ call' = NoCommand /\ ~Waiting
      /\ reply' = "error" /\ output' = NoOutput
      /\ UNCHANGED <<places, queue, running, installed, files, pip, profiles>>
  BY DEF Reject, Refused, MayCall
<1>2. TypeOK'
  <2>1. CallsTypeOK(Command, Output)'
    BY <1>1, MaxCallsAssumption DEF TypeOK, CallsTypeOK, Id, places
  <2>2. QED
    BY <1>1, <2>1 DEF TypeOK, pip, profiles, places, Place
<1>3. Sent'
  <2>1. \A k \in Kernel : running[k] # NoCommand => running[k].id \in Nat
    BY DEF TypeOK, CallsTypeOK, Command, Id
  <2>2. calls \in Nat
    BY DEF TypeOK, CallsTypeOK, Id
  <2>3. QED
    BY <1>1, <2>1, <2>2, InQueue DEF Inv, Sent
<1>4. OneFile' /\ ProfilesWhole' /\ Carried' /\ Printed' /\ Answered'
  BY <1>1 DEF Inv, OneFile, ProfilesWhole, Carried, Printed, Answered, Matters, profiles
<1>5. Kept'
  BY <1>1, KeptStays DEF places
<1>6. QED
  BY <1>2, <1>3, <1>4, <1>5 DEF Inv

\* The end of a call removes the requirements file.
LEMMA EndCallKeeps ==
  ASSUME TypeOK, Inv, NEW how \in {"ok", "error"}, EndCall(how),
         how = "ok" => output # NoOutput /\ Understood,
         profile' \in [Profile -> Contents \cup {NoProfile}],
         saved' \in [Profile -> Contents], mixed' \subseteq Profile,
         \A n \in Profile \ mixed' : profile'[n] # NoProfile => profile'[n] = saved'[n],
         how = "ok" /\ call.op = "apply" => UNCHANGED <<saved, mixed>>
  PROVE  TypeOK' /\ Inv'
<1>1. /\ reply = "waiting" /\ reply' = how /\ files' = files \ {call.id}
      /\ output' = IF how = "ok" THEN output ELSE NoOutput
      /\ UNCHANGED <<places, queue, running, call, calls, installed, pip>>
  BY DEF EndCall, Reply, Waiting
<1>2. TypeOK'
  <2>1. CallsTypeOK(Command, Output)'
    BY <1>1 DEF TypeOK, CallsTypeOK, places
  <2>2. QED
    BY <1>1, <2>1 DEF TypeOK, pip, places, Place
<1>3. Sent' /\ Carried'
  BY <1>1 DEF Inv, Sent, Carried, Matters, Asked
<1>4. OneFile'
  BY <1>1 DEF Inv, OneFile
<1>5. ProfilesWhole'
  BY <1>1 DEF Inv, ProfilesWhole, Matters
<1>6. Printed' /\ Answered'
  BY <1>1 DEF Inv, Printed, Answered, Matters, Tells, Did, Understood
<1>7. Kept'
  BY <1>1, KeptStays DEF places
<1>8. QED
  BY <1>2, <1>3, <1>4, <1>5, <1>6, <1>7 DEF Inv

(* A save that answers ok was shown the whole list: what is saved is what  *)
(* is installed, if nothing else has changed it while it was listed.       *)
LEMMA AnswerKeeps ==
  ASSUME TypeOK, Inv, Answer
  PROVE  TypeOK' /\ Inv'
<1>1. EndCall("ok") /\ output # NoOutput /\ Understood /\ Waiting
  BY DEF Answer, EndCall, Reply
<1>2. CASE call.op = "save"
  <2>1. /\ profile' = [profile EXCEPT ![call.profile] = output.shown]
        /\ saved' = [saved EXCEPT ![call.profile] = output.after]
        /\ mixed' = IF output.clash THEN mixed \cup {call.profile} ELSE mixed \ {call.profile}
    BY <1>2 DEF Answer
  <2>2. output \in Output /\ Tells(call, output) /\ call.profile \in Profile
    BY <1>1, <1>2 DEF Inv, Printed, Carried, Asked, Matters, Waiting
  <2>3. /\ output.shown \in Contents /\ output.after \in Contents
        /\ ~output.clash => output.shown = output.after
    BY <1>1, <1>2, <2>2 DEF Output, Tells, Understood, Lists
  <2>4. profile' \in [Profile -> Contents \cup {NoProfile}] /\ saved' \in [Profile -> Contents]
    BY <2>1, <2>3 DEF TypeOK
  <2>5. mixed' \subseteq Profile
    BY <2>1, <2>2 DEF TypeOK
  <2>6. ASSUME NEW n \in Profile \ mixed', profile'[n] # NoProfile
        PROVE  profile'[n] = saved'[n]
    <3>1. CASE n = call.profile
      BY <2>1, <2>2, <2>3, <2>6, <3>1 DEF TypeOK
    <3>2. CASE n # call.profile
      <4>1. profile'[n] = profile[n] /\ saved'[n] = saved[n] /\ n \notin mixed
        BY <2>1, <2>6, <3>2 DEF TypeOK
      <4>2. QED
        BY <2>6, <4>1 DEF Inv, ProfilesWhole
    <3>3. QED
      BY <3>1, <3>2
  <2>7. QED
    BY <1>1, <1>2, <2>4, <2>5, <2>6, EndCallKeeps
<1>3. CASE call.op # "save"
  <2>1. UNCHANGED <<profile, saved, mixed>>
    BY <1>3 DEF Answer, profiles
  <2>2. /\ profile' \in [Profile -> Contents \cup {NoProfile}]
        /\ saved' \in [Profile -> Contents] /\ mixed' \subseteq Profile
        /\ \A n \in Profile \ mixed' : profile'[n] # NoProfile => profile'[n] = saved'[n]
    BY <2>1 DEF TypeOK, Inv, ProfilesWhole
  <2>3. QED
    BY <1>1, <2>1, <2>2, EndCallKeeps
<1>4. QED
  BY <1>2, <1>3

LEMMA ErrorKeeps ==
  ASSUME TypeOK, Inv, AnswerError \/ GiveUp
  PROVE  TypeOK' /\ Inv'
<1>1. EndCall("error") /\ UNCHANGED <<profile, saved, mixed>>
  BY DEF AnswerError, GiveUp, profiles
<1>2. /\ profile' \in [Profile -> Contents \cup {NoProfile}]
      /\ saved' \in [Profile -> Contents] /\ mixed' \subseteq Profile
      /\ \A n \in Profile \ mixed' : profile'[n] # NoProfile => profile'[n] = saved'[n]
  BY <1>1 DEF TypeOK, Inv, ProfilesWhole
<1>3. QED
  BY <1>1, <1>2, EndCallKeeps

-----------------------------------------------------------------------------
(***************************************************************************)
(* The specification.                                                      *)
(***************************************************************************)
LEMMA StartsRight == Init => TypeOK /\ Inv
<1> SUFFICES ASSUME Init
             PROVE  TypeOK /\ Inv
  OBVIOUS
<1>1. CallsTypeOK(Command, Output)
  BY MaxCallsAssumption, EmptySeq DEF Init, CallsInit, CallsTypeOK, Id
<1>2. Nothing \in Contents
  BY DEF Nothing, Contents
<1>3. TypeOK
  BY <1>1, <1>2 DEF Init, TypeOK
<1>4. DOMAIN <<>> = {}
  OBVIOUS
<1>5. Kept
  BY DEF Init, Kept
<1>6. Inv
  BY <1>4, <1>5 DEF Init, CallsInit, Inv, Sent, Carried, OneFile, ProfilesWhole, Printed,
     Answered, Matters
<1>7. QED
  BY <1>3, <1>6

LEMMA StepKeeps ==
  ASSUME TypeOK, Inv, [Next]_vars
  PROVE  TypeOK' /\ Inv'
<1>1. ASSUME NEW s \in Session, Calls(s)
      PROVE  TypeOK' /\ Inv'
  BY <1>1, CallsKeeps
<1>2. ASSUME NEW k \in Kernel, Runtime(k)
      PROVE  TypeOK' /\ Inv'
  BY <1>2, StartKeeps, ReadsKeeps, RemovesKeeps, PipChangesKeeps, ListsKeeps, PipEndsKeeps,
     DropKeeps DEF Runtime
<1>3. CASE Reject \/ Answer \/ AnswerError \/ GiveUp
  BY <1>3, RejectKeeps, AnswerKeeps, ErrorKeeps
<1>4. ASSUME NEW k \in Kernel, UserCode(Home(k))
      PROVE  TypeOK' /\ Inv'
  BY <1>4, HereIs, UserCodeKeeps
<1>5. CASE UNCHANGED vars
  <2>1. UNCHANGED <<runtime, installed, files, pip, profiles>>
    BY <1>5 DEF vars
  <2>2. Kept'
    BY <2>1, KeptStays DEF runtime, places
  <2>3. QED
    BY <2>1, <2>2, PipKeeps DEF TypeOK, pip
<1>6. QED
  BY <1>1, <1>2, <1>3, <1>4, <1>5 DEF Next

LEMMA Always == Spec => [](TypeOK /\ Inv)
<1>1. TypeOK /\ Inv /\ [Next]_vars => TypeOK' /\ Inv'
  BY StepKeeps
<1>2. QED
  BY StartsRight, <1>1, PTL DEF Spec

(* The queues hold commands, and every Python and profile is a list of     *)
(* packages with their versions.                                           *)
THEOREM TypeCorrect == Spec => []TypeOK
<1>1. QED
  BY Always, PTL

(* A call that answers ok did what it was asked, and it was so when its    *)
(* command ended, whatever had timed out before it: the pip it heard of    *)
(* was its own, and found its requirements; only another pip or user code  *)
(* at the same Python, while its own ran, can have undone it               *)
(* (environment_manager.py:40-50, 97-114).                                 *)
THEOREM OkIsDone == Spec => []OkMeansDone
<1>1. Inv => OkMeansDone
  BY DEF Inv, Printed, Answered, Matters, Tells, Did, Understood, OkMeansDone
<1>2. QED
  BY <1>1, Always, PTL

(* An applied profile gives back every package that was installed when it  *)
(* was saved, in its version: no list that was cut off was saved; unless   *)
(* others changed the same Python while it was listed or applied           *)
(* (environment_manager.py:44, 66-73).                                     *)
THEOREM AppliesRestore == Spec => []RestoresSaved
<1>1. ASSUME Inv, reply = "ok", call.op = "apply", ~output.clash, call.profile \notin mixed
      PROVE  \A p \in Present(saved[call.profile]) : output.after[p] = saved[call.profile][p]
  <2>1. call.arg = saved[call.profile]
    BY <1>1 DEF Inv, ProfilesWhole, Matters
  <2>2. Did(call, output.after)
    BY <1>1 DEF Inv, Printed, Answered, Matters, Tells, Understood
  <2>3. QED
    BY <1>1, <2>1, <2>2 DEF Did
<1>2. Inv => RestoresSaved
  BY <1>1 DEF RestoresSaved
<1>3. QED
  BY <1>2, Always, PTL

(* Requirements whose caller was told that they failed are not installed   *)
(* afterwards: no pip that comes to read them finds the file               *)
(* (environment_manager.py:113-114).                                       *)
THEOREM NothingLate == Spec => GivenUpInstallsNothing
<1> DEFINE Late(k) == Reads(k) /\ FromFile(running[k].op)
<1>1. ASSUME TypeOK, Inv, NEW k \in Kernel, PipReads(k), FromFile(running[k].op)
      PROVE  Waiting /\ call.id = running[k].id
  BY <1>1 DEF PipReads, Inv, OneFile
<1>2. ASSUME TypeOK, Inv, Next, NEW k \in Kernel, Reads(k)
      PROVE  PipReads(k)
  <2>1. ASSUME NEW j \in Kernel, PipReads(j)
        PROVE  j = k
    BY <1>2, <2>1 DEF PipReads, To, Reads, TypeOK
  <2>2. ASSUME NEW j \in Kernel, PipChanges(j) \/ PipLists(j)
        PROVE  FALSE
    BY <1>2, <2>2 DEF PipChanges, PipLists, To, Reads, TypeOK
  <2>3. ASSUME NEW j \in Kernel, PipSucceeds(j) \/ PipFails(j) \/ KernelDrops(j)
        PROVE  FALSE
    BY <1>2, <2>3 DEF PipSucceeds, PipFails, KernelDrops, Rests, Reads, TypeOK
  <2>4. ASSUME \/ \E j \in Kernel : PipStarts(j) \/ PipRemoves(j) \/ UserCode(Home(j))
               \/ \E s \in Session : Calls(s)
               \/ Reject \/ Answer \/ AnswerError \/ GiveUp
        PROVE  UNCHANGED stage
    BY <2>4 DEF Calls, PipStarts, PipRemoves, UserCode, Reject, Answer, AnswerError, GiveUp,
       EndCall, InstallPackage, RemovePackage, ListPackages, ExportRequirements,
       InstallRequirements, SaveProfile, ApplyProfile, Reconnects, Ask, pip
  <2>5. QED
    BY <1>2, <2>1, <2>2, <2>3, <2>4 DEF Next, Runtime, Reads
<1>3. TypeOK /\ Inv /\ [Next]_vars =>
        [\A k \in Kernel : Late(k) => Waiting /\ call.id = running[k].id]_vars
  BY <1>1, <1>2
<1>4. QED
  BY <1>3, Always, PTL DEF Spec, GivenUpInstallsNothing

-----------------------------------------------------------------------------
(***************************************************************************)
(* Notebooks: what the operators of SequencesExt do to cells.              *)
(***************************************************************************)
LEMMA CellsAre ==
  ASSUME NEW x
  PROVE  x \in Cells <=> x \in Seq(Cell) /\ Len(x) <= MaxCells
<1>1. ASSUME x \in Cells PROVE x \in Seq(Cell) /\ Len(x) <= MaxCells
  <2>1. PICK n \in 0..MaxCells : x \in [1..n -> Cell]
    BY <1>1 DEF Cells, SeqOf
  <2>2. n \in Nat /\ n <= MaxCells
    BY <2>1, MaxCellsAssumption
  <2>3. QED
    BY <2>1, <2>2
<1>2. ASSUME x \in Seq(Cell), Len(x) <= MaxCells PROVE x \in Cells
  <2>1. Len(x) \in 0..MaxCells /\ x \in [1..Len(x) -> Cell]
    BY <1>2, MaxCellsAssumption, LenProperties
  <2>2. QED
    BY <2>1 DEF Cells, SeqOf
<1>3. QED
  BY <1>1, <1>2

(* A sequence with e at i: what came before i stays, the rest moves up.    *)
IsWith(t, q, i, e) ==
  /\ Len(t) = Len(q) + 1
  /\ t[i] = e
  /\ \A k \in 1..Len(q) : t[IF k < i THEN k ELSE k + 1] = q[k]

LEMMA Inserted ==
  ASSUME NEW S, NEW q \in Seq(S), NEW e \in S, NEW i \in 1..(Len(q) + 1),
         NEW t, t = InsertAt(q, i, e)
  PROVE  t \in Seq(S) /\ IsWith(t, q, i, e)
<1>1. Len(q) \in Nat /\ i \in Nat /\ \A k \in 1..Len(q) : q[k] \in S
  BY LenProperties, ElementOfSeq
<1>2. PICK a : a = SubSeq(q, 1, i - 1)
  OBVIOUS
<1>3. PICK b : b = SubSeq(q, i, Len(q))
  OBVIOUS
<1>4. a \in Seq(S) /\ Len(a) = i - 1 /\ \A k \in 1..(i - 1) : a[k] = q[k]
  <2>1. \A k \in 1..(i - 1) : q[k] \in S
    BY <1>1
  <2>2. /\ a \in Seq(S) /\ Len(a) = IF 1 <= i - 1 THEN (i - 1) - 1 + 1 ELSE 0
        /\ \A k \in 1..((i - 1) - 1 + 1) : a[k] = q[1 + k - 1]
    BY <1>1, <1>2, <2>1, SubSeqProperties
  <2>3. QED
    BY <1>1, <2>2
<1>5. /\ b \in Seq(S) /\ Len(b) = Len(q) - i + 1
      /\ \A k \in 1..(Len(q) - i + 1) : b[k] = q[i + k - 1]
  <2>1. \A k \in i..Len(q) : q[k] \in S
    BY <1>1
  <2>2. /\ b \in Seq(S) /\ Len(b) = IF i <= Len(q) THEN Len(q) - i + 1 ELSE 0
        /\ \A k \in 1..(Len(q) - i + 1) : b[k] = q[i + k - 1]
    BY <1>1, <1>3, <2>1, SubSeqProperties
  <2>3. Len(b) = Len(q) - i + 1
    <3>1. CASE i <= Len(q)
      BY <2>2, <3>1
    <3>2. CASE ~(i <= Len(q))
      <4>1. Len(q) - i + 1 = 0
        BY <1>1, <3>2
      <4>2. QED
        BY <2>2, <3>2, <4>1
    <3>3. QED
      BY <3>1, <3>2
  <2>4. QED
    BY <2>2, <2>3
<1>6. PICK m : m = a \o <<e>>
  OBVIOUS
<1>7. /\ m \in Seq(S) /\ Len(m) = i /\ m[i] = e
      /\ \A k \in 1..(i - 1) : m[k] = q[k]
  <2>1. <<e>> \in Seq(S) /\ Len(<<e>>) = 1 /\ <<e>>[1] = e
    OBVIOUS
  <2>2. /\ m \in Seq(S) /\ Len(m) = Len(a) + 1
        /\ \A k \in 1..(Len(a) + 1) : m[k] = IF k <= Len(a) THEN a[k] ELSE <<e>>[k - Len(a)]
    BY <1>4, <1>6, <2>1, ConcatProperties
  <2>3. i \in Nat /\ i >= 1 /\ Len(a) = i - 1 /\ Len(a) + 1 = i
    BY <1>1, <1>4
  <2>4. Len(m) = i
    BY <2>2, <2>3
  <2>5. m[i] = e
    <3>1. i \in 1..(Len(a) + 1) /\ ~(i <= Len(a)) /\ i - Len(a) = 1
      BY <2>3
    <3>2. m[i] = <<e>>[i - Len(a)]
      BY <2>2, <3>1
    <3>3. QED
      BY <2>1, <3>1, <3>2
  <2>6. ASSUME NEW k \in 1..(i - 1) PROVE m[k] = q[k]
    <3>1. k \in 1..(Len(a) + 1) /\ k <= Len(a)
      BY <2>3
    <3>2. m[k] = a[k]
      BY <2>2, <3>1
    <3>3. QED
      BY <1>4, <3>2
  <2>7. QED
    BY <2>2, <2>4, <2>5, <2>6
<1>8. t = m \o b
  BY <1>2, <1>3, <1>6 DEF InsertAt
<1>9. /\ t \in Seq(S) /\ Len(t) = Len(m) + Len(b)
      /\ \A k \in 1..(Len(m) + Len(b)) : t[k] = IF k <= Len(m) THEN m[k] ELSE b[k - Len(m)]
  <2>1. /\ m \o b \in Seq(S) /\ Len(m \o b) = Len(m) + Len(b)
        /\ \A k \in 1..(Len(m) + Len(b)) :
             (m \o b)[k] = IF k <= Len(m) THEN m[k] ELSE b[k - Len(m)]
    BY <1>5, <1>7, ConcatProperties
  <2>2. QED
    BY <1>8, <2>1
<1>10. Len(t) = Len(q) + 1 /\ \A k \in 1..i : t[k] = m[k]
  BY <1>1, <1>5, <1>7, <1>9
<1>11. ASSUME NEW k \in i..Len(q) PROVE t[k + 1] = q[k]
  <2>1. t[k + 1] = b[(k + 1) - i]
    BY <1>1, <1>5, <1>7, <1>9
  <2>2. b[(k + 1) - i] = q[i + ((k + 1) - i) - 1]
    BY <1>1, <1>5
  <2>3. i + ((k + 1) - i) - 1 = k
    BY <1>1
  <2>4. QED
    BY <2>1, <2>2, <2>3
<1>12. \A k \in 1..(i - 1) : t[k] = q[k]
  BY <1>1, <1>7, <1>10
<1>13. Len(t) = Len(q) + 1 /\ t[i] = e
  <2>1. i \in 1..i
    BY <1>1
  <2>2. QED
    BY <1>7, <1>10, <2>1
<1>14. ASSUME NEW k \in 1..Len(q) PROVE t[IF k < i THEN k ELSE k + 1] = q[k]
  <2>1. CASE k < i
    <3>1. k \in 1..(i - 1)
      BY <1>1, <2>1
    <3>2. QED
      BY <1>12, <2>1, <3>1
  <2>2. CASE ~(k < i)
    <3>1. k \in i..Len(q)
      BY <1>1, <2>2
    <3>2. QED
      BY <1>11, <2>2, <3>1
  <2>3. QED
    BY <2>1, <2>2
<1>15. QED
  BY <1>9, <1>13, <1>14 DEF IsWith

(* A sequence without its element i: the rest moves down.                  *)
IsWithout(t, q, i) ==
  /\ Len(t) = Len(q) - 1
  /\ \A k \in 1..(Len(q) - 1) : t[k] = q[IF k < i THEN k ELSE k + 1]

LEMMA Removed ==
  ASSUME NEW S, NEW q \in Seq(S), NEW i \in 1..Len(q), NEW t, t = RemoveAt(q, i)
  PROVE  t \in Seq(S) /\ IsWithout(t, q, i)
<1>1. Len(q) \in Nat /\ i \in Nat /\ \A k \in 1..Len(q) : q[k] \in S
  BY LenProperties, ElementOfSeq
<1>2. PICK a : a = SubSeq(q, 1, i - 1)
  OBVIOUS
<1>3. PICK b : b = SubSeq(q, i + 1, Len(q))
  OBVIOUS
<1>4. a \in Seq(S) /\ Len(a) = i - 1 /\ \A k \in 1..(i - 1) : a[k] = q[k]
  <2>1. \A k \in 1..(i - 1) : q[k] \in S
    BY <1>1
  <2>2. /\ a \in Seq(S) /\ Len(a) = IF 1 <= i - 1 THEN (i - 1) - 1 + 1 ELSE 0
        /\ \A k \in 1..((i - 1) - 1 + 1) : a[k] = q[1 + k - 1]
    BY <1>1, <1>2, <2>1, SubSeqProperties
  <2>3. QED
    BY <1>1, <2>2
<1>5. /\ b \in Seq(S) /\ Len(b) = Len(q) - i
      /\ \A k \in 1..(Len(q) - i) : b[k] = q[i + k]
  <2>1. \A k \in (i + 1)..Len(q) : q[k] \in S
    BY <1>1
  <2>2. /\ b \in Seq(S) /\ Len(b) = IF i + 1 <= Len(q) THEN Len(q) - (i + 1) + 1 ELSE 0
        /\ \A k \in 1..(Len(q) - (i + 1) + 1) : b[k] = q[(i + 1) + k - 1]
    <3>1. i + 1 \in Int /\ Len(q) \in Int
      BY <1>1
    <3>2. QED
      BY <1>3, <2>1, <3>1, SubSeqProperties
  <2>3. Len(b) = Len(q) - i
    BY <1>1, <2>2
  <2>4. ASSUME NEW k \in 1..(Len(q) - i) PROVE b[k] = q[i + k]
    <3>1. k \in 1..(Len(q) - (i + 1) + 1) /\ (i + 1) + k - 1 = i + k
      BY <1>1
    <3>2. QED
      BY <2>2, <3>1
  <2>5. QED
    BY <2>2, <2>3, <2>4
<1>6. t = a \o b
  BY <1>2, <1>3 DEF RemoveAt
<1>7. /\ t \in Seq(S) /\ Len(t) = Len(a) + Len(b)
      /\ \A k \in 1..(Len(a) + Len(b)) : t[k] = IF k <= Len(a) THEN a[k] ELSE b[k - Len(a)]
  <2>1. /\ a \o b \in Seq(S) /\ Len(a \o b) = Len(a) + Len(b)
        /\ \A k \in 1..(Len(a) + Len(b)) :
             (a \o b)[k] = IF k <= Len(a) THEN a[k] ELSE b[k - Len(a)]
    BY <1>4, <1>5, ConcatProperties
  <2>2. QED
    BY <1>6, <2>1
<1>8. Len(t) = Len(q) - 1 /\ \A k \in 1..(i - 1) : t[k] = a[k]
  <2>1. Len(a) + Len(b) = Len(q) - 1
    BY <1>1, <1>4, <1>5
  <2>2. ASSUME NEW k \in 1..(i - 1) PROVE t[k] = a[k]
    <3>1. k \in 1..(Len(a) + Len(b)) /\ k <= Len(a)
      BY <1>1, <1>4, <2>1
    <3>2. QED
      BY <1>7, <3>1
  <2>3. QED
    BY <1>7, <2>1, <2>2
<1>9. ASSUME NEW k \in i..(Len(q) - 1) PROVE t[k] = q[k + 1]
  <2>1. t[k] = b[k - (i - 1)]
    <3>1. k \in 1..(Len(a) + Len(b)) /\ ~(k <= Len(a)) /\ k - Len(a) = k - (i - 1)
      BY <1>1, <1>4, <1>5
    <3>2. QED
      BY <1>7, <3>1
  <2>2. b[k - (i - 1)] = q[i + (k - (i - 1))]
    BY <1>1, <1>5
  <2>3. i + (k - (i - 1)) = k + 1
    BY <1>1
  <2>4. QED
    BY <2>1, <2>2, <2>3
<1>10. QED
  BY <1>1, <1>4, <1>7, <1>8, <1>9 DEF IsWithout

(* Taking out what was put in gives back what was there.                   *)
LEMMA InsertedIsRemoved ==
  ASSUME NEW S, NEW q \in Seq(S), NEW e \in S, NEW i \in 1..(Len(q) + 1),
         NEW t, t = InsertAt(q, i, e)
  PROVE  i \in DOMAIN t /\ RemoveAt(t, i) = q
<1>1. t \in Seq(S) /\ IsWith(t, q, i, e)
  BY Inserted
<1>2. Len(q) \in Nat /\ i \in Nat /\ i \in 1..Len(t) /\ DOMAIN t = 1..Len(t)
  BY <1>1, LenProperties DEF IsWith
<1>3. PICK r : r = RemoveAt(t, i)
  OBVIOUS
<1>4. r \in Seq(S) /\ IsWithout(r, t, i)
  BY <1>1, <1>2, <1>3, Removed
<1>5. Len(r) = Len(q) /\ \A k \in 1..Len(r) : r[k] = q[k]
  BY <1>1, <1>2, <1>4 DEF IsWith, IsWithout
<1>6. QED
  BY <1>2, <1>3, <1>4, <1>5, SeqEqual

(* To append is to insert behind the last.                                 *)
LEMMA AppendedIsInserted ==
  ASSUME NEW S, NEW q \in Seq(S), NEW e \in S, NEW t, t = Append(q, e)
  PROVE  t = InsertAt(q, Len(q) + 1, e)
<1>1. /\ t \in Seq(S) /\ Len(t) = Len(q) + 1
      /\ \A k \in 1..Len(q) : t[k] = q[k]
      /\ t[Len(q) + 1] = e
  BY AppendProperties
<1>2. PICK n \in 1..(Len(q) + 1) : n = Len(q) + 1
  BY LenProperties
<1>3. PICK u : u = InsertAt(q, n, e)
  OBVIOUS
<1>4. u \in Seq(S) /\ IsWith(u, q, n, e)
  BY <1>3, Inserted
<1>5. \A k \in 1..Len(t) : t[k] = u[k]
  BY <1>1, <1>2, <1>4, LenProperties DEF IsWith
<1>6. t = u
  BY <1>1, <1>4, <1>5, SeqEqual DEF IsWith
<1>7. QED
  BY <1>2, <1>3, <1>6

-----------------------------------------------------------------------------
(***************************************************************************)
(* Notebooks: the inductive invariant.                                     *)
(***************************************************************************)
\* A cell that waits in a kernel's queue or runs there.
Lies(c, k) == \/ \E i \in DOMAIN queue[k] : queue[k][i] = c
              \/ running[k] # NoCommand /\ running[k] = c

\* One that the current or last call has sent.
Current(c) == Mine(c) /\ \E k \in Kernel : Lies(c, k)

\* Nothing of the call is with a kernel.
Resting == step = "running" /\ (~Waiting \/ output # NoOutput)

\* OnlyAsked, of cells that may not be written yet.
AskedFor(cells) ==
  CASE tool.op = "add" ->
         \E k \in DOMAIN cells : /\ RemoveAt(cells, k) = loaded
                                 /\ tool.index >= 0 => k = tool.index + 1
    [] tool.op = "delete" ->
         RemoveAt(loaded, tool.index + 1) = cells
    [] tool.op = "edit" ->
         /\ Renames(loaded, cells)
         /\ \A k \in DOMAIN cells : k # tool.index + 1 => cells[k] = loaded[k]
    [] tool.op = "create" -> cells = <<>>
    [] tool.op = "execute_cell" -> cells = loaded
    [] OTHER -> TRUE

(* What a call is about to write is what it was asked for, and until it    *)
(* has, the file is torn.                                                  *)
Working ==
  /\ tool # NoTool => tool.first <= calls + 1
  /\ step # "idle" => tool # NoTool
  /\ step = "running" =>
       /\ tool.op \in {"execute_cell", "execute_notebook"}
       /\ tool.op = "execute_cell" => tool.index + 1 \in DOMAIN loaded
  /\ step = "writing" => book = Torn /\ AskedFor(pending)
  /\ Waiting => /\ step = "running" /\ call \in CellRun
                /\ call.id >= tool.first /\ call.id <= calls

(* Ids never run ahead of the calls, and what the call has sent is behind  *)
(* all that others have.                                                   *)
Placed ==
  \A k \in Kernel : \A c \in CellRun : Lies(c, k) => c.kernel = k /\ c.id <= calls

Behind ==
  \A k \in Kernel :
    /\ \A i \in DOMAIN queue[k] : Mine(queue[k][i]) => i = Len(queue[k])
    /\ running[k] # NoCommand /\ Mine(running[k]) => queue[k] = <<>>

(* A call has one cell with a kernel, which it waits for or has given up.  *)
OneAtATime ==
  /\ \A c, d \in CellRun : Current(c) /\ Current(d) => c = d
  /\ Waiting => \A c \in CellRun : Current(c) => c = call
  /\ Resting => \A c \in CellRun : ~Current(c)

(* A cell is only sent when all before it have come to a good end, and the *)
(* result that the call has been told is that of its cell.                 *)
EarlierRan(k) ==
  tool.op = "execute_notebook" =>
    \A j \in 1..(k - 1) : IsCode(j) => fate[j] \in Accepted

RunInOrder ==
  /\ \A c \in CellRun : Current(c) => /\ tool.session \in {c.session, Default}
                                     /\ EarlierRan(c.at)
                                     /\ c.at \notin ToSet(results)
  /\ \A k \in ToSet(results) : fate[k] \in Accepted
  /\ Waiting /\ output \in Accepted => fate[call.at] = output

NInv == Working /\ OnlyAsked /\ Placed /\ Behind /\ OneAtATime /\ RunInOrder

-----------------------------------------------------------------------------
(***************************************************************************)
(* The kernels.                                                            *)
(***************************************************************************)
LEMMA RunTypes ==
  ASSUME NTypeOK
  PROVE  /\ calls \in Nat
         /\ \A c \in CellRun : c.id \in Nat /\ c.kernel \in Kernel /\ c.at \in Position
         /\ \A k \in Kernel :
              /\ queue[k] \in Seq(CellRun) /\ Len(queue[k]) \in Nat
              /\ DOMAIN queue[k] = 1..Len(queue[k])
              /\ \A i \in DOMAIN queue[k] : queue[k][i] \in CellRun
              /\ running[k] # NoCommand => running[k] \in CellRun
         /\ tool # NoTool => tool.first \in Nat /\ tool.index \in Int
<1>1. calls \in Nat
  BY MaxCallsAssumption DEF NTypeOK, CallsTypeOK, Id
<1>2. \A c \in CellRun : c.id \in Nat /\ c.kernel \in Kernel /\ c.at \in Position
  BY MaxCallsAssumption DEF CellRun, Id
<1>3. ASSUME NEW k \in Kernel
      PROVE  /\ queue[k] \in Seq(CellRun)
             /\ running[k] # NoCommand => running[k] \in CellRun
  BY DEF NTypeOK, CallsTypeOK
<1>4. ASSUME NEW k \in Kernel
      PROVE  /\ Len(queue[k]) \in Nat
             /\ DOMAIN queue[k] = 1..Len(queue[k])
             /\ \A i \in DOMAIN queue[k] : queue[k][i] \in CellRun
  BY <1>3, LenProperties, ElementOfSeq
<1>5. tool # NoTool => tool.first \in Nat /\ tool.index \in Int
  BY MaxCallsAssumption, MaxCellsAssumption DEF NTypeOK, Tool, Index, Id
<1>6. QED
  BY <1>1, <1>2, <1>3, <1>4, <1>5

(* A step of the kernels takes commands away, and at most ends the one of  *)
(* the current call.                                                       *)
Took == \A k \in Kernel : \A c \in CellRun : Lies(c, k)' => Lies(c, k)

EndedOne ==
  \E c \in CellRun, how \in Endings :
    /\ Current(c) /\ \A d \in CellRun : ~Current(d)'
    /\ fate' = [fate EXCEPT ![c.at] = how]
    /\ output' = IF Waiting THEN how ELSE output

LEMMA KernelsKeep ==
  ASSUME NTypeOK, NInv,
         UNCHANGED <<places, call, reply, calls, tool, step, results, outcome, file>>,
         queue' \in [Kernel -> Seq(CellRun)],
         running' \in [Kernel -> CellRun \cup {NoCommand}],
         Took, Behind',
         UNCHANGED <<fate, output>> \/ EndedOne
  PROVE  NTypeOK' /\ NInv'
<1>1. NTypeOK'
  <2>1. fate' \in [Position -> Endings \cup {"none"}] /\ output' \in Endings \cup {NoOutput}
    BY DEF NTypeOK, CallsTypeOK, EndedOne
  <2>2. QED
    BY <2>1 DEF NTypeOK, CallsTypeOK, places, file
<1>2. Working' /\ OnlyAsked'
  BY DEF NInv, Working, OnlyAsked, AskedFor, Renames, Parsed, Waiting, file
<1>3. ASSUME NEW c \in CellRun, Current(c)' PROVE Current(c)
  BY <1>3 DEF Current, Mine, Took
<1>4. Placed'
  BY DEF Placed, Took, NInv
<1>5. OneAtATime'
  <2>1. \A c, d \in CellRun : Current(c)' /\ Current(d)' => c = d
    BY <1>3 DEF NInv, OneAtATime
  <2>2. Waiting' => \A c \in CellRun : Current(c)' => c = call'
    BY <1>3 DEF NInv, OneAtATime, Waiting
  <2>3. Resting' => \A c \in CellRun : ~Current(c)'
    BY <1>3 DEF NInv, OneAtATime, Resting, Waiting, EndedOne
  <2>4. QED
    BY <2>1, <2>2, <2>3 DEF OneAtATime
<1>6. CASE UNCHANGED <<fate, output>>
  BY <1>1, <1>2, <1>3, <1>4, <1>5, <1>6
  DEF NInv, RunInOrder, EarlierRan, IsCode, Waiting, file
<1>7. CASE EndedOne
  <2>1. PICK c \in CellRun, how \in Endings :
          /\ Current(c) /\ \A d \in CellRun : ~Current(d)'
          /\ fate' = [fate EXCEPT ![c.at] = how]
          /\ output' = IF Waiting THEN how ELSE output
    BY <1>7 DEF EndedOne
  <2>2. c.at \in Position /\ c.at \notin ToSet(results) /\ (Waiting => c = call)
    BY <2>1, RunTypes DEF NInv, RunInOrder, OneAtATime
  <2>3. fate'[c.at] = how /\ \A k \in Position \ {c.at} : fate'[k] = fate[k]
    BY <2>1, <2>2 DEF NTypeOK
  <2>4. \A k \in ToSet(results)' : fate'[k] \in Accepted
    <3>1. ToSet(results) \subseteq Position
      BY ElementOfSeq, LenProperties DEF ToSet, NTypeOK
    <3>2. QED
      BY <2>2, <2>3, <3>1 DEF NInv, RunInOrder
  <2>5. Waiting' /\ output' \in Accepted => fate'[call'.at] = output'
    BY <2>1, <2>2, <2>3 DEF Waiting
  <2>6. QED
    BY <1>1, <1>2, <1>4, <1>5, <2>1, <2>4, <2>5 DEF NInv, RunInOrder
<1>8. QED
  BY <1>6, <1>7

LEMMA CellStartsKeeps ==
  ASSUME NTypeOK, NInv, NEW k \in Kernel, CellStarts(k)
  PROVE  NTypeOK' /\ NInv'
<1>1. PICK t : t = Tail(queue[k])
  OBVIOUS
<1>2. /\ queue' = [queue EXCEPT ![k] = t]
      /\ running' = [running EXCEPT ![k] = Head(queue[k])]
      /\ queue[k] # <<>> /\ running[k] = NoCommand
      /\ UNCHANGED <<places, call, output, reply, calls>>
      /\ UNCHANGED <<tool, step, results, outcome, fate, file>>
  BY <1>1 DEF CellStarts, Start
<1>3. queue[k] \in Seq(CellRun) /\ DOMAIN queue[k] = 1..Len(queue[k]) /\ Len(queue[k]) \in Nat
  BY RunTypes
<1>4. /\ Head(queue[k]) \in CellRun /\ 1 \in DOMAIN queue[k] /\ Head(queue[k]) = queue[k][1]
      /\ t \in Seq(CellRun)
      /\ \A i \in DOMAIN t : i + 1 \in DOMAIN queue[k] /\ t[i] = queue[k][i + 1]
  BY <1>1, <1>2, <1>3, FromTheHead
<1>5. Len(t) + 1 = Len(queue[k]) /\ DOMAIN t = 1..Len(t) /\ Len(t) \in Nat
  BY <1>1, <1>2, <1>3, <1>4, HeadTailProperties, LenProperties
<1>6. /\ queue'[k] = t /\ \A r \in Kernel \ {k} : queue'[r] = queue[r]
      /\ running'[k] = queue[k][1] /\ \A r \in Kernel \ {k} : running'[r] = running[r]
  BY <1>2, <1>4 DEF NTypeOK, CallsTypeOK
<1>7. /\ queue' \in [Kernel -> Seq(CellRun)]
      /\ running' \in [Kernel -> CellRun \cup {NoCommand}]
  BY <1>2, <1>4 DEF NTypeOK, CallsTypeOK
<1>8. ASSUME NEW r \in Kernel, NEW c \in CellRun, Lies(c, r)'
      PROVE  Lies(c, r)
  <2>1. CASE r = k
    BY <1>4, <1>6, <1>8, <2>1 DEF Lies
  <2>2. CASE r # k
    BY <1>6, <1>8, <2>2 DEF Lies
  <2>3. QED
    BY <2>1, <2>2
<1>9. Behind'
  <2>1. ASSUME NEW r \in Kernel, r # k
        PROVE  /\ \A i \in DOMAIN queue'[r] : Mine(queue[r][i])' => i = Len(queue'[r])
               /\ running'[r] # NoCommand /\ Mine(running[r])' => queue'[r] = <<>>
    BY <1>2, <1>6, <2>1 DEF NInv, Behind, Mine
  <2>2. ASSUME NEW i \in DOMAIN queue'[k], Mine(queue[k][i])' PROVE i = Len(queue'[k])
    <3>1. i + 1 \in DOMAIN queue[k] /\ Mine(queue[k][i + 1])
      BY <1>2, <1>4, <1>6, <2>2 DEF Mine
    <3>2. i + 1 = Len(queue[k]) /\ i \in Nat
      BY <1>5, <1>6, <2>2, <3>1 DEF NInv, Behind
    <3>3. \A m, n \in Nat : m + 1 = n + 1 => m = n
      OBVIOUS
    <3>4. i = Len(t)
      BY <1>5, <3>2, <3>3
    <3>5. QED
      BY <1>6, <3>4
  <2>3. ASSUME Mine(running[k])' PROVE queue'[k] = <<>>
    <3>1. Mine(queue[k][1])
      BY <1>2, <1>6, <2>3 DEF Mine
    <3>2. Len(t) = 0
      BY <1>4, <1>5, <3>1 DEF NInv, Behind
    <3>3. QED
      BY <1>4, <1>6, <3>2, EmptySeq
  <2>4. QED
    BY <2>1, <2>2, <2>3 DEF Behind
<1>10. QED
  BY <1>2, <1>7, <1>8, <1>9, KernelsKeep DEF Took

(* What a kernel runs to its end, and the queue with it, where the kernel  *)
(* drops it.                                                               *)
LEMMA LessLies ==
  ASSUME NTypeOK, NInv, NEW k \in Kernel, UNCHANGED tool,
         running' = [running EXCEPT ![k] = NoCommand],
         queue' \in {queue, [queue EXCEPT ![k] = <<>>]}
  PROVE  /\ queue' \in [Kernel -> Seq(CellRun)]
         /\ running' \in [Kernel -> CellRun \cup {NoCommand}]
         /\ Took /\ Behind'
<1>1. /\ queue' \in [Kernel -> Seq(CellRun)]
      /\ running' \in [Kernel -> CellRun \cup {NoCommand}]
  <2>1. running' \in [Kernel -> CellRun \cup {NoCommand}]
    BY DEF NTypeOK, CallsTypeOK
  <2>2. PICK none \in Seq(CellRun) : none = <<>>
    BY EmptySeq
  <2>3. queue' = queue \/ queue' = [queue EXCEPT ![k] = none]
    BY <2>2
  <2>4. queue' \in [Kernel -> Seq(CellRun)]
    BY <2>3 DEF NTypeOK, CallsTypeOK
  <2>5. QED
    BY <2>1, <2>4
<1>2. /\ \A r \in Kernel : queue'[r] \in {queue[r], <<>>}
      /\ \A r \in Kernel : running'[r] \in {running[r], NoCommand}
  BY DEF NTypeOK, CallsTypeOK
<1>3. Took
  BY <1>2 DEF Took, Lies
<1>4. Behind'
  <2>1. ASSUME NEW r \in Kernel, NEW i \in DOMAIN queue'[r], Mine(queue[r][i])'
        PROVE  i = Len(queue'[r])
    <3>1. queue'[r] = queue[r]
      BY <1>2, <2>1
    <3>2. QED
      BY <2>1, <3>1 DEF NInv, Behind, Mine
  <2>2. ASSUME NEW r \in Kernel, running'[r] # NoCommand, Mine(running[r])'
        PROVE  queue'[r] = <<>>
    <3>1. running'[r] = running[r]
      BY <1>2, <2>2
    <3>2. QED
      BY <1>2, <2>2, <3>1 DEF NInv, Behind, Mine
  <2>3. QED
    BY <2>1, <2>2 DEF Behind
<1>5. QED
  BY <1>1, <1>3, <1>4

LEMMA CellDropsKeeps ==
  ASSUME NTypeOK, NInv, NEW k \in Kernel, CellDrops(k)
  PROVE  NTypeOK' /\ NInv'
<1>1. /\ running' = [running EXCEPT ![k] = NoCommand]
      /\ queue' \in {queue, [queue EXCEPT ![k] = <<>>]}
      /\ UNCHANGED <<places, call, output, reply, calls>>
      /\ UNCHANGED <<tool, step, results, outcome, fate, file>>
  BY DEF CellDrops, Drop, Abort
<1>2. QED
  BY <1>1, LessLies, KernelsKeep

(* A cell that comes to its end is the only one of its call.               *)
LEMMA CellFinishesKeeps ==
  ASSUME NTypeOK, NInv, NEW k \in Kernel, NEW how \in Endings, CellFinishes(k, how)
  PROVE  NTypeOK' /\ NInv'
<1>1. PICK c : c = running[k]
  OBVIOUS
<1>2. /\ c # NoCommand /\ running' = [running EXCEPT ![k] = NoCommand]
      /\ output' = IF Waiting /\ call.id = c.id THEN how ELSE output
      /\ UNCHANGED <<places, call, reply, calls, queue, tool, step, results, outcome, file>>
      /\ fate' = [p \in Position |-> IF p \in (IF Mine(c) THEN {c.at} ELSE {})
                                       THEN how ELSE fate[p]]
  BY <1>1 DEF CellFinishes, Finish, Reports, Marks
<1>3. c \in CellRun /\ c.at \in Position /\ c.id \in Nat
  BY <1>1, <1>2, RunTypes
<1>4. /\ queue' \in [Kernel -> Seq(CellRun)]
      /\ running' \in [Kernel -> CellRun \cup {NoCommand}]
      /\ Took /\ Behind'
  BY <1>2, LessLies
<1>5. CASE Mine(c)
  <2>1. Current(c)
    BY <1>1, <1>2, <1>5 DEF Current, Lies
  <2>2. fate' = [fate EXCEPT ![c.at] = how]
    <3>1. fate \in [Position -> Endings \cup {"none"}]
      BY DEF NTypeOK
    <3>2. QED
      BY <1>2, <1>3, <1>5, <3>1
  <2>3. output' = IF Waiting THEN how ELSE output
    BY <1>2, <1>3, <2>1 DEF NInv, OneAtATime
  <2>4. ASSUME NEW d \in CellRun PROVE ~Current(d)'
    <3>1. SUFFICES ASSUME Current(d)' PROVE FALSE
      OBVIOUS
    <3>2. PICK r \in Kernel : Lies(d, r)' /\ Lies(d, r)
      BY <1>4, <3>1 DEF Current, Took
    <3>3. Mine(d)
      BY <1>2, <3>1 DEF Current, Mine
    <3>4. d = c
      BY <1>3, <2>1, <3>2, <3>3 DEF Current, NInv, OneAtATime
    <3>5. r = k
      <4>1. Lies(c, k)
        BY <1>1, <1>2 DEF Lies
      <4>2. QED
        BY <1>3, <3>2, <3>4, <4>1 DEF NInv, Placed
    <3>6. queue'[k] = <<>> /\ running'[k] = NoCommand
      BY <1>1, <1>2, <1>5 DEF NInv, Behind, NTypeOK, CallsTypeOK
    <3>7. QED
      BY <3>2, <3>5, <3>6 DEF Lies
  <2>5. EndedOne
    BY <1>3, <2>1, <2>2, <2>3, <2>4 DEF EndedOne
  <2>6. QED
    BY <1>2, <1>4, <2>5, KernelsKeep
<1>6. CASE ~Mine(c)
  <2>1. fate' = fate
    BY <1>2, <1>6 DEF NTypeOK
  <2>2. ~(Waiting /\ call.id = c.id)
    BY <1>2, <1>3, <1>6 DEF Mine, NInv, Working
  <2>3. output' = output
    BY <1>2, <2>2
  <2>4. QED
    BY <1>2, <1>4, <2>1, <2>3, KernelsKeep
<1>7. QED
  BY <1>5, <1>6

LEMMA CellAbortsKeeps ==
  ASSUME NTypeOK, NInv, NEW k \in Kernel, CellAborts(k)
  PROVE  NTypeOK' /\ NInv'
<1> DEFINE mine == {i \in DOMAIN queue[k] : Mine(queue[k][i])}
<1>1. /\ ~Mine(running[k])
      /\ running' = [running EXCEPT ![k] = NoCommand]
      /\ queue' = [queue EXCEPT ![k] = <<>>]
      /\ fate' = [p \in Position |-> IF p \in {queue[k][i].at : i \in mine}
                                       THEN "nothing" ELSE fate[p]]
      /\ output' = IF Waiting /\ mine # {} THEN "nothing" ELSE output
      /\ UNCHANGED <<places, call, reply, calls, tool, step, results, outcome, file>>
  BY DEF CellAborts, Marks
<1>2. /\ queue' \in [Kernel -> Seq(CellRun)]
      /\ running' \in [Kernel -> CellRun \cup {NoCommand}]
      /\ Took /\ Behind'
  BY <1>1, LessLies
<1>3. CASE mine = {}
  <2>1. fate' = fate
    BY <1>1, <1>3 DEF NTypeOK
  <2>2. output' = output
    BY <1>1, <1>3
  <2>3. QED
    BY <1>1, <1>2, <2>1, <2>2, KernelsKeep
<1>4. CASE mine # {}
  <2>1. PICK n \in DOMAIN queue[k] : Mine(queue[k][n])
    BY <1>4
  <2>2. PICK c \in CellRun : c = queue[k][n]
    BY <2>1, RunTypes
  <2>3. Current(c) /\ c.at \in Position /\ Lies(c, k)
    BY <2>1, <2>2, RunTypes DEF Current, Lies
  <2>4. {queue[k][i].at : i \in mine} = {c.at}
    <3>1. ASSUME NEW i \in mine PROVE i = n
      BY <2>1 DEF NInv, Behind
    <3>2. QED
      BY <2>1, <2>2, <3>1
  <2>5. fate' = [fate EXCEPT ![c.at] = "nothing"]
    <3>1. fate \in [Position -> Endings \cup {"none"}]
      BY DEF NTypeOK
    <3>2. fate' = [p \in Position |-> IF p \in {c.at} THEN "nothing" ELSE fate[p]]
      BY <1>1, <2>4
    <3>3. QED
      BY <2>3, <3>1, <3>2
  <2>6. ASSUME NEW d \in CellRun PROVE ~Current(d)'
    <3>1. SUFFICES ASSUME Current(d)' PROVE FALSE
      OBVIOUS
    <3>2. PICK r \in Kernel : Lies(d, r)' /\ Lies(d, r)
      BY <1>2, <3>1 DEF Current, Took
    <3>3. Mine(d)
      BY <1>1, <3>1 DEF Current, Mine
    <3>4. d = c
      BY <2>3, <3>2, <3>3 DEF Current, NInv, OneAtATime
    <3>5. r = k
      BY <2>3, <3>2, <3>4 DEF NInv, Placed
    <3>6. queue'[k] = <<>> /\ running'[k] = NoCommand
      BY <1>1 DEF NTypeOK, CallsTypeOK
    <3>7. QED
      BY <3>2, <3>5, <3>6 DEF Lies
  <2>7. EndedOne
    <3>1. output' = IF Waiting THEN "nothing" ELSE output
      BY <1>1, <1>4
    <3>2. "nothing" \in Endings
      BY DEF Endings
    <3>3. QED
      BY <2>3, <2>5, <2>6, <3>1, <3>2 DEF EndedOne
  <2>8. QED
    BY <1>1, <1>2, <2>7, KernelsKeep
<1>5. QED
  BY <1>3, <1>4

(* Steps that leave the kernels and their queues alone.                    *)
LEMMA LinesStay ==
  ASSUME NTypeOK, NInv, UNCHANGED <<queue, running, tool>>,
         calls' \in {calls, calls + 1}
  PROVE  /\ Placed' /\ Behind'
         /\ \A c \in CellRun : Current(c)' => Current(c)
<1>1. \A k \in Kernel : \A c \in CellRun : Lies(c, k)' => Lies(c, k)
  BY DEF Lies
<1>2. Placed'
  <2>1. \A c \in CellRun : c.id <= calls => c.id <= calls'
    BY RunTypes
  <2>2. QED
    BY <1>1, <2>1 DEF NInv, Placed
<1>3. Behind'
  BY DEF NInv, Behind, Mine
<1>4. QED
  BY <1>1, <1>2, <1>3 DEF Current, Mine

LEMMA NotebookReconnectsKeeps ==
  ASSUME NTypeOK, NInv, NEW s \in Session, NotebookReconnects(s)
  PROVE  NTypeOK' /\ NInv'
<1>1. /\ kernel' \in [Session -> Kernel]
      /\ UNCHANGED <<local, queue, running, call, output, reply, calls>>
      /\ UNCHANGED <<tool, step, results, outcome, fate, file>>
  BY DEF NotebookReconnects, Reconnect, NTypeOK, CallsTypeOK
<1>2. NTypeOK'
  BY <1>1 DEF NTypeOK, CallsTypeOK, file
<1>3. Placed' /\ Behind' /\ \A c \in CellRun : Current(c)' => Current(c)
  BY <1>1, LinesStay
<1>4. Working' /\ OnlyAsked'
  BY <1>1 DEF NInv, Working, OnlyAsked, AskedFor, Renames, Parsed, Waiting, file
<1>5. OneAtATime'
  BY <1>1, <1>3 DEF NInv, OneAtATime, Resting, Waiting
<1>6. RunInOrder'
  BY <1>1, <1>3 DEF NInv, RunInOrder, EarlierRan, IsCode, Waiting, file
<1>7. QED
  BY <1>2, <1>3, <1>4, <1>5, <1>6 DEF NInv

LEMMA KernelsStepKeeps ==
  ASSUME NTypeOK, NInv, Kernels
  PROVE  NTypeOK' /\ NInv'
<1>1. ASSUME NEW k \in Kernel, CellEnds(k) \/ CellRaises(k) \/ CellRaisesUnheard(k)
      PROVE  NTypeOK' /\ NInv'
  BY <1>1, CellFinishesKeeps DEF CellEnds, CellRaises, CellRaisesUnheard, Endings
<1>2. QED
  BY <1>1, CellStartsKeeps, CellAbortsKeeps, CellDropsKeeps, NotebookReconnectsKeeps DEF Kernels

-----------------------------------------------------------------------------
(***************************************************************************)
(* Execution.                                                              *)
(***************************************************************************)
LEMMA LeastElement ==
  ASSUME NEW T \in SUBSET Nat, T # {}
  PROVE  Min(T) \in T /\ \A m \in T : Min(T) <= m
<1>1. PICK k \in T : \A m \in T : ~(<<m, k>> \in OpToRel(<, Nat))
  BY NatLessThanWellFounded, WFMin
<1>2. \A m \in T : ~(m < k)
  BY <1>1 DEF OpToRel
<1>3. \E x \in T : \A y \in T : x <= y
  BY <1>2
<1>4. QED
  BY <1>3 DEF Min

LEMMA ToRunTypes ==
  ASSUME NTypeOK, NInv, step = "running"
  PROVE  /\ loaded \in Seq(Cell) /\ DOMAIN loaded \subseteq Position
         /\ ToRun \subseteq DOMAIN loaded /\ ToRun \subseteq Nat
         /\ ToRun \cap ToSet(results) = {}
<1>1. /\ loaded \in Seq(Cell) /\ Len(loaded) \in Nat /\ Len(loaded) <= MaxCells
      /\ DOMAIN loaded = 1..Len(loaded)
  BY CellsAre, LenProperties DEF NTypeOK
<1>2. DOMAIN loaded \subseteq Position /\ DOMAIN loaded \subseteq Nat
  BY <1>1, MaxCellsAssumption DEF Position
<1>3. ToRun \subseteq DOMAIN loaded
  BY DEF ToRun, NInv, Working
<1>4. results = <<>> => ToSet(results) = {}
  BY DEF ToSet
<1>5. ToRun \cap ToSet(results) = {}
  BY <1>4 DEF ToRun
<1>6. QED
  BY <1>1, <1>2, <1>3, <1>5

LEMMA RunCellKeeps ==
  ASSUME NTypeOK, NInv, NEW s \in Session, RunCell(s)
  PROVE  NTypeOK' /\ NInv'
<1>0. PICK k \in Kernel : k = kernel[s]
  BY DEF NTypeOK, CallsTypeOK
<1>1. PICK c : c = [id |-> calls + 1, session |-> s, kernel |-> k, at |-> Min(ToRun)]
  OBVIOUS
<1>2. PICK t : t = Append(queue[k], c)
  OBVIOUS
<1>3. /\ step = "running" /\ ~Waiting /\ calls < MaxCalls /\ ToRun # {}
      /\ tool.session \in {s, Default}
      /\ calls' = calls + 1 /\ call' = c /\ reply' = "waiting" /\ output' = NoOutput
      /\ queue' = [queue EXCEPT ![k] = t]
      /\ UNCHANGED <<places, running, tool, step, results, outcome, fate, file>>
  BY <1>0, <1>1, <1>2 DEF RunCell, Send, MayCall
<1>4. /\ Min(ToRun) \in ToRun /\ \A m \in ToRun : Min(ToRun) <= m
      /\ ToRun \subseteq DOMAIN loaded /\ DOMAIN loaded \subseteq Position
      /\ ToRun \cap ToSet(results) = {}
  BY <1>3, ToRunTypes, LeastElement
<1>5. /\ c \in CellRun /\ c.id = calls + 1 /\ c.kernel = k /\ c.session = s /\ c.at = Min(ToRun)
      /\ calls \in Nat /\ calls + 1 \in Id
  BY <1>1, <1>3, <1>4, MaxCallsAssumption DEF CellRun, Id, NTypeOK, CallsTypeOK
<1>6. /\ queue[k] \in Seq(CellRun)
      /\ t \in Seq(CellRun) /\ DOMAIN t = DOMAIN queue[k] \cup {Len(t)}
      /\ \A i \in DOMAIN queue[k] : t[i] = queue[k][i]
      /\ t[Len(t)] = c
  <2>1. queue[k] \in Seq(CellRun)
    BY RunTypes
  <2>2. QED
    BY <1>2, <1>5, <2>1, AtTheEnd
<1>7. queue'[k] = t /\ \A r \in Kernel \ {k} : queue'[r] = queue[r]
  BY <1>3 DEF NTypeOK, CallsTypeOK
<1>8. NTypeOK'
  BY <1>3, <1>5, <1>6 DEF NTypeOK, CallsTypeOK, places, file
<1>9. ASSUME NEW d \in CellRun, NEW r \in Kernel, Lies(d, r)'
      PROVE  Lies(d, r) \/ (r = k /\ d = c)
  <2>1. CASE \E i \in DOMAIN queue'[r] : queue'[r][i] = d
    <3>1. PICK i \in DOMAIN queue'[r] : queue'[r][i] = d
      BY <2>1
    <3>2. CASE r = k
      <4>1. i \in DOMAIN queue[k] \/ i = Len(t)
        BY <1>6, <1>7, <3>1, <3>2
      <4>2. CASE i \in DOMAIN queue[k]
        BY <1>6, <1>7, <3>1, <3>2, <4>2 DEF Lies
      <4>3. CASE i = Len(t)
        BY <1>6, <1>7, <3>1, <3>2, <4>3
      <4>4. QED
        BY <4>1, <4>2, <4>3
    <3>3. CASE r # k
      BY <1>7, <3>1, <3>3 DEF Lies
    <3>4. QED
      BY <3>2, <3>3
  <2>2. CASE running'[r] # NoCommand /\ running'[r] = d
    BY <1>3, <2>2 DEF Lies
  <2>3. QED
    BY <1>9, <2>1, <2>2 DEF Lies
<1>10. ASSUME NEW d \in CellRun PROVE ~Current(d)
  BY <1>3 DEF NInv, OneAtATime, Resting
<1>11. ASSUME NEW d \in CellRun, Current(d)' PROVE d = c
  BY <1>3, <1>9, <1>10, <1>11 DEF Current, Mine
<1>12. Working' /\ OnlyAsked'
  <2>1. tool # NoTool /\ tool.first \in Nat /\ tool.first <= calls + 1
    BY <1>3, RunTypes DEF NInv, Working
  <2>2. Working'
    BY <1>3, <1>5, <2>1 DEF NInv, Working, Waiting, file
  <2>3. OnlyAsked'
    BY <1>3 DEF OnlyAsked
  <2>4. QED
    BY <2>2, <2>3
<1>13. Placed'
  <2>1. ASSUME NEW d \in CellRun, NEW r \in Kernel, Lies(d, r)
        PROVE  d.kernel = r /\ d.id <= calls + 1
    BY <1>5, <2>1, RunTypes DEF NInv, Placed
  <2>2. QED
    BY <1>3, <1>5, <1>9, <2>1 DEF Placed
<1>14. Behind'
  <2>1. ASSUME NEW r \in Kernel, NEW i \in DOMAIN queue[r] PROVE ~Mine(queue[r][i])
    BY <1>10, <2>1, RunTypes DEF Current, Lies
  <2>2. ASSUME NEW r \in Kernel, running[r] # NoCommand PROVE ~Mine(running[r])
    BY <1>10, <2>2, RunTypes DEF Current, Lies
  <2>3. ASSUME NEW r \in Kernel, NEW i \in DOMAIN queue'[r], Mine(queue[r][i])'
        PROVE  i = Len(queue'[r])
    <3>1. Mine(queue'[r][i])
      BY <1>3, <2>3 DEF Mine
    <3>2. r = k
      BY <1>7, <2>1, <3>1
    <3>3. i \notin DOMAIN queue[k]
      BY <1>6, <1>7, <2>1, <3>1, <3>2
    <3>4. QED
      BY <1>6, <1>7, <2>3, <3>2, <3>3
  <2>4. ASSUME NEW r \in Kernel PROVE ~(running'[r] # NoCommand /\ Mine(running[r])')
    BY <1>3, <2>2 DEF Mine
  <2>5. QED
    BY <2>3, <2>4 DEF Behind
<1>15. OneAtATime'
  BY <1>3, <1>11 DEF OneAtATime, Resting, Waiting
<1>16. EarlierRan(c.at)' /\ c.at \notin ToSet(results')
  <2>1. c.at \notin ToSet(results')
    BY <1>3, <1>4, <1>5
  <2>2. ASSUME tool.op = "execute_notebook", NEW j \in 1..(c.at - 1), IsCode(j)
        PROVE  fate[j] \in Accepted
    <3>1. c.at \in DOMAIN loaded /\ c.at \in Nat /\ j \in Nat /\ j < c.at /\ j >= 1
      BY <1>4, <1>5, <2>2, MaxCellsAssumption DEF Position
    <3>2. j \in DOMAIN loaded
      BY <1>3, <3>1, ToRunTypes, LenProperties
    <3>3. j \notin ToRun
      BY <1>4, <1>5, <3>1
    <3>4. j \in ToSet(results)
      BY <2>2, <3>2, <3>3 DEF ToRun
    <3>5. QED
      BY <3>4 DEF NInv, RunInOrder
  <2>3. QED
    BY <1>3, <2>1, <2>2 DEF EarlierRan, IsCode, file
<1>17. RunInOrder'
  <2>1. output' \notin Accepted
    BY <1>3, NoneAssumption DEF Accepted, Endings
  <2>2. \A m \in ToSet(results)' : fate'[m] \in Accepted
    BY <1>3 DEF NInv, RunInOrder
  <2>3. tool'.session \in {c.session, Default}
    BY <1>3, <1>5
  <2>4. QED
    BY <1>11, <1>16, <2>1, <2>2, <2>3 DEF RunInOrder
<1>18. QED
  BY <1>8, <1>12, <1>13, <1>14, <1>15, <1>17 DEF NInv

LEMMA CellReturnsKeeps ==
  ASSUME NTypeOK, NInv, CellReturns
  PROVE  NTypeOK' /\ NInv'
<1>1. /\ output \in Accepted /\ Waiting /\ reply' = "ok" /\ results' = Append(results, call.at)
      /\ UNCHANGED <<places, queue, running, call, output, calls>>
      /\ UNCHANGED <<tool, step, outcome, fate, file>>
  BY DEF CellReturns, Reply
<1>2. output # NoOutput /\ step = "running" /\ call \in CellRun /\ call.at \in Position
  BY <1>1, NoneAssumption, RunTypes
  DEF Accepted, Endings, NInv, Working, NTypeOK, CallsTypeOK
<1>3. results' \in Seq(Position) /\ ToSet(results') = ToSet(results) \cup {call.at}
  <2>1. PICK t : t = Append(results, call.at)
    OBVIOUS
  <2>2. /\ t \in Seq(Position) /\ DOMAIN t = DOMAIN results \cup {Len(t)}
        /\ \A i \in DOMAIN results : t[i] = results[i]
        /\ t[Len(t)] = call.at
    BY <1>2, <2>1, AtTheEnd DEF NTypeOK
  <2>3. ToSet(t) = ToSet(results) \cup {call.at}
    BY <2>2 DEF ToSet
  <2>4. QED
    BY <1>1, <2>1, <2>2, <2>3
<1>4. NTypeOK'
  BY <1>1, <1>3 DEF NTypeOK, CallsTypeOK, places, file
<1>5. Placed' /\ Behind' /\ \A c \in CellRun : ~Current(c)'
  BY <1>1, <1>2, LinesStay DEF NInv, OneAtATime, Resting
<1>6. Working' /\ OnlyAsked'
  BY <1>1, <1>2 DEF NInv, Working, OnlyAsked, Waiting, file
<1>7. OneAtATime'
  BY <1>5 DEF OneAtATime
<1>8. RunInOrder'
  <2>1. fate[call.at] \in Accepted
    BY <1>1 DEF NInv, RunInOrder
  <2>2. \A k \in ToSet(results') : fate'[k] \in Accepted
    BY <1>1, <1>3, <2>1 DEF NInv, RunInOrder
  <2>3. ~Waiting'
    BY <1>1 DEF Waiting
  <2>4. QED
    BY <1>5, <2>2, <2>3 DEF RunInOrder
<1>9. QED
  BY <1>4, <1>5, <1>6, <1>7, <1>8 DEF NInv

(* The steps after which the call is over or writes.                       *)
LEMMA OverKeeps ==
  ASSUME NTypeOK, NInv,
         UNCHANGED <<places, queue, running, tool, results, fate, loaded>>,
         NTypeOK', Working', OnlyAsked', calls' \in {calls, calls + 1},
         ~Waiting', step' # "running"
  PROVE  NInv'
<1>1. Placed' /\ Behind' /\ \A c \in CellRun : Current(c)' => Current(c)
  BY LinesStay
<1>2. OneAtATime'
  BY <1>1 DEF NInv, OneAtATime, Resting
<1>3. RunInOrder'
  BY <1>1 DEF NInv, RunInOrder, EarlierRan, IsCode
<1>4. QED
  BY <1>1, <1>2, <1>3 DEF NInv

Resourced(t, cells, k, text) == t = [cells EXCEPT ![k].source = text]

DiffersAt(t, cells, k) ==
  /\ DOMAIN t = DOMAIN cells
  /\ t[k].type = cells[k].type
  /\ \A j \in DOMAIN cells \ {k} : t[j] = cells[j]

LEMMA EditedIn ==
  ASSUME NEW cells \in Cells, NEW k \in DOMAIN cells, NEW text \in Text,
         NEW t, Resourced(t, cells, k, text)
  PROVE  t \in Cells /\ DiffersAt(t, cells, k)
<1>1. cells \in Seq(Cell) /\ Len(cells) <= MaxCells
  BY CellsAre
<1>2. cells[k] \in Cell
  BY <1>1, ElementOfSeq, LenProperties
<1>3. PICK e : e = [cells[k] EXCEPT !.source = text]
  OBVIOUS
<1>4. e \in Cell /\ e.type = cells[k].type
  BY <1>2, <1>3 DEF Cell
<1>5. t = [cells EXCEPT ![k] = e]
  BY <1>3 DEF Resourced
<1>6. t \in Seq(Cell) /\ Len(t) = Len(cells)
  BY <1>1, <1>4, <1>5, ExceptSeq, LenProperties
<1>7. t \in Cells
  BY <1>1, <1>6, CellsAre
<1>8. QED
  BY <1>1, <1>4, <1>5, <1>7 DEF DiffersAt

LEMMA NoCellsIn == <<>> \in Cells
<1>1. PICK e : e = <<>>
  OBVIOUS
<1>2. e \in Seq(Cell) /\ Len(e) = 0
  BY <1>1
<1>3. Len(e) <= MaxCells
  BY <1>2, MaxCellsAssumption
<1>4. e \in Cells
  BY <1>2, <1>3, CellsAre
<1>5. QED
  BY <1>1, <1>4

LEMMA ExecutionKeeps ==
  ASSUME NTypeOK, NInv, Execution
  PROVE  NTypeOK' /\ NInv'
<1>1. ASSUME NEW s \in Session, RunCell(s) PROVE NTypeOK' /\ NInv'
  BY <1>1, RunCellKeeps
<1>2. CASE CellReturns
  BY <1>2, CellReturnsKeeps
<1>3. \A how \in {"ok", "error"} : Ends(how) =>
        pending' \in Cells /\ UNCHANGED <<tool, book, loaded>> /\ step' = "idle" /\ outcome' = how
  BY NoCellsIn DEF Ends
<1>4. step = "running" => tool # NoTool /\ tool.op \in {"execute_cell", "execute_notebook"}
  BY DEF NInv, Working
<1>5. CASE CellFails
  <2>1. /\ Waiting /\ step = "running" /\ reply' = "error"
        /\ UNCHANGED <<places, queue, running, call, calls, results, fate>>
        /\ output' = NoOutput
        /\ pending' \in Cells /\ UNCHANGED <<tool, book, loaded>>
        /\ step' = "idle" /\ outcome' = "error"
    BY <1>3, <1>5 DEF CellFails, Reply, NInv, Working
  <2>2. NTypeOK'
    BY <2>1 DEF NTypeOK, CallsTypeOK, places
  <2>3. Working' /\ OnlyAsked'
    BY <1>4, <2>1 DEF NInv, Working, OnlyAsked, Waiting, Edits
  <2>4. QED
    BY <2>1, <2>2, <2>3, OverKeeps DEF Waiting
<1>6. CASE NoSession
  <2>1. /\ step = "running" /\ calls < MaxCalls
        /\ calls' = calls + 1 /\ call' = NoCommand /\ reply' = "error" /\ output' = NoOutput
        /\ UNCHANGED <<places, queue, running, results, fate>>
        /\ pending' \in Cells /\ UNCHANGED <<tool, book, loaded>>
        /\ step' = "idle" /\ outcome' = "error"
    BY <1>3, <1>6 DEF NoSession, Refused, MayCall
  <2>2. NTypeOK'
    BY <2>1, MaxCallsAssumption DEF NTypeOK, CallsTypeOK, places, Id
  <2>3. Working' /\ OnlyAsked'
    BY <1>4, <2>1, RunTypes DEF NInv, Working, OnlyAsked, Waiting, Edits
  <2>4. QED
    BY <2>1, <2>2, <2>3, OverKeeps DEF Waiting
<1>7. CASE NotebookDone
  <2>1. /\ step = "running" /\ tool.op = "execute_notebook" /\ ~Waiting
        /\ UNCHANGED <<places, queue, running, call, output, reply, calls, results, fate>>
        /\ pending' \in Cells /\ UNCHANGED <<tool, book, loaded>>
        /\ step' = "idle" /\ outcome' = "ok"
    BY <1>3, <1>7 DEF NotebookDone, runtime
  <2>2. NTypeOK'
    BY <2>1 DEF NTypeOK, CallsTypeOK, places
  <2>3. Working' /\ OnlyAsked'
    BY <2>1 DEF NInv, Working, OnlyAsked, Waiting
  <2>4. QED
    BY <2>1, <2>2, <2>3, OverKeeps DEF Waiting
<1>8. CASE CellDone
  <2>1. /\ step = "running" /\ tool.op = "execute_cell" /\ ~Waiting
        /\ UNCHANGED <<places, queue, running, call, output, reply, calls, results, fate>>
        /\ step' = "writing" /\ pending' = loaded /\ book' = Torn
        /\ UNCHANGED <<tool, loaded, outcome>>
    BY <1>8 DEF CellDone, runtime
  <2>2. NTypeOK'
    BY <2>1 DEF NTypeOK, CallsTypeOK, places
  <2>3. Working' /\ OnlyAsked'
    BY <1>4, <2>1 DEF NInv, Working, OnlyAsked, AskedFor, Waiting
  <2>4. QED
    BY <2>1, <2>2, <2>3, OverKeeps DEF Waiting
<1>9. QED
  BY <1>1, <1>2, <1>5, <1>6, <1>7, <1>8 DEF Execution

-----------------------------------------------------------------------------
(***************************************************************************)
(* The disk, its other users, and the process.                             *)
(***************************************************************************)
LEMMA WritingKeeps ==
  ASSUME NTypeOK, NInv, Written \/ WriteFails
  PROVE  NTypeOK' /\ NInv'
<1>1. /\ step = "writing" /\ step' = "idle" /\ pending' \in Cells
      /\ \/ outcome' = "ok" /\ book' = pending
         \/ outcome' = "error" /\ book' = book
      /\ UNCHANGED <<places, queue, running, call, output, reply, calls>>
      /\ UNCHANGED <<tool, loaded, results, fate>>
  BY NoCellsIn DEF Written, WriteFails, Ends, runtime
<1>2. NTypeOK'
  BY <1>1 DEF NTypeOK, CallsTypeOK, places
<1>3. ~Waiting' /\ tool # NoTool /\ book = Torn /\ AskedFor(pending)
  BY <1>1 DEF NInv, Working, Waiting
<1>4. Working'
  BY <1>1, <1>3 DEF NInv, Working, Waiting
<1>5. OnlyAsked'
  <2>1. CASE outcome' = "ok" /\ book' = pending
    BY <1>1, <1>3, <2>1 DEF OnlyAsked, AskedFor, Renames
  <2>2. CASE outcome' = "error" /\ book' = book
    BY <1>3, <2>2 DEF OnlyAsked, Parsed
  <2>3. QED
    BY <1>1, <2>1, <2>2
<1>6. QED
  BY <1>1, <1>2, <1>3, <1>4, <1>5, OverKeeps

LEMMA EditorSavesKeeps ==
  ASSUME NTypeOK, NInv, EditorSaves
  PROVE  NTypeOK' /\ NInv'
<1>1. /\ step = "running" /\ Parsed
      /\ UNCHANGED <<places, queue, running, call, output, reply, calls>>
      /\ UNCHANGED <<tool, step, loaded, pending, results, outcome, fate>>
  BY DEF EditorSaves, runtime
<1>2. PICK k \in DOMAIN book, text \in Text : book' = [book EXCEPT ![k].source = text]
  BY DEF EditorSaves
<1>3. book' \in Cells
  <2>1. book \in Cells
    BY <1>1 DEF NTypeOK, Parsed
  <2>2. PICK t : t = book'
    OBVIOUS
  <2>3. Resourced(t, book, k, text)
    BY <1>2, <2>2 DEF Resourced
  <2>4. QED
    BY <2>1, <2>2, <2>3, EditedIn
<1>4. NTypeOK'
  BY <1>1, <1>3 DEF NTypeOK, CallsTypeOK, places
<1>5. Placed' /\ Behind' /\ \A c \in CellRun : Current(c)' => Current(c)
  BY <1>1, LinesStay
<1>6. Working' /\ OnlyAsked'
  BY <1>1 DEF NInv, Working, OnlyAsked, Waiting
<1>7. OneAtATime'
  BY <1>1, <1>5 DEF NInv, OneAtATime, Resting, Waiting
<1>8. RunInOrder'
  BY <1>1, <1>5 DEF NInv, RunInOrder, EarlierRan, IsCode, Waiting
<1>9. QED
  BY <1>4, <1>5, <1>6, <1>7, <1>8 DEF NInv

LEMMA CrashKeeps ==
  ASSUME NTypeOK, NInv, Crash
  PROVE  NTypeOK' /\ NInv'
<1>1. /\ step # "idle" /\ step' = "idle" /\ outcome' = "none" /\ pending' \in Cells
      /\ reply' = "none" /\ call' = NoCommand /\ output' = NoOutput
      /\ UNCHANGED <<tool, book, loaded, places, calls, results, fate>>
  BY NoCellsIn DEF Crash, Ends
<1>2. PICK own \in SUBSET Kernel :
        /\ queue' = [k \in Kernel |-> IF k \in own THEN <<>> ELSE queue[k]]
        /\ running' = [k \in Kernel |-> IF k \in own THEN NoCommand ELSE running[k]]
  BY DEF Crash
<1>3. /\ \A k \in Kernel : queue'[k] \in {queue[k], <<>>}
      /\ \A k \in Kernel : running'[k] \in {running[k], NoCommand}
      /\ \A k \in Kernel : running'[k] # NoCommand => queue'[k] = queue[k]
  BY <1>2
<1>4. NTypeOK'
  <2>1. queue' \in [Kernel -> Seq(CellRun)]
    BY <1>2, EmptySeq DEF NTypeOK, CallsTypeOK
  <2>2. running' \in [Kernel -> CellRun \cup {NoCommand}]
    BY <1>2 DEF NTypeOK, CallsTypeOK
  <2>3. QED
    BY <1>1, <2>1, <2>2 DEF NTypeOK, CallsTypeOK, places
<1>5. \A k \in Kernel : \A c \in CellRun : Lies(c, k)' => Lies(c, k)
  BY <1>3 DEF Lies
<1>6. \A c \in CellRun : Current(c)' => Current(c)
  BY <1>1, <1>5 DEF Current, Mine
<1>7. Placed'
  BY <1>1, <1>5 DEF NInv, Placed
<1>8. Behind'
  <2>1. ASSUME NEW k \in Kernel, NEW i \in DOMAIN queue'[k], Mine(queue[k][i])'
        PROVE  i = Len(queue'[k])
    <3>1. queue'[k] = queue[k]
      BY <1>3, <2>1
    <3>2. QED
      BY <1>1, <2>1, <3>1 DEF NInv, Behind, Mine
  <2>2. ASSUME NEW k \in Kernel, running'[k] # NoCommand, Mine(running[k])'
        PROVE  queue'[k] = <<>>
    <3>1. running'[k] = running[k]
      BY <1>3, <2>2
    <3>2. QED
      BY <1>1, <1>3, <2>2, <3>1 DEF NInv, Behind, Mine
  <2>3. QED
    BY <2>1, <2>2 DEF Behind
<1>9. Working' /\ OnlyAsked'
  BY <1>1 DEF NInv, Working, OnlyAsked, Waiting
<1>10. OneAtATime'
  BY <1>1, <1>6 DEF NInv, OneAtATime, Resting, Waiting
<1>11. RunInOrder'
  BY <1>1, <1>6 DEF NInv, RunInOrder, EarlierRan, IsCode, Waiting
<1>12. QED
  BY <1>4, <1>7, <1>8, <1>9, <1>10, <1>11 DEF NInv

-----------------------------------------------------------------------------
(***************************************************************************)
(* The tools.                                                              *)
(***************************************************************************)
\* A new call has nothing with a kernel, since its ids are new.
LEMMA EnterKeeps ==
  ASSUME NTypeOK, NInv,
         NEW op \in Edits \cup {"execute_cell", "execute_notebook"}, NEW i \in Index,
         NEW s \in Session \cup {Default}, NEW to \in {"idle", "running", "writing"},
         NEW how \in {"none", "ok", "error"}, Enter(op, i, s, to, how),
         book' \in Cells \cup {NoBook, Torn}, pending' \in Cells,
         to = "running" => /\ op \in {"execute_cell", "execute_notebook"}
                           /\ op = "execute_cell" => i + 1 \in DOMAIN loaded',
         to = "writing" => book' = Torn /\ AskedFor(pending)',
         OnlyAsked'
  PROVE  NTypeOK' /\ NInv'
<1>1. /\ step = "idle" /\ step' = to /\ outcome' = how
      /\ tool' = [op |-> op, index |-> i, session |-> s, first |-> calls + 1]
      /\ loaded' = IF Parsed THEN book ELSE <<>>
      /\ results' = <<>> /\ fate' = Unsent
      /\ UNCHANGED <<places, queue, running, call, output, reply, calls>>
  BY DEF Enter, runtime
<1>2. /\ tool' \in Tool /\ tool' # NoTool /\ tool'.first = calls + 1
      /\ tool'.op = op /\ tool'.index = i /\ calls \in Nat
  <2>1. calls + 1 \in Id \cup {MaxCalls + 1} /\ calls \in Nat
    BY MaxCallsAssumption DEF NTypeOK, CallsTypeOK, Id
  <2>2. QED
    BY <1>1, <2>1, NoneAssumption DEF Tool
<1>3. loaded' \in Cells
  BY <1>1, NoCellsIn DEF NTypeOK, Parsed
<1>4. NTypeOK'
  <2>1. results' \in Seq(Position) /\ fate' \in [Position -> Endings \cup {"none"}]
    BY <1>1 DEF Unsent
  <2>2. QED
    BY <1>1, <1>2, <1>3, <2>1 DEF NTypeOK, CallsTypeOK, places
<1>5. ~Waiting /\ ~Waiting'
  BY <1>1 DEF NInv, Working, Waiting
<1>6. \A r \in Kernel : \A c \in CellRun : Lies(c, r)' => Lies(c, r) /\ c.id < tool'.first
  <2>1. \A r \in Kernel : \A c \in CellRun : Lies(c, r)' => Lies(c, r)
    BY <1>1 DEF Lies
  <2>2. \A r \in Kernel : \A c \in CellRun : Lies(c, r) => c.id < calls + 1
    BY RunTypes DEF NInv, Placed
  <2>3. QED
    BY <1>2, <2>1, <2>2
<1>7. \A c \in CellRun : ~Current(c)'
  BY <1>2, <1>6, RunTypes DEF Current, Mine
<1>8. Placed'
  BY <1>1, <1>6 DEF NInv, Placed
<1>9. Behind'
  <2>1. ASSUME NEW r \in Kernel, NEW n \in DOMAIN queue'[r] PROVE ~Mine(queue[r][n])'
    <3>1. queue'[r][n] \in CellRun
      BY <1>1, <2>1, RunTypes
    <3>2. Lies(queue[r][n], r)'
      BY <2>1 DEF Lies
    <3>3. QED
      BY <1>7, <3>1, <3>2 DEF Current
  <2>2. ASSUME NEW r \in Kernel, running'[r] # NoCommand PROVE ~Mine(running[r])'
    <3>1. running'[r] \in CellRun
      BY <1>1, <2>2, RunTypes
    <3>2. Lies(running[r], r)'
      BY <2>2 DEF Lies
    <3>3. QED
      BY <1>7, <3>1, <3>2 DEF Current
  <2>3. QED
    BY <2>1, <2>2 DEF Behind
<1>10. Working'
  BY <1>1, <1>2, <1>5 DEF Working
<1>11. OneAtATime'
  BY <1>5, <1>7 DEF OneAtATime
<1>12. RunInOrder'
  <2>1. ToSet(results') = {}
    BY <1>1 DEF ToSet
  <2>2. QED
    BY <1>5, <1>7, <2>1 DEF RunInOrder
<1>13. QED
  BY <1>4, <1>8, <1>9, <1>10, <1>11, <1>12 DEF NInv

LEMMA RewriteKeeps ==
  ASSUME NTypeOK, NInv, NEW op \in Edits, NEW i \in Index, NEW cells \in Cells,
         Rewrite(op, i, cells), AskedFor(pending)'
  PROVE  NTypeOK' /\ NInv'
<1>1. /\ Enter(op, i, Default, "writing", "none")
      /\ book' = Torn /\ pending' = cells /\ step' = "writing"
  BY DEF Rewrite, Enter
<1>2. OnlyAsked'
  BY <1>1 DEF OnlyAsked
<1>3. QED
  BY <1>1, <1>2, EnterKeeps

LEMMA RewriteSets ==
  ASSUME NEW op, NEW i, NEW cells, Rewrite(op, i, cells)
  PROVE  /\ tool'.op = op /\ tool'.index = i /\ pending' = cells
         /\ Parsed => loaded' = book
BY DEF Rewrite, Enter

LEMMA BookTypes ==
  ASSUME NTypeOK, Parsed
  PROVE  /\ book \in Cells /\ book \in Seq(Cell) /\ Len(book) \in Nat /\ Len(book) <= MaxCells
         /\ DOMAIN book = 1..Len(book)
<1>1. book \in Cells
  BY DEF NTypeOK, Parsed
<1>2. QED
  BY <1>1, CellsAre, LenProperties

LEMMA IndexTypes ==
  /\ \A i \in Index : i \in Int /\ -1 <= i /\ i <= MaxCells
  /\ \A i \in 0..MaxCells : i \in Index
BY MaxCellsAssumption DEF Index

LEMMA AddCellKeeps ==
  ASSUME NTypeOK, NInv, NEW i \in Index, NEW cell \in Cell, AddCell(i, cell)
  PROVE  NTypeOK' /\ NInv'
<1>1. Parsed /\ Len(book) < MaxCells
  BY DEF AddCell
<1>2. PICK n, j, t :
        /\ n \in 1..(Len(book) + 1) /\ j \in Index
        /\ Rewrite("add", j, t) /\ t = InsertAt(book, n, cell)
        /\ j >= 0 => n = j + 1
  <2>1. CASE i >= Len(book)
    <3>1. PICK t : t = Append(book, cell)
      OBVIOUS
    <3>2. Rewrite("add", Len(book), t)
      BY <2>1, <3>1 DEF AddCell
    <3>3. t = InsertAt(book, Len(book) + 1, cell)
      BY <1>1, <3>1, BookTypes, AppendedIsInserted
    <3>4. Len(book) + 1 \in 1..(Len(book) + 1) /\ Len(book) \in Index
      BY <1>1, BookTypes, IndexTypes, MaxCellsAssumption
    <3>5. QED
      BY <3>2, <3>3, <3>4
  <2>2. CASE ~(i >= Len(book))
    <3>1. PICK n : n = IF At(i) < 1 THEN 1 ELSE At(i)
      OBVIOUS
    <3>2. Rewrite("add", i, InsertAt(book, n, cell))
      BY <2>2, <3>1 DEF AddCell
    <3>3. Len(book) \in Nat /\ i \in Int /\ -1 <= i /\ i < Len(book)
      BY <1>1, <2>2, BookTypes, IndexTypes
    <3>4. n \in 1..(Len(book) + 1) /\ (i >= 0 => n = i + 1)
      BY <3>1, <3>3 DEF At
    <3>5. QED
      BY <3>2, <3>4
  <2>3. QED
    BY <2>1, <2>2
<1>3. t \in Seq(Cell) /\ Len(t) = Len(book) + 1
  BY <1>1, <1>2, BookTypes, Inserted DEF IsWith
<1>4. t \in Cells
  BY <1>1, <1>3, BookTypes, CellsAre, MaxCellsAssumption
<1>5. n \in DOMAIN t /\ RemoveAt(t, n) = book
  BY <1>1, <1>2, BookTypes, InsertedIsRemoved
<1>6. AskedFor(pending)'
  <2>1. /\ tool'.op = "add" /\ tool'.index = j /\ pending' = t /\ loaded' = book
    BY <1>1, <1>2, RewriteSets
  <2>2. QED
    BY <1>2, <1>5, <2>1 DEF AskedFor
<1>7. QED
  BY <1>2, <1>4, <1>6, RewriteKeeps DEF Edits

LEMMA EditCellKeeps ==
  ASSUME NTypeOK, NInv, NEW i \in Index, NEW text \in Text, EditCell(i, text)
  PROVE  NTypeOK' /\ NInv'
<1>1. Parsed /\ InRange(i) /\ At(i) \in DOMAIN book
  BY DEF EditCell
<1>2. PICK n, t : n = At(i) /\ t = [book EXCEPT ![n].source = text]
  BY <1>1
<1>3. Rewrite("edit", i, t)
  BY <1>2 DEF EditCell
<1>4. n = i + 1
  BY <1>1, <1>2, IndexTypes DEF At, InRange
<1>5. t \in Cells /\ DiffersAt(t, book, n)
  <2>1. book \in Cells
    BY <1>1, BookTypes
  <2>2. Resourced(t, book, n, text)
    BY <1>2 DEF Resourced
  <2>3. n \in DOMAIN book
    BY <1>1, <1>2
  <2>4. QED
    BY <2>1, <2>2, <2>3, EditedIn
<1>6. AskedFor(pending)'
  <2>1. /\ tool'.op = "edit" /\ tool'.index = i /\ pending' = t /\ loaded' = book
    BY <1>1, <1>3, RewriteSets
  <2>2. QED
    BY <1>4, <1>5, <2>1 DEF AskedFor, Renames, DiffersAt
<1>7. QED
  BY <1>3, <1>5, <1>6, RewriteKeeps DEF Edits

LEMMA DeleteCellKeeps ==
  ASSUME NTypeOK, NInv, NEW i \in Index, DeleteCell(i)
  PROVE  NTypeOK' /\ NInv'
<1>1. Parsed /\ InRange(i) /\ At(i) \in DOMAIN book
  BY DEF DeleteCell
<1>2. PICK n, t : n = At(i) /\ t = RemoveAt(book, n)
  BY <1>1
<1>3. Rewrite("delete", i, t)
  BY <1>2 DEF DeleteCell
<1>4. n = i + 1
  BY <1>1, <1>2, IndexTypes DEF At, InRange
<1>5. t \in Seq(Cell) /\ Len(t) = Len(book) - 1
  BY <1>1, <1>2, BookTypes, Removed DEF IsWithout
<1>6. t \in Cells
  BY <1>1, <1>5, BookTypes, CellsAre, MaxCellsAssumption
<1>7. AskedFor(pending)'
  <2>1. /\ tool'.op = "delete" /\ tool'.index = i /\ pending' = t /\ loaded' = book
    BY <1>1, <1>3, RewriteSets
  <2>2. QED
    BY <1>2, <1>4, <2>1 DEF AskedFor
<1>8. QED
  BY <1>3, <1>6, <1>7, RewriteKeeps DEF Edits

LEMMA ToolsKeep ==
  ASSUME NTypeOK, NInv, Tools
  PROVE  NTypeOK' /\ NInv'
<1>1. CASE CreateNotebook
  <2>1. Rewrite("create", 0, <<>>) /\ 0 \in Index
    BY <1>1, IndexTypes, MaxCellsAssumption DEF CreateNotebook
  <2>2. AskedFor(pending)'
    BY <2>1, RewriteSets DEF AskedFor
  <2>3. QED
    BY <2>1, <2>2, NoCellsIn, RewriteKeeps DEF Edits
<1>2. CASE UpdateNotebook
  <2>1. PICK cells \in Cells : Rewrite("update", 0, cells)
    BY <1>2 DEF UpdateNotebook
  <2>2. AskedFor(pending)' /\ 0 \in Index
    BY <2>1, RewriteSets, IndexTypes, MaxCellsAssumption DEF AskedFor
  <2>3. QED
    BY <2>1, <2>2, RewriteKeeps DEF Edits
<1>3. ASSUME NEW i \in Index, SkipCell(i) PROVE NTypeOK' /\ NInv'
  <2>1. /\ Enter("execute_cell", i, Default, "idle", "ok") /\ Parsed
        /\ UNCHANGED <<book, pending>>
    BY <1>3 DEF SkipCell
  <2>2. /\ tool'.op = "execute_cell" /\ loaded' = book /\ outcome' = "ok"
    BY <2>1 DEF Enter
  <2>3. OnlyAsked'
    BY <2>1, <2>2 DEF OnlyAsked, Edits
  <2>4. book' \in Cells \cup {NoBook, Torn} /\ pending' \in Cells
    BY <2>1 DEF NTypeOK
  <2>5. QED
    BY <2>1, <2>3, <2>4, EnterKeeps
<1>4. ASSUME NEW i \in Index, NEW op \in Edits \cup {"execute_cell", "execute_notebook"},
             Fails(op, i)
      PROVE  NTypeOK' /\ NInv'
  <2>1. /\ Enter(op, i, Default, "idle", "error") /\ UNCHANGED <<book, pending>>
    BY <1>4 DEF Fails
  <2>2. outcome' = "error" /\ (Parsed => loaded' = book)
    BY <2>1 DEF Enter
  <2>3. OnlyAsked'
    BY <2>1, <2>2 DEF OnlyAsked, Parsed
  <2>4. book' \in Cells \cup {NoBook, Torn} /\ pending' \in Cells
    BY <2>1 DEF NTypeOK
  <2>5. QED
    BY <2>1, <2>3, <2>4, EnterKeeps
<1>5. ASSUME NEW i \in Index, NEW op \in {"execute_cell", "execute_notebook"},
             NEW s \in Session \cup {Default}, Execute(op, i, s)
      PROVE  NTypeOK' /\ NInv'
  <2>1. /\ Enter(op, i, s, "running", "none") /\ UNCHANGED <<book, pending>>
        /\ Parsed /\ (op = "execute_cell" => InRange(i) /\ Holds(i, "code"))
    BY <1>5 DEF Execute
  <2>2. step' = "running" /\ loaded' = book
    BY <2>1 DEF Enter
  <2>3. op = "execute_cell" => i + 1 \in DOMAIN loaded'
    BY <2>1, <2>2, BookTypes, IndexTypes DEF InRange
  <2>4. OnlyAsked'
    BY <2>2 DEF OnlyAsked
  <2>5. book' \in Cells \cup {NoBook, Torn} /\ pending' \in Cells
    BY <2>1 DEF NTypeOK
  <2>6. QED
    BY <2>1, <2>3, <2>4, <2>5, EnterKeeps
<1>6. 0 \in Index
  BY IndexTypes, MaxCellsAssumption
<1>7. QED
  BY <1>1, <1>2, <1>3, <1>4, <1>5, <1>6, AddCellKeeps, EditCellKeeps, DeleteCellKeeps
  DEF Tools, Edits

-----------------------------------------------------------------------------
LEMMA NStartsRight == NInit => NTypeOK /\ NInv
<1>1. SUFFICES ASSUME NInit PROVE NTypeOK /\ NInv
  OBVIOUS
<1>2. /\ local \subseteq Kernel /\ kernel \in [Session -> Kernel]
      /\ queue = [k \in Kernel |-> <<>>]
      /\ running = [k \in Kernel |-> NoCommand]
      /\ call = NoCommand /\ output = NoOutput /\ reply = "none" /\ calls = 0
      /\ book \in Cells \cup {NoBook, Torn} /\ tool = NoTool /\ step = "idle"
      /\ loaded = <<>> /\ pending = <<>> /\ results = <<>> /\ outcome = "none"
      /\ fate = Unsent
  BY <1>1 DEF NInit, CallsInit
<1>3. NTypeOK
  BY <1>2, NoCellsIn, MaxCallsAssumption DEF NTypeOK, CallsTypeOK, Id, Unsent
<1>4. \A k \in Kernel : \A c \in CellRun : ~Lies(c, k)
  BY <1>2 DEF Lies
<1>5. \A c \in CellRun : ~Current(c)
  BY <1>4 DEF Current
<1>6. Working /\ OnlyAsked
  BY <1>2 DEF Working, OnlyAsked, Waiting
<1>7. Placed /\ Behind /\ OneAtATime
  BY <1>2, <1>4, <1>5 DEF Placed, Behind, OneAtATime
<1>8. RunInOrder
  BY <1>2, <1>5 DEF RunInOrder, Waiting, ToSet
<1>9. QED
  BY <1>3, <1>6, <1>7, <1>8 DEF NInv

LEMMA NStutterKeeps ==
  ASSUME NTypeOK, NInv, UNCHANGED nvars
  PROVE  NTypeOK' /\ NInv'
<1>1. /\ UNCHANGED <<places, queue, running, call, output, reply, calls>>
      /\ UNCHANGED <<book, tool, step, loaded, pending, results, outcome, fate>>
  BY DEF nvars, runtime
<1>2. Took /\ Behind'
  BY <1>1 DEF Took, Lies, NInv, Behind, Mine
<1>3. /\ queue' \in [Kernel -> Seq(CellRun)]
      /\ running' \in [Kernel -> CellRun \cup {NoCommand}]
  BY <1>1 DEF NTypeOK, CallsTypeOK
<1>4. QED
  BY <1>1, <1>2, <1>3, KernelsKeep DEF file

LEMMA NStepKeeps == NTypeOK /\ NInv /\ [NNext]_nvars => NTypeOK' /\ NInv'
<1>1. SUFFICES ASSUME NTypeOK, NInv, [NNext]_nvars PROVE NTypeOK' /\ NInv'
  OBVIOUS
<1>2. QED
  BY <1>1, ToolsKeep, ExecutionKeeps, KernelsStepKeeps, WritingKeeps, CrashKeeps,
     EditorSavesKeeps, NStutterKeeps DEF NNext

LEMMA NAlways == NSpec => [](NTypeOK /\ NInv)
<1>1. QED
  BY NStartsRight, NStepKeeps, PTL DEF NSpec

-----------------------------------------------------------------------------
(***************************************************************************)
(* Notebooks: the theorems.                                                *)
(***************************************************************************)

(* Files hold cells, kernels runs of cells, and a call's results are of    *)
(* positions in the notebook.                                              *)
THEOREM NotebooksTyped == NSpec => []NTypeOK
<1>1. QED
  BY NAlways, PTL

(* For notebooks of any length: whatever fails, what a finished call has   *)
(* changed is what it was asked to, and what failed has changed nothing    *)
(* that can be read (notebook_manager.py:52-101).                          *)
THEOREM EditsAreExact == NSpec => []OnlyAsked
<1>1. NInv => OnlyAsked
  BY DEF NInv
<1>2. QED
  BY <1>1, NAlways, PTL

(* For any sessions, kernels and cells: no cell of a notebook runs before  *)
(* those above it, in spite of calls that were given up, kernels that drop *)
(* what they have, reconnects between two cells and a server that          *)
(* restarts; but for the cells that count as run though they were answered *)
(* without being executed, or raised unheard (notebook_manager.py:103-111, *)
(* kernel_client.py:117-122, 139-150).                                     *)
THEOREM CellsFollow == NSpec => CellsInOrder
<1> DEFINE A == \A k \in Kernel :
                  CellStarts(k) /\ Mine(running'[k]) =>
                    /\ tool.session \in {running'[k].session, Default}
                    /\ tool.op = "execute_notebook" =>
                         \A n \in 1..(running'[k].at - 1) :
                           IsCode(n) => fate[n] \in {"value", "nothing", "unheard"}
<1>1. ASSUME NTypeOK, NInv, NEW k \in Kernel, CellStarts(k), Mine(running'[k])
      PROVE  /\ tool.session \in {running'[k].session, Default}
             /\ tool.op = "execute_notebook" =>
                  \A n \in 1..(running'[k].at - 1) :
                    IsCode(n) => fate[n] \in {"value", "nothing", "unheard"}
  <2>1. queue[k] # <<>> /\ running' = [running EXCEPT ![k] = Head(queue[k])]
    BY <1>1 DEF CellStarts, Start
  <2>2. PICK c \in CellRun : c = Head(queue[k]) /\ c = queue[k][1] /\ 1 \in DOMAIN queue[k]
    <3>1. queue[k] \in Seq(CellRun)
      BY <1>1, RunTypes
    <3>2. QED
      BY <2>1, <3>1, FromTheHead
  <2>3. running'[k] = c
    BY <1>1, <2>1, <2>2 DEF NTypeOK, CallsTypeOK
  <2>4. Lies(c, k) /\ Current(c)
    BY <1>1, <2>2, <2>3 DEF Lies, Current
  <2>5. tool.session \in {c.session, Default} /\ EarlierRan(c.at)
    BY <1>1, <2>4 DEF NInv, RunInOrder
  <2>6. QED
    BY <2>3, <2>5 DEF EarlierRan, Accepted
<1>2. ASSUME NTypeOK, NInv PROVE [A]_nvars
  BY <1>1, <1>2
<1>3. QED
  BY <1>2, NAlways, PTL DEF NSpec, CellsInOrder
=============================================================================
