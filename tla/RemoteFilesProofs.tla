-------------------------- MODULE RemoteFilesProofs --------------------------
(***************************************************************************)
(* Proofs about RemoteFiles, for any sessions, kernels, paths, contents    *)
(* and number of calls, whichever kernels share a disk and however their   *)
(* snippets interleave there, and wherever snippets raise, kernels drop,   *)
(* sessions are reconnected and calls give up.                             *)
(***************************************************************************)
EXTENDS RemoteFiles, SequenceTheorems, TLAPS

(***************************************************************************)
(* The inductive invariant.                                                *)
(***************************************************************************)
\* While a call waits, and when it has answered ok, its command counts.
Matters == reply \in {"waiting", "ok"}

\* A command that was sent to a kernel, by one of the calls so far.
SentTo(k, c) == c.kernel = k /\ c.id <= calls /\ (c.op = "move" => c.to \in Path)

(* Ids never run ahead of the calls: a new one is new everywhere.          *)
Sent ==
  \A k \in Kernel :
    /\ \A i \in DOMAIN queue[k] : SentTo(k, queue[k][i])
    /\ running[k] # NoCommand => SentTo(k, running[k])

(* What carries the id of the current call is its command, and nothing is  *)
(* behind it in its kernel: calls come one at a time and an id is not used *)
(* twice.                                                                  *)
LastInLine ==
  Matters =>
    /\ call \in Command
    /\ \A k \in Kernel :
         /\ \A i \in DOMAIN queue[k] :
              queue[k][i].id = call.id => i = Len(queue[k]) /\ queue[k][i] = call
         /\ running[k] # NoCommand /\ running[k].id = call.id =>
              running[k] = call /\ queue[k] = <<>>

(* What a snippet has done to a workspace, or read there.                  *)
Done(c, got, now) == Holds(c, [shown |-> got, after |-> now])

(* An open file is where it was opened, and what a snippet has done is     *)
(* still so, unless others have come between.                              *)
Holding(c, at, now) == /\ at = c.path /\ at \in Path
                       /\ now[at] \notin {"none", "dir"}

KeptBy(k) ==
  /\ running[k] = NoCommand => stage[k] = "begun"
  /\ stage[k] = "open" /\ k \notin clashed => Holding(running[k], handle[k], Here(k))
  /\ stage[k] = "printing" /\ k \notin clashed => Done(running[k], seen[k], Here(k))

Kept == \A k \in Kernel : KeptBy(k)

(* What the call has been told is what its own command printed, and with   *)
(* it the kernel has come to rest.                                         *)
Printed ==
  Matters /\ output # NoOutput =>
    /\ running[call.kernel] = NoCommand
    /\ queue[call.kernel] = <<>>
    /\ Understood => output.clash \/ Holds(call, output)

(* Nothing but a whole line that says so makes an ok.                      *)
Answered == reply = "ok" => output # NoOutput /\ Understood

Inv == Sent /\ LastInLine /\ Kept /\ Printed /\ Answered

-----------------------------------------------------------------------------
(***************************************************************************)
(* Queues.                                                                 *)
(***************************************************************************)
LEMMA AtTheEnd ==
  ASSUME NEW S, NEW q \in Seq(S), NEW c \in S, NEW t, t = Append(q, c)
  PROVE  /\ t \in Seq(S)
         /\ Len(t) = Len(q) + 1
         /\ DOMAIN t = DOMAIN q \cup {Len(t)}
         /\ \A i \in DOMAIN q : t[i] = q[i]
         /\ t[Len(t)] = c
BY AppendProperties

LEMMA FromTheHead ==
  ASSUME NEW S, NEW q \in Seq(S), q # <<>>, NEW t, t = Tail(q)
  PROVE  /\ Head(q) \in S /\ 1 \in DOMAIN q /\ Head(q) = q[1]
         /\ t \in Seq(S)
         /\ Len(t) + 1 = Len(q)
         /\ \A i \in DOMAIN t : i + 1 \in DOMAIN q /\ t[i] = q[i + 1]
         /\ Len(q) = 1 => t = <<>>
<1>1. Head(q) \in S /\ Head(q) = q[1] /\ Len(q) \in Nat \ {0} /\ DOMAIN q = 1..Len(q)
  BY HeadTailProperties, EmptySeq, LenProperties
<1>2. t \in Seq(S) /\ Len(t) = Len(q) - 1 /\ \A i \in 1..Len(t) : t[i] = q[i + 1]
  BY HeadTailProperties
<1>3. DOMAIN t = 1..Len(t) /\ Len(t) \in Nat
  BY <1>2, LenProperties
<1>4. Len(q) = 1 => t = <<>>
  BY <1>1, <1>2, EmptySeq
<1>5. QED
  BY <1>1, <1>2, <1>3, <1>4

-----------------------------------------------------------------------------
(***************************************************************************)
(* The calls and the kernels, whatever the commands do.                    *)
(***************************************************************************)
\* All that is said of the calls and the queues.
Lines == Sent /\ LastInLine /\ Printed /\ Answered

LEMMA InQueue ==
  ASSUME TypeOK
  PROVE  \A k \in Kernel :
           /\ queue[k] \in Seq(Command)
           /\ \A i \in DOMAIN queue[k] : queue[k][i] \in Command /\ queue[k][i].id \in Nat
<1>1. ASSUME NEW k \in Kernel
      PROVE  queue[k] \in Seq(Command)
  BY <1>1 DEF TypeOK, CallsTypeOK
<1>2. ASSUME NEW k \in Kernel, NEW i \in DOMAIN queue[k]
      PROVE  queue[k][i] \in Command
  BY <1>1, LenProperties
<1>3. \A c \in Command : c.id \in Nat
  BY DEF Command, Id
<1>4. QED
  BY <1>1, <1>2, <1>3

LEMMA SendKeeps ==
  ASSUME TypeOK, Inv, NEW c \in Command, NEW s \in Session,
         c.id = calls + 1, c.op = "move" => c.to \in Path, c.kernel = kernel[s],
         Send(s, c)
  PROVE  CallsTypeOK(Command, Output)' /\ Lines'
<1>0. PICK k \in Kernel : k = c.kernel
  BY DEF Command
<1>1. /\ calls \in Nat /\ calls + 1 \in Id
      /\ \A j \in Kernel : queue[j] \in Seq(Command)
      /\ \A j \in Kernel : \A i \in DOMAIN queue[j] :
           SentTo(j, queue[j][i]) /\ queue[j][i].id \in Nat
  <2>1. calls \in Nat /\ calls + 1 \in Id
    BY MaxCallsAssumption DEF TypeOK, CallsTypeOK, Send, MayCall, Id
  <2>2. QED
    BY <2>1, InQueue DEF Inv, Sent
<1>2. /\ queue' = [queue EXCEPT ![k] = Append(queue[k], c)]
      /\ calls' = calls + 1 /\ call' = c /\ reply' = "waiting" /\ output' = NoOutput
      /\ UNCHANGED <<local, kernel, running>>
  BY <1>0 DEF Send, places
<1>3. PICK t : t = Append(queue[k], c)
  OBVIOUS
<1>4. /\ t \in Seq(Command)
      /\ Len(t) = Len(queue[k]) + 1
      /\ DOMAIN t = DOMAIN queue[k] \cup {Len(t)}
      /\ \A i \in DOMAIN queue[k] : t[i] = queue[k][i]
      /\ t[Len(t)] = c
  BY <1>1, <1>3, AtTheEnd
<1>5. queue'[k] = t /\ \A j \in Kernel \ {k} : queue'[j] = queue[j]
  BY <1>1, <1>2, <1>3 DEF TypeOK, CallsTypeOK
<1>6. CallsTypeOK(Command, Output)'
  BY <1>1, <1>2, <1>3, <1>4, <1>5 DEF TypeOK, CallsTypeOK
<1>7. Sent'
  <2>1. ASSUME NEW j \in Kernel, NEW i \in DOMAIN queue'[j]
        PROVE  SentTo(j, queue[j][i])'
    <3>1. CASE j = k /\ i = Len(t)
      BY <1>0, <1>1, <1>2, <1>4, <1>5, <3>1 DEF SentTo
    <3>2. CASE ~(j = k /\ i = Len(t))
      <4>1. i \in DOMAIN queue[j] /\ queue'[j][i] = queue[j][i]
        BY <1>4, <1>5, <2>1, <3>2
      <4>2. QED
        BY <1>1, <1>2, <4>1 DEF SentTo
    <3>3. QED
      BY <3>1, <3>2
  <2>2. ASSUME NEW j \in Kernel, running[j] # NoCommand
        PROVE  SentTo(j, running[j])'
    <3>1. SentTo(j, running[j]) /\ running[j] \in Command
      BY <2>2 DEF Inv, Sent, TypeOK, CallsTypeOK
    <3>2. running[j].id \in Nat
      BY <3>1 DEF Command, Id
    <3>3. QED
      BY <1>1, <1>2, <3>1, <3>2 DEF SentTo
  <2>3. QED
    BY <1>2, <2>1, <2>2 DEF Sent, SentTo
<1>8. LastInLine'
  <2>1. ASSUME NEW j \in Kernel, NEW i \in DOMAIN queue'[j], queue'[j][i].id = c.id
        PROVE  i = Len(queue'[j]) /\ queue'[j][i] = c
    <3>1. CASE j = k /\ i = Len(t)
      BY <1>4, <1>5, <3>1
    <3>2. CASE ~(j = k /\ i = Len(t))
      <4>1. i \in DOMAIN queue[j] /\ queue'[j][i] = queue[j][i]
        BY <1>4, <1>5, <2>1, <3>2
      <4>2. QED
        BY <1>1, <2>1, <4>1 DEF SentTo
    <3>3. QED
      BY <3>1, <3>2
  <2>2. ASSUME NEW j \in Kernel, running[j] # NoCommand
        PROVE  running[j].id # c.id
    BY <1>1, <2>2 DEF Inv, Sent, SentTo
  <2>3. QED
    BY <1>2, <2>1, <2>2 DEF LastInLine
<1>9. QED
  BY <1>2, <1>6, <1>7, <1>8 DEF Lines, Printed, Answered

LEMMA StartKeeps ==
  ASSUME TypeOK, Inv, NEW k \in Kernel, Start(k)
  PROVE  CallsTypeOK(Command, Output)' /\ Lines'
<1>1. PICK t : t = Tail(queue[k])
  OBVIOUS
<1>2. /\ queue' = [queue EXCEPT ![k] = t]
      /\ running' = [running EXCEPT ![k] = Head(queue[k])]
      /\ queue[k] # <<>> /\ running[k] = NoCommand
      /\ UNCHANGED <<local, kernel, call, output, reply, calls>>
  BY <1>1 DEF Start, places
<1>3. queue[k] \in Seq(Command)
  BY DEF TypeOK, CallsTypeOK
<1>4. /\ Head(queue[k]) \in Command /\ 1 \in DOMAIN queue[k] /\ Head(queue[k]) = queue[k][1]
      /\ t \in Seq(Command)
      /\ Len(t) + 1 = Len(queue[k])
      /\ \A i \in DOMAIN t : i + 1 \in DOMAIN queue[k] /\ t[i] = queue[k][i + 1]
      /\ Len(queue[k]) = 1 => t = <<>>
      /\ DOMAIN t \subseteq Nat /\ Len(t) \in Nat
  BY <1>1, <1>2, <1>3, FromTheHead, LenProperties
<1>5. /\ queue'[k] = t /\ \A j \in Kernel \ {k} : queue'[j] = queue[j]
      /\ running'[k] = queue[k][1] /\ \A j \in Kernel \ {k} : running'[j] = running[j]
  BY <1>2, <1>4 DEF TypeOK, CallsTypeOK
<1>6. CallsTypeOK(Command, Output)'
  BY <1>2, <1>3, <1>4 DEF TypeOK, CallsTypeOK
<1>7. Sent'
  BY <1>2, <1>4, <1>5 DEF Inv, Sent, SentTo
<1>8. LastInLine'
  <2> SUFFICES ASSUME Matters
               PROVE  LastInLine'
    BY <1>2 DEF LastInLine, Matters
  <2>1. ASSUME NEW i \in DOMAIN t, t[i].id = call.id
        PROVE  i = Len(t) /\ t[i] = call
    BY <1>4, <2>1 DEF Inv, LastInLine
  <2>2. ASSUME queue[k][1].id = call.id
        PROVE  queue[k][1] = call /\ t = <<>>
    BY <1>4, <2>2 DEF Inv, LastInLine
  <2>3. QED
    BY <1>2, <1>5, <2>1, <2>2 DEF Inv, LastInLine
<1>9. Printed'
  BY <1>2, <1>5 DEF Inv, LastInLine, Printed, Matters, Understood, Command
<1>10. QED
  BY <1>2, <1>6, <1>7, <1>8, <1>9 DEF Inv, Lines, Answered, Understood

\* Behind code that raises, and in a kernel that drops, the queue may be lost.
LEMMA AbortIs ==
  ASSUME TypeOK, NEW k \in Kernel, UNCHANGED queue \/ Abort(k)
  PROVE  /\ queue' \in [Kernel -> Seq(Command)]
         /\ \A j \in Kernel : queue'[j] = queue[j] \/ queue'[j] = <<>>
<1>1. PICK none \in Seq(Command) : none = <<>>
  BY EmptySeq
<1>2. queue' = queue \/ queue' = [queue EXCEPT ![k] = none]
  BY <1>1 DEF Abort
<1>3. queue' \in [Kernel -> Seq(Command)]
  BY <1>2 DEF TypeOK, CallsTypeOK
<1>4. \A j \in Kernel : queue'[j] = queue[j] \/ queue'[j] = <<>>
  BY <1>1, <1>2 DEF TypeOK, CallsTypeOK
<1>5. QED
  BY <1>3, <1>4

LEMMA FinishKeeps ==
  ASSUME TypeOK, Inv, NEW k \in Kernel, NEW result \in Output,
         Finish(k, result), UNCHANGED queue \/ Abort(k),
         result.done /\ result.shown # "cut" => result.clash \/ Holds(running[k], result)
  PROVE  CallsTypeOK(Command, Output)' /\ Lines'
<1>1. /\ running[k] # NoCommand
      /\ running' = [running EXCEPT ![k] = NoCommand]
      /\ UNCHANGED <<local, kernel, call, reply, calls>>
      /\ output' = IF Waiting /\ call.id = running[k].id THEN result ELSE output
  BY DEF Finish, Reports, places
<1>2. /\ running'[k] = NoCommand /\ \A j \in Kernel \ {k} : running'[j] = running[j]
      /\ queue' \in [Kernel -> Seq(Command)]
      /\ \A j \in Kernel : queue'[j] = queue[j] \/ queue'[j] = <<>>
  BY <1>1, AbortIs DEF TypeOK, CallsTypeOK
<1>3. CallsTypeOK(Command, Output)'
  <2>1. running' \in [Kernel -> Command \cup {NoCommand}]
    BY <1>1 DEF TypeOK, CallsTypeOK
  <2>2. QED
    BY <1>1, <1>2, <2>1 DEF TypeOK, CallsTypeOK
<1>4. DOMAIN <<>> = {}
  OBVIOUS
<1>5. Sent'
  BY <1>1, <1>2, <1>4 DEF Inv, Sent, SentTo
<1>6. LastInLine'
  BY <1>1, <1>2, <1>4 DEF Inv, LastInLine, Matters
<1>7. CASE Waiting /\ call.id = running[k].id
  <2>1. running[k] = call /\ queue[k] = <<>> /\ call.kernel = k
    BY <1>1, <1>7 DEF Inv, Sent, SentTo, LastInLine, Matters, Waiting
  <2>2. Printed'
    BY <1>1, <1>2, <1>7, <2>1 DEF Printed, Understood
  <2>3. Answered'
    BY <1>1, <1>7 DEF Answered, Waiting
  <2>4. QED
    BY <1>3, <1>5, <1>6, <2>2, <2>3 DEF Lines
<1>8. CASE ~(Waiting /\ call.id = running[k].id)
  <2>1. output' = output
    BY <1>1, <1>8
  <2>2. Printed'
    BY <1>1, <1>2, <2>1 DEF Inv, LastInLine, Printed, Matters, Understood, Command
  <2>3. QED
    BY <1>1, <1>3, <1>5, <1>6, <2>1, <2>2 DEF Inv, Lines, Answered, Understood
<1>9. QED
  BY <1>7, <1>8

LEMMA DropKeeps ==
  ASSUME TypeOK, Inv, NEW k \in Kernel, Drop(k)
  PROVE  CallsTypeOK(Command, Output)' /\ Lines'
<1>1. /\ running' = [running EXCEPT ![k] = NoCommand]
      /\ UNCHANGED <<local, kernel, call, output, reply, calls>>
      /\ Abort(k)
  BY DEF Drop, places
<1>2. /\ running'[k] = NoCommand /\ \A j \in Kernel \ {k} : running'[j] = running[j]
      /\ queue' \in [Kernel -> Seq(Command)]
      /\ \A j \in Kernel : queue'[j] = queue[j] \/ queue'[j] = <<>>
  BY <1>1, AbortIs DEF TypeOK, CallsTypeOK
<1>3. CallsTypeOK(Command, Output)'
  <2>1. running' \in [Kernel -> Command \cup {NoCommand}]
    BY <1>1 DEF TypeOK, CallsTypeOK
  <2>2. QED
    BY <1>1, <1>2, <2>1 DEF TypeOK, CallsTypeOK
<1>4. DOMAIN <<>> = {}
  OBVIOUS
<1>5. Sent'
  BY <1>1, <1>2, <1>4 DEF Inv, Sent, SentTo
<1>6. LastInLine'
  BY <1>1, <1>2, <1>4 DEF Inv, LastInLine, Matters
<1>7. Printed'
  BY <1>1, <1>2 DEF Inv, LastInLine, Printed, Matters, Understood, Command
<1>8. QED
  BY <1>1, <1>3, <1>5, <1>6, <1>7 DEF Inv, Lines, Answered, Understood

LEMMA ReplyKeeps ==
  ASSUME TypeOK, Inv, NEW how \in {"ok", "error"},
         Reply(how), how = "ok" => output # NoOutput /\ Understood
  PROVE  CallsTypeOK(Command, Output)' /\ Lines'
<1>1. /\ reply = "waiting" /\ reply' = how
      /\ output' = IF how = "ok" THEN output ELSE NoOutput
      /\ UNCHANGED <<local, kernel, queue, running, call, calls>>
  BY DEF Reply, Waiting, places
<1>2. CallsTypeOK(Command, Output)'
  BY <1>1 DEF TypeOK, CallsTypeOK
<1>3. Sent' /\ LastInLine'
  BY <1>1 DEF Inv, Sent, SentTo, LastInLine, Matters
<1>4. Printed' /\ Answered'
  BY <1>1 DEF Inv, Printed, Answered, Matters, Understood
<1>5. QED
  BY <1>2, <1>3, <1>4 DEF Lines

LEMMA RefusedKeeps ==
  ASSUME TypeOK, Inv, Refused
  PROVE  CallsTypeOK(Command, Output)' /\ Lines'
<1>1. /\ calls < MaxCalls /\ calls' = calls + 1 /\ call' = NoCommand
      /\ reply' = "error" /\ output' = NoOutput
      /\ UNCHANGED <<local, kernel, queue, running>>
  BY DEF Refused, MayCall, places
<1>2. CallsTypeOK(Command, Output)'
  BY <1>1, MaxCallsAssumption DEF TypeOK, CallsTypeOK, Id
<1>3. \A k \in Kernel, c \in Command :
        SentTo(k, c) => c.kernel = k /\ c.id <= calls + 1 /\ (c.op = "move" => c.to \in Path)
  BY MaxCallsAssumption DEF SentTo, TypeOK, CallsTypeOK, Command, Id
<1>4. Sent'
  <2>1. \A k \in Kernel : running[k] # NoCommand => running[k] \in Command
    BY DEF TypeOK, CallsTypeOK
  <2>2. QED
    BY <1>1, <1>3, <2>1, InQueue DEF Inv, Sent, SentTo
<1>5. QED
  BY <1>1, <1>2, <1>4 DEF Inv, Lines, LastInLine, Printed, Answered, Matters

LEMMA ReconnectKeeps ==
  ASSUME TypeOK, Inv, NEW s \in Session, Reconnect(s)
  PROVE  CallsTypeOK(Command, Output)' /\ Lines'
<1>1. /\ kernel' \in [Session -> Kernel]
      /\ UNCHANGED <<local, queue, running, call, output, reply, calls>>
  BY DEF Reconnect, TypeOK, CallsTypeOK
<1>2. CallsTypeOK(Command, Output)'
  BY <1>1 DEF TypeOK, CallsTypeOK
<1>3. QED
  BY <1>1, <1>2 DEF Inv, Lines, Sent, SentTo, LastInLine, Printed, Answered, Matters, Understood

-----------------------------------------------------------------------------
(***************************************************************************)
(* The disks: what a snippet has done there is still so when it prints.    *)
(***************************************************************************)
DiskTypeOK ==
  /\ disk \in [Place -> [Path -> Stored]]
  /\ stage \in [Kernel -> Stages]
  /\ handle \in [Kernel -> Path \cup {NoPath}]
  /\ seen \in [Kernel -> Stored]
  /\ clashed \subseteq Kernel

LEMMA Apart == TypeOK <=> CallsTypeOK(Command, Output) /\ DiskTypeOK
BY DEF TypeOK, DiskTypeOK

LEMMA ApartNext == TypeOK' <=> CallsTypeOK(Command, Output)' /\ DiskTypeOK'
BY DEF TypeOK, DiskTypeOK, CallsTypeOK, Command, Output, Stored, Stages, Id, Place

LEMMA HereType ==
  ASSUME TypeOK, NEW k \in Kernel
  PROVE  /\ Home(k) \in Place /\ Here(k) \in [Path -> Stored]
         /\ \A p \in Path : Here(k)[p] \in Stored
BY DEF TypeOK, Home, Here, Place

\* The command that runs.
LEMMA RunningType ==
  ASSUME TypeOK, Inv, NEW k \in Kernel, running[k] # NoCommand
  PROVE  /\ running[k] \in Command
         /\ running[k].path \in Path
         /\ running[k].data \in Content \cup {"none"}
         /\ running[k].op = "move" => running[k].to \in Path
BY DEF TypeOK, CallsTypeOK, Command, Inv, Sent, SentTo

\* Nothing but a step on the disk.
LEMMA OnDisk ==
  ASSUME TypeOK, Inv, UNCHANGED runtime, DiskTypeOK', Kept'
  PROVE  TypeOK' /\ Inv'
<1>1. UNCHANGED <<local, kernel, queue, running, call, output, reply, calls>>
  BY DEF runtime, places
<1>2. CallsTypeOK(Command, Output)'
  BY <1>1 DEF TypeOK, CallsTypeOK
<1>3. Sent' /\ LastInLine' /\ Printed' /\ Answered'
  BY <1>1 DEF Inv, Sent, SentTo, LastInLine, Printed, Answered, Matters, Understood
<1>4. QED
  BY <1>2, <1>3, ApartNext DEF Inv

\* Nothing but the calls and the queues.
LEMMA OffDisk ==
  ASSUME TypeOK, Inv, UNCHANGED <<disk, snippet, local, running>>,
         CallsTypeOK(Command, Output)', Lines'
  PROVE  TypeOK' /\ Inv'
<1>1. DiskTypeOK'
  BY DEF TypeOK, DiskTypeOK, snippet, Stored, Stages, Place
<1>2. Kept'
  BY ZenonT(30) DEF Inv, Kept, KeptBy, Here, Home, snippet, Done, Holds, Holding
<1>3. QED
  BY <1>1, <1>2, ApartNext DEF Inv, Lines

\* Whether a command is done depends on its own paths.
LEMMA DoneStays ==
  ASSUME NEW c \in Command, NEW got, NEW now, NEW after, Done(c, got, now),
         after[c.path] = now[c.path],
         c.op = "move" => after[c.to] = now[c.to]
  PROVE  Done(c, got, after)
<1>1. c.op \in Ops
  BY DEF Command
<1>2. QED
  BY <1>1 DEF Done, Holds, Ops, Writes

(* What k changes leaves what the others have seen, or it marks them.      *)
Unmoved(j, k, paths) ==
  handle'[j] # handle[j] => /\ Home(j) = Home(k)
                            /\ handle[j] \in paths \/ Here(k)[handle[j]] \in {"none", "dir"}

LEMMA ChangesType ==
  ASSUME TypeOK, NEW k \in Kernel, NEW paths, NEW after \in [Path -> Stored],
         Changes(k, paths, after)
  PROVE  /\ disk' \in [Place -> [Path -> Stored]] /\ clashed' \subseteq Kernel
         /\ disk'[Home(k)] = after
         /\ \A h \in Place \ {Home(k)} : disk'[h] = disk[h]
         /\ k \in clashed' => k \in clashed
BY HereType DEF TypeOK, Changes, Meets

LEMMA OthersKeep ==
  ASSUME TypeOK, Inv, NEW k \in Kernel, NEW j \in Kernel \ {k}, NEW paths,
         NEW after \in [Path -> Stored], Changes(k, paths, after),
         UNCHANGED <<local, running>>,
         \A p \in Path \ paths : after[p] = Here(k)[p],
         stage'[j] = stage[j], seen'[j] = seen[j], Unmoved(j, k, paths)
  PROVE  KeptBy(j)'
<1>1. KeptBy(j)
  BY DEF Inv, Kept
<1>2. /\ Home(j)' = Home(j) /\ Home(j) \in Place /\ Here(j)' = disk'[Home(j)]
      /\ Here(j) = disk[Home(j)] /\ Here(k) = disk[Home(k)]
      /\ disk'[Home(k)] = after /\ \A h \in Place \ {Home(k)} : disk'[h] = disk[h]
  BY HereType, ChangesType DEF Home, Here
<1>3. CASE Home(j) # Home(k)
  <2>1. Here(j)' = Here(j) /\ handle'[j] = handle[j]
    BY <1>2, <1>3 DEF Unmoved
  <2>2. j \in clashed => j \in clashed'
    BY DEF Changes
  <2>3. QED
    BY <1>1, <2>1, <2>2 DEF KeptBy
<1>4. CASE Home(j) = Home(k)
  <2>1. Here(j)' = after /\ Here(j) = Here(k)
    BY <1>2, <1>4
  <2>2. ASSUME stage[j] # "begun", j \notin clashed'
        PROVE  /\ running[j] # NoCommand /\ j \notin clashed
               /\ running[j].path \notin paths /\ running[j].to \notin paths
    <3>1. j \notin clashed /\ j \notin Meets(k, paths)
      BY <2>2 DEF Changes
    <3>2. {running[j].path, running[j].to} \cap paths = {}
      BY <1>4, <2>2, <3>1 DEF Meets
    <3>3. QED
      BY <1>1, <2>2, <3>1, <3>2 DEF KeptBy
  <2>3. ASSUME stage[j] = "open", j \notin clashed'
        PROVE  Holding(running[j], handle'[j], after)
    <3>1. Holding(running[j], handle[j], Here(k)) /\ running[j].path \notin paths
      BY <1>1, <2>1, <2>2, <2>3 DEF KeptBy
    <3>2. handle'[j] = handle[j]
      BY <3>1 DEF Unmoved, Holding
    <3>3. QED
      BY <3>1, <3>2 DEF Holding
  <2>4. ASSUME stage[j] = "printing", j \notin clashed'
        PROVE  Done(running[j], seen[j], after)
    <3>1. /\ Done(running[j], seen[j], Here(k)) /\ running[j] # NoCommand
          /\ running[j].path \notin paths /\ running[j].to \notin paths
      BY <1>1, <2>1, <2>2, <2>4 DEF KeptBy
    <3>2. /\ running[j] \in Command /\ running[j].path \in Path
          /\ running[j].op = "move" => running[j].to \in Path
      BY <3>1, RunningType
    <3>3. QED
      BY <3>1, <3>2, DoneStays
  <2>5. QED
    BY <1>1, <2>1, <2>3, <2>4 DEF KeptBy
<1>5. QED
  BY <1>3, <1>4

\* What is kept of a snippet that goes on, and of the others, is kept.
LEMMA GoesOn ==
  ASSUME TypeOK, Inv, NEW k \in Kernel, running[k] # NoCommand, UNCHANGED runtime,
         NEW paths, NEW after \in [Path -> Stored], Changes(k, paths, after),
         \A p \in Path \ paths : after[p] = Here(k)[p],
         NEW to \in Stages, stage' = [stage EXCEPT ![k] = to],
         handle' \in [Kernel -> Path \cup {NoPath}],
         seen' \in [Kernel -> Stored],
         \A j \in Kernel \ {k} : seen'[j] = seen[j] /\ Unmoved(j, k, paths),
         to = "open" /\ k \notin clashed => Holding(running[k], handle'[k], after),
         to = "printing" /\ k \notin clashed => Done(running[k], seen'[k], after)
  PROVE  TypeOK' /\ Inv'
<1>1. UNCHANGED <<local, running>>
  BY DEF runtime, places
<1>2. /\ disk' \in [Place -> [Path -> Stored]] /\ clashed' \subseteq Kernel
      /\ disk'[Home(k)] = after /\ (k \notin clashed' => k \notin clashed)
  BY ChangesType DEF Changes
<1>3. stage' \in [Kernel -> Stages] /\ stage'[k] = to /\ \A j \in Kernel \ {k} : stage'[j] = stage[j]
  BY DEF TypeOK
<1>4. Here(k)' = after
  BY <1>1, <1>2 DEF Here, Home
<1>5. KeptBy(k)'
  BY <1>1, <1>2, <1>3, <1>4 DEF KeptBy
<1>6. \A j \in Kernel \ {k} : KeptBy(j)'
  BY <1>1, <1>3, OthersKeep
<1>7. Kept'
  BY <1>5, <1>6 DEF Kept
<1>8. QED
  BY <1>2, <1>3, <1>7, OnDisk DEF DiskTypeOK

\* A step that only looks changes nothing.
LEMMA LooksOn ==
  ASSUME TypeOK, NEW k \in Kernel, UNCHANGED <<disk, clashed>>
  PROVE  Changes(k, {}, Here(k))
<1>1. disk' = [disk EXCEPT ![Home(k)] = Here(k)]
  BY DEF Here, TypeOK
<1>2. Meets(k, {}) = {}
  BY DEF Meets
<1>3. QED
  BY <1>1, <1>2 DEF Changes

-----------------------------------------------------------------------------
(***************************************************************************)
(* The snippets, step by step.                                             *)
(***************************************************************************)
LEMMA BeginsKeeps ==
  ASSUME TypeOK, Inv, NEW k \in Kernel, Begins(k)
  PROVE  TypeOK' /\ Inv'
<1>1. CallsTypeOK(Command, Output)' /\ Lines'
  BY StartKeeps DEF Begins
<1>2. DiskTypeOK'
  BY DEF Begins, TypeOK, DiskTypeOK, snippet, Stored, Stages, Place
<1>3. /\ running[k] = NoCommand /\ local' = local /\ UNCHANGED <<disk, snippet>>
      /\ \A j \in Kernel \ {k} : running'[j] = running[j]
  BY DEF Begins, Start, TypeOK, CallsTypeOK, places
<1>4. stage[k] = "begun"
  BY <1>3 DEF Inv, Kept, KeptBy
<1>5. KeptBy(k)'
  BY <1>3, <1>4 DEF KeptBy, snippet
<1>6. \A j \in Kernel \ {k} : KeptBy(j)'
  BY <1>3 DEF Inv, Kept, KeptBy, Here, Home, snippet
<1>7. Kept'
  BY <1>5, <1>6 DEF Kept
<1>8. QED
  BY <1>1, <1>2, <1>7, ApartNext DEF Inv, Lines

LEMMA OpensKeeps ==
  ASSUME TypeOK, Inv, NEW k \in Kernel, Opens(k)
  PROVE  TypeOK' /\ Inv'
<1>1. running[k] # NoCommand
  BY DEF Opens, To, At
<1>2. PICK p \in Path : p = running[k].path
  BY <1>1, RunningType
<1>3. PICK after : after = [Here(k) EXCEPT ![p] = "part"]
  OBVIOUS
<1>4. /\ after \in [Path -> Stored] /\ after[p] = "part"
      /\ \A x \in Path \ {p} : after[x] = Here(k)[x]
  BY <1>2, <1>3, HereType DEF Stored
<1>5. /\ Changes(k, {p}, after) /\ stage' = [stage EXCEPT ![k] = "open"]
      /\ handle' = [handle EXCEPT ![k] = p] /\ UNCHANGED <<runtime, seen>>
  BY <1>2, <1>3 DEF Opens, To
<1>6. /\ handle' \in [Kernel -> Path \cup {NoPath}] /\ handle'[k] = p
      /\ seen' \in [Kernel -> Stored]
      /\ \A j \in Kernel \ {k} : seen'[j] = seen[j] /\ Unmoved(j, k, {p})
  BY <1>5 DEF TypeOK, Unmoved
<1>7. Holding(running[k], handle'[k], after)
  BY <1>2, <1>4, <1>6 DEF Holding
<1>8. QED
  BY <1>1, <1>4, <1>5, <1>6, <1>7, GoesOn DEF Stages

(* Unless others came between, the file has just the content that was to   *)
(* be written.                                                             *)
LEMMA FillsKeeps ==
  ASSUME TypeOK, Inv, NEW k \in Kernel, Fills(k)
  PROVE  TypeOK' /\ Inv'
<1>1. running[k] # NoCommand /\ running[k].op \in Writes /\ stage[k] = "open"
  BY DEF Fills, To, At
<1>2. PICK at : at = {handle[k]} \ {NoPath}
  OBVIOUS
<1>3. PICK new \in {running[k].data} \cup IF k \in clashed THEN {"part"} ELSE {} :
        Changes(k, at, [p \in Path |-> IF p \in at THEN new ELSE Here(k)[p]])
  BY <1>2 DEF Fills
<1>4. PICK after : after = [p \in Path |-> IF p \in at THEN new ELSE Here(k)[p]]
  OBVIOUS
<1>5. new \in Stored
  BY <1>1, <1>3, RunningType DEF Stored
<1>6. after \in [Path -> Stored] /\ \A p \in Path \ at : after[p] = Here(k)[p]
  BY <1>4, <1>5, HereType
<1>7. /\ Changes(k, at, after) /\ stage' = [stage EXCEPT ![k] = "printing"]
      /\ UNCHANGED <<runtime, handle, seen>>
  BY <1>3, <1>4 DEF Fills, To
<1>8. /\ handle' \in [Kernel -> Path \cup {NoPath}] /\ seen' \in [Kernel -> Stored]
      /\ \A j \in Kernel \ {k} : seen'[j] = seen[j] /\ Unmoved(j, k, at)
  BY <1>7 DEF TypeOK, Unmoved
<1>9. ASSUME k \notin clashed
      PROVE  Done(running[k], seen'[k], after)
  <2>1. Holding(running[k], handle[k], Here(k))
    BY <1>1, <1>9 DEF Inv, Kept, KeptBy
  <2>2. after[running[k].path] = new \/ handle[k] = NoPath
    BY <1>2, <1>4, <2>1 DEF Holding
  <2>3. after[running[k].path] = new
    BY <1>2, <1>4, <1>6, <2>1, <2>2, <1>7, NoPathAssumption DEF Holding
  <2>4. new = running[k].data
    BY <1>3, <1>9
  <2>5. QED
    BY <1>1, <2>3, <2>4 DEF Done, Holds, Writes
<1>10. QED
  BY <1>1, <1>6, <1>7, <1>8, <1>9, GoesOn DEF Stages

LEMMA OpensToReadKeeps ==
  ASSUME TypeOK, Inv, NEW k \in Kernel, OpensToRead(k)
  PROVE  TypeOK' /\ Inv'
<1>1. running[k] # NoCommand
  BY DEF OpensToRead, To, At
<1>2. PICK p \in Path : p = running[k].path
  BY <1>1, RunningType
<1>3. /\ stage' = [stage EXCEPT ![k] = "open"] /\ handle' = [handle EXCEPT ![k] = p]
      /\ Here(k)[p] \notin {"none", "dir"}
      /\ UNCHANGED <<runtime, disk, seen, clashed>>
  BY <1>2 DEF OpensToRead, To
<1>4. Changes(k, {}, Here(k)) /\ Here(k) \in [Path -> Stored]
  BY <1>3, LooksOn, HereType
<1>5. /\ handle' \in [Kernel -> Path \cup {NoPath}] /\ handle'[k] = p
      /\ seen' \in [Kernel -> Stored]
      /\ \A j \in Kernel \ {k} : seen'[j] = seen[j] /\ Unmoved(j, k, {})
  BY <1>3 DEF TypeOK, Unmoved
<1>6. Holding(running[k], handle'[k], Here(k))
  BY <1>2, <1>3, <1>5 DEF Holding
<1>7. QED
  BY <1>1, <1>3, <1>4, <1>5, <1>6, GoesOn DEF Stages

\* What is read is the file, if nobody came between.
LEMMA ReadingKeeps ==
  ASSUME TypeOK, Inv, NEW k \in Kernel, Reading(k)
  PROVE  TypeOK' /\ Inv'
<1>1. running[k] # NoCommand /\ running[k].op = "read" /\ stage[k] = "open"
  BY DEF Reading, To, At
<1>2. PICK held \in IF k \in clashed THEN Content \cup {"part"} ELSE {Here(k)[handle[k]]} :
        seen' = [seen EXCEPT ![k] = held]
  BY DEF Reading
<1>3. /\ stage' = [stage EXCEPT ![k] = "printing"]
      /\ UNCHANGED <<runtime, disk, handle, clashed>>
  BY DEF Reading, To
<1>4. Changes(k, {}, Here(k)) /\ Here(k) \in [Path -> Stored]
  BY <1>3, LooksOn, HereType
<1>5. ASSUME k \notin clashed
      PROVE  /\ held \in Stored
             /\ Done(running[k], held, Here(k))
  <2>1. Holding(running[k], handle[k], Here(k)) /\ held = Here(k)[handle[k]]
    BY <1>1, <1>2, <1>5 DEF Inv, Kept, KeptBy
  <2>2. held = Here(k)[running[k].path] /\ held \in Stored
    BY <2>1, HereType DEF Holding
  <2>3. QED
    BY <1>1, <2>2 DEF Done, Holds, Writes
<1>6. held \in Stored
  BY <1>2, <1>5 DEF Stored
<1>7. /\ handle' \in [Kernel -> Path \cup {NoPath}] /\ seen'[k] = held
      /\ seen' \in [Kernel -> Stored]
      /\ \A j \in Kernel \ {k} : seen'[j] = seen[j] /\ Unmoved(j, k, {})
  BY <1>2, <1>3, <1>6 DEF TypeOK, Unmoved
<1>8. QED
  BY <1>1, <1>3, <1>4, <1>5, <1>7, GoesOn DEF Stages

LEMMA LooksKeeps ==
  ASSUME TypeOK, Inv, NEW k \in Kernel, Looks(k)
  PROVE  TypeOK' /\ Inv'
<1>1. running[k] # NoCommand /\ UNCHANGED <<runtime, disk, handle, seen, clashed>>
  BY DEF Looks, At
<1>2. PICK to \in {"dir", "other"} : stage' = [stage EXCEPT ![k] = to]
  BY DEF Looks
<1>3. Changes(k, {}, Here(k)) /\ Here(k) \in [Path -> Stored]
  BY <1>1, LooksOn, HereType
<1>4. /\ handle' \in [Kernel -> Path \cup {NoPath}] /\ seen' \in [Kernel -> Stored]
      /\ \A j \in Kernel \ {k} : seen'[j] = seen[j] /\ Unmoved(j, k, {})
  BY <1>1 DEF TypeOK, Unmoved
<1>5. to \in Stages /\ to # "open" /\ to # "printing"
  BY DEF Stages
<1>6. QED
  BY <1>1, <1>2, <1>3, <1>4, <1>5, GoesOn

LEMMA RenameIs ==
  ASSUME TypeOK, NEW k \in Kernel, NEW names,
         \A x \in DOMAIN names : names[x] \in Path \cup {NoPath},
         Rename(k, names)
  PROVE  /\ handle' \in [Kernel -> Path \cup {NoPath}]
         /\ \A j \in Kernel : handle'[j] # handle[j] =>
              Home(j) = Home(k) /\ handle[j] \in DOMAIN names
BY DEF TypeOK, Rename

LEMMA DeletingKeeps ==
  ASSUME TypeOK, Inv, NEW k \in Kernel, Deleting(k)
  PROVE  TypeOK' /\ Inv'
<1>1. /\ running[k] # NoCommand /\ running[k].op = "delete"
      /\ stage' = [stage EXCEPT ![k] = "printing"] /\ UNCHANGED <<runtime, seen>>
  BY DEF Deleting, To, At
<1>2. PICK p \in Path : p = running[k].path
  BY <1>1, RunningType
<1>3. PICK after : after = [Here(k) EXCEPT ![p] = "none"]
  OBVIOUS
<1>4. PICK paths : paths = Differ(k, after)
  OBVIOUS
<1>5. PICK names : names = [x \in {p} |-> NoPath]
  OBVIOUS
<1>6. Changes(k, paths, after) /\ Rename(k, names)
  BY <1>2, <1>3, <1>4, <1>5 DEF Deleting
<1>7. /\ after \in [Path -> Stored] /\ after[p] = "none"
      /\ \A x \in Path \ paths : after[x] = Here(k)[x]
      /\ p \in paths \/ Here(k)[p] = "none"
  BY <1>2, <1>3, <1>4, HereType DEF Stored, Differ
<1>8. DOMAIN names = {p} /\ \A x \in DOMAIN names : names[x] \in Path \cup {NoPath}
  BY <1>5
<1>9. /\ handle' \in [Kernel -> Path \cup {NoPath}]
      /\ \A j \in Kernel : handle'[j] # handle[j] => Home(j) = Home(k) /\ handle[j] = p
  BY <1>6, <1>8, RenameIs
<1>10. /\ seen' \in [Kernel -> Stored]
       /\ \A j \in Kernel \ {k} : seen'[j] = seen[j] /\ Unmoved(j, k, paths)
  BY <1>1, <1>7, <1>9 DEF TypeOK, Unmoved
<1>11. Done(running[k], seen'[k], after)
  BY <1>1, <1>2, <1>7 DEF Done, Holds, Writes
<1>12. QED
  BY <1>1, <1>6, <1>7, <1>9, <1>10, <1>11, GoesOn DEF Stages

LEMMA MakingDirectoryKeeps ==
  ASSUME TypeOK, Inv, NEW k \in Kernel, MakingDirectory(k)
  PROVE  TypeOK' /\ Inv'
<1>1. /\ running[k] # NoCommand /\ running[k].op = "mkdir"
      /\ stage' = [stage EXCEPT ![k] = "printing"] /\ UNCHANGED <<runtime, handle, seen>>
  BY DEF MakingDirectory, To, At
<1>2. PICK p \in Path : p = running[k].path
  BY <1>1, RunningType
<1>3. PICK after : after = [Here(k) EXCEPT ![p] = "dir"]
  OBVIOUS
<1>4. PICK paths : paths = Differ(k, after)
  OBVIOUS
<1>5. Changes(k, paths, after)
  BY <1>2, <1>3, <1>4 DEF MakingDirectory
<1>6. /\ after \in [Path -> Stored] /\ after[p] = "dir"
      /\ \A x \in Path \ paths : after[x] = Here(k)[x]
  BY <1>2, <1>3, <1>4, HereType DEF Stored, Differ
<1>7. /\ handle' \in [Kernel -> Path \cup {NoPath}] /\ seen' \in [Kernel -> Stored]
      /\ \A j \in Kernel \ {k} : seen'[j] = seen[j] /\ Unmoved(j, k, paths)
  BY <1>1 DEF TypeOK, Unmoved
<1>8. Done(running[k], seen'[k], after)
  BY <1>1, <1>2, <1>6 DEF Done, Holds, Writes
<1>9. QED
  BY <1>1, <1>5, <1>6, <1>7, <1>8, GoesOn DEF Stages

LEMMA MovingKeeps ==
  ASSUME TypeOK, Inv, NEW k \in Kernel, Moving(k)
  PROVE  TypeOK' /\ Inv'
<1>1. /\ running[k] # NoCommand /\ running[k].op = "move"
      /\ stage' = [stage EXCEPT ![k] = "printing"] /\ UNCHANGED runtime
  BY DEF Moving, To, At
<1>2. PICK p \in Path, q \in Path : p = running[k].path /\ q = running[k].to
  BY <1>1, RunningType
<1>3. PICK inside \in BOOLEAN : inside <=> Here(k)[q] = "dir"
  OBVIOUS
<1>4. PICK held : held = Here(k)[p]
  OBVIOUS
<1>5. PICK after :
        after = [Here(k) EXCEPT ![p] = "none", ![q] = IF inside THEN "dir" ELSE held]
  OBVIOUS
<1>6. PICK paths : paths = {p} \cup IF inside THEN {} ELSE {q}
  OBVIOUS
<1>7. PICK names : names = [x \in {p, q} |-> IF x = p /\ ~inside THEN q ELSE NoPath]
  OBVIOUS
<1>8. p # q /\ Changes(k, paths, after) /\ Rename(k, names)
  BY <1>2, <1>3, <1>4, <1>5, <1>6, <1>7 DEF Moving, To
<1>9. seen' = [seen EXCEPT ![k] = held] /\ held \in Stored
  BY <1>2, <1>4, HereType DEF Moving
<1>10. /\ after \in [Path -> Stored] /\ after[p] = "none" /\ after[q] \in {held, "dir"}
       /\ \A x \in Path \ paths : after[x] = Here(k)[x]
       /\ p \in paths /\ (q \in paths \/ Here(k)[q] = "dir")
  <2>1. Here(k) \in [Path -> Stored] /\ "none" \in Stored /\ "dir" \in Stored
    BY HereType DEF Stored
  <2>2. after \in [Path -> Stored] /\ after[p] = "none" /\ after[q] \in {held, "dir"}
    BY <1>5, <1>8, <1>9, <2>1
  <2>3. \A x \in Path \ paths : after[x] = Here(k)[x]
    BY <1>3, <1>5, <1>6, <2>1
  <2>4. QED
    BY <1>3, <1>6, <2>2, <2>3
<1>11. DOMAIN names = {p, q} /\ \A x \in DOMAIN names : names[x] \in Path \cup {NoPath}
  BY <1>7
<1>12. /\ handle' \in [Kernel -> Path \cup {NoPath}]
       /\ \A j \in Kernel : handle'[j] # handle[j] => Home(j) = Home(k) /\ handle[j] \in {p, q}
  BY <1>8, <1>11, RenameIs
<1>13. /\ seen' \in [Kernel -> Stored] /\ seen'[k] = held
       /\ \A j \in Kernel \ {k} : seen'[j] = seen[j] /\ Unmoved(j, k, paths)
  BY <1>9, <1>10, <1>12 DEF TypeOK, Unmoved
<1>14. Done(running[k], seen'[k], after)
  BY <1>1, <1>2, <1>10, <1>13 DEF Done, Holds, Writes
<1>15. QED
  BY <1>1, <1>8, <1>10, <1>12, <1>13, <1>14, GoesOn DEF Stages

-----------------------------------------------------------------------------
(***************************************************************************)
(* The end of a snippet: what it prints is true of the workspace.          *)
(***************************************************************************)
LEMMA RestsKept ==
  ASSUME TypeOK, Inv, NEW k \in Kernel, Rests(k), UNCHANGED <<local, disk>>,
         running'[k] = NoCommand, \A j \in Kernel \ {k} : running'[j] = running[j]
  PROVE  DiskTypeOK' /\ Kept'
<1>1. DiskTypeOK'
  BY DEF Rests, TypeOK, DiskTypeOK, Stages, Stored, Place
<1>2. /\ stage'[k] = "begun"
      /\ \A j \in Kernel \ {k} : /\ stage'[j] = stage[j] /\ handle'[j] = handle[j]
                                 /\ seen'[j] = seen[j]
                                 /\ j \notin clashed' => j \notin clashed
  BY DEF Rests, TypeOK
<1>3. KeptBy(k)'
  BY <1>2 DEF KeptBy
<1>4. \A j \in Kernel \ {k} : KeptBy(j)'
  BY <1>2 DEF Inv, Kept, KeptBy, Here, Home
<1>5. Kept'
  BY <1>3, <1>4 DEF Kept
<1>6. QED
  BY <1>1, <1>5

LEMMA ResultIs ==
  ASSUME TypeOK, Inv, NEW k \in Kernel, NEW done \in BOOLEAN, NEW o, o = Result(k, done),
         done => stage[k] = "printing"
  PROVE  /\ o \in Output
         /\ o.done /\ o.shown # "cut" => o.clash \/ Holds(running[k], o)
<1>1. seen[k] \in Stored /\ Here(k) \in [Path -> Stored]
  BY HereType DEF TypeOK
<1>2. Cut(seen[k]) \in Stored \cup {"cut"} /\ (Cut(seen[k]) # "cut" => Cut(seen[k]) = seen[k])
  BY <1>1 DEF Cut
<1>3. PICK clash \in BOOLEAN : clash <=> k \in clashed
  OBVIOUS
<1>4. o = [done |-> done, shown |-> Cut(seen[k]), after |-> Here(k), clash |-> clash]
  BY <1>3, Zenon DEF Result
<1>5. o \in Output
  BY <1>1, <1>2, <1>4 DEF Output
<1>6. ASSUME o.done, o.shown # "cut", ~o.clash
      PROVE  Holds(running[k], o)
  <2>1. stage[k] = "printing" /\ k \notin clashed
    BY <1>3, <1>4, <1>6
  <2>2. Done(running[k], seen[k], Here(k)) /\ running[k] # NoCommand
    BY <2>1 DEF Inv, Kept, KeptBy
  <2>3. running[k].op \in Ops
    BY <2>2, RunningType DEF Command
  <2>4. o.shown = seen[k] /\ o.after = Here(k)
    BY <1>2, <1>4, <1>6
  <2>5. QED
    BY <2>2, <2>3, <2>4 DEF Done, Holds, Ops, Writes
<1>7. QED
  BY <1>5, <1>6

LEMMA EndsKeeps ==
  ASSUME TypeOK, Inv, NEW k \in Kernel, NEW done \in BOOLEAN,
         done => stage[k] = "printing",
         Finish(k, Result(k, done)), Rests(k), UNCHANGED queue \/ Abort(k), UNCHANGED disk
  PROVE  TypeOK' /\ Inv'
<1>1. PICK o : o = Result(k, done)
  OBVIOUS
<1>2. /\ o \in Output
      /\ o.done /\ o.shown # "cut" => o.clash \/ Holds(running[k], o)
  BY <1>1, ResultIs
<1>3. CallsTypeOK(Command, Output)' /\ Lines'
  BY <1>1, <1>2, FinishKeeps
<1>4. local' = local /\ running'[k] = NoCommand /\ \A j \in Kernel \ {k} : running'[j] = running[j]
  BY DEF Finish, TypeOK, CallsTypeOK, places
<1>5. DiskTypeOK' /\ Kept'
  BY <1>4, RestsKept
<1>6. QED
  BY <1>3, <1>5, ApartNext DEF Inv, Lines

LEMMA SnippetEndsKeeps ==
  ASSUME TypeOK, Inv, NEW k \in Kernel, Prints(k) \/ NotFound(k) \/ Raises(k)
  PROVE  TypeOK' /\ Inv'
<1>1. CASE Prints(k)
  BY <1>1, EndsKeeps DEF Prints, At
<1>2. CASE NotFound(k)
  BY <1>2, EndsKeeps DEF NotFound
<1>3. CASE Raises(k)
  BY <1>3, EndsKeeps DEF Raises
<1>4. QED
  BY <1>1, <1>2, <1>3

LEMMA DropsKeeps ==
  ASSUME TypeOK, Inv, NEW k \in Kernel, Drops(k)
  PROVE  TypeOK' /\ Inv'
<1>1. CallsTypeOK(Command, Output)' /\ Lines'
  BY DropKeeps DEF Drops
<1>2. local' = local /\ running'[k] = NoCommand /\ \A j \in Kernel \ {k} : running'[j] = running[j]
  BY DEF Drops, Drop, TypeOK, CallsTypeOK, places
<1>3. DiskTypeOK' /\ Kept'
  BY <1>2, RestsKept DEF Drops
<1>4. QED
  BY <1>1, <1>3, ApartNext DEF Inv, Lines

LEMMA AskKeeps ==
  ASSUME TypeOK, Inv, NEW op \in Ops, NEW s \in Session, NEW p \in Path,
         NEW q \in Path \cup {NoPath}, NEW d \in Content \cup {"none"},
         op = "move" => q \in Path,
         Ask(op, s, p, q, d)
  PROVE  TypeOK' /\ Inv'
<1> DEFINE c == [id |-> calls + 1, op |-> op, kernel |-> kernel[s], path |-> p, to |-> q,
                 data |-> d]
<1>1. Send(s, c) /\ UNCHANGED <<disk, snippet>>
  BY DEF Ask
<1>2. calls + 1 \in Id /\ kernel[s] \in Kernel
  BY <1>1, MaxCallsAssumption DEF Send, MayCall, TypeOK, CallsTypeOK, Id
<1>3. /\ c \in Command /\ c.id = calls + 1 /\ (c.op = "move" => c.to \in Path)
      /\ c.kernel = kernel[s]
  BY <1>2 DEF Command
<1> HIDE DEF c
<1>4. CallsTypeOK(Command, Output)' /\ Lines'
  BY <1>1, <1>3, SendKeeps
<1>5. UNCHANGED <<local, running>>
  BY <1>1 DEF Send, places
<1>6. QED
  BY <1>1, <1>4, <1>5, OffDisk

-----------------------------------------------------------------------------
(***************************************************************************)
(* The specification.                                                      *)
(***************************************************************************)
LEMMA StartsRight == Init => TypeOK /\ Inv
<1> SUFFICES ASSUME Init
             PROVE  TypeOK /\ Inv
  OBVIOUS
<1>1. CallsTypeOK(Command, Output)
  BY MaxCallsAssumption, EmptySeq DEF Init, CallsInit, CallsTypeOK, Id
<1>2. TypeOK
  BY <1>1 DEF Init, TypeOK, Stored, Stages
<1>3. DOMAIN <<>> = {}
  OBVIOUS
<1>4. Kept
  BY DEF Init, Kept, KeptBy
<1>5. Inv
  BY <1>3, <1>4 DEF Init, CallsInit, Inv, Sent, LastInLine, Printed, Answered, Matters
<1>6. QED
  BY <1>2, <1>5

LEMMA CallsKeep ==
  ASSUME TypeOK, Inv, NEW s \in Session, Calls(s)
  PROVE  TypeOK' /\ Inv'
<1>1. CASE Reconnects(s)
  <2>1. CallsTypeOK(Command, Output)' /\ Lines'
    BY <1>1, ReconnectKeeps DEF Reconnects
  <2>2. UNCHANGED <<disk, snippet, local, running>>
    BY <1>1 DEF Reconnects, Reconnect
  <2>3. QED
    BY <2>1, <2>2, OffDisk
<1>2. CASE ~Reconnects(s)
  <2>1. PICK p \in Path : \/ (\E d \in Content : Store(s, p, d))
                         \/ (\E q \in Path \ {p} : MoveFile(s, p, q))
                         \/ Show(s, p) \/ Directory(s, p) \/ DeleteFile(s, p)
    BY <1>2 DEF Calls
  <2>2. PICK op \in Ops, q \in Path \cup {NoPath}, d \in Content \cup {"none"} :
          Ask(op, s, p, q, d) /\ (op = "move" => q \in Path)
    BY <2>1 DEF Store, MoveFile, Show, Directory, DeleteFile, Ops, Writes
  <2>3. QED
    BY <2>2, AskKeeps
<1>3. QED
  BY <1>1, <1>2

LEMMA StepKeeps ==
  ASSUME TypeOK, Inv, [Next]_vars
  PROVE  TypeOK' /\ Inv'
<1>1. ASSUME NEW k \in Kernel, Snippet(k)
      PROVE  TypeOK' /\ Inv'
  BY <1>1, BeginsKeeps, OpensKeeps, FillsKeeps, OpensToReadKeeps, ReadingKeeps, LooksKeeps,
     DeletingKeeps, MakingDirectoryKeeps, MovingKeeps, SnippetEndsKeeps, DropsKeeps DEF Snippet
<1>2. CASE Reject
  <2>1. CallsTypeOK(Command, Output)' /\ Lines' /\ UNCHANGED <<disk, snippet, local, running>>
    BY <1>2, RefusedKeeps DEF Reject, Refused, places
  <2>2. QED
    BY <2>1, OffDisk
<1>3. CASE Answer
  <2>1. PICK how \in {"ok", "error"} : how = IF Understood THEN "ok" ELSE "error"
    OBVIOUS
  <2>2. Reply(how) /\ output # NoOutput /\ UNCHANGED <<disk, snippet>>
    BY <1>3, <2>1 DEF Answer
  <2>3. CallsTypeOK(Command, Output)' /\ Lines' /\ UNCHANGED <<disk, snippet, local, running>>
    BY <2>1, <2>2, ReplyKeeps DEF Reply, places
  <2>4. QED
    BY <2>3, OffDisk
<1>4. CASE GiveUp
  <2>1. CallsTypeOK(Command, Output)' /\ Lines' /\ UNCHANGED <<disk, snippet, local, running>>
    BY <1>4, ReplyKeeps DEF GiveUp, Reply, places
  <2>2. QED
    BY <2>1, OffDisk
<1>5. CASE UNCHANGED vars
  <2>1. UNCHANGED <<local, kernel, queue, running, call, output, reply, calls, disk, snippet>>
    BY <1>5 DEF vars, runtime, places
  <2>2. CallsTypeOK(Command, Output)' /\ Lines'
    BY <2>1 DEF TypeOK, CallsTypeOK, Inv, Lines, Sent, SentTo, LastInLine, Printed, Answered,
       Matters, Understood
  <2>3. QED
    BY <2>1, <2>2, OffDisk
<1>6. QED
  BY <1>1, <1>2, <1>3, <1>4, <1>5, CallsKeep DEF Next

(* TypeOK holds in every state: the queues hold commands and the           *)
(* workspaces files, whatever the snippets do.                             *)
THEOREM TypeCorrect == Spec => []TypeOK
<1>1. TypeOK /\ Inv /\ [Next]_vars => TypeOK' /\ Inv'
  BY StepKeeps
<1>2. QED
  BY StartsRight, <1>1, PTL DEF Spec

(* A call that answers ok did what it was asked, still so when its snippet *)
(* printed: the marked line it was told was printed by its own command,    *)
(* and none of the disk's other users has changed its path since it was    *)
(* first looked at; or one has, and the call is marked                     *)
(* (remote_fs.py:35-43, 57-59, 67-72, 94-96, 119-123).                     *)
THEOREM OkIsDone == Spec => []OkMeansDone
<1>1. TypeOK /\ Inv /\ [Next]_vars => TypeOK' /\ Inv'
  BY StepKeeps
<1>2. Inv => OkMeansDone
  BY DEF Inv, LastInLine, Printed, Answered, Matters, OkMeansDone
<1>3. QED
  BY StartsRight, <1>1, <1>2, PTL DEF Spec

(* When a call has answered ok its kernel is at rest: no write of a call   *)
(* that timed out there before can still happen, however often the session *)
(* is reconnected to that kernel and to others.                            *)
THEOREM OkIsLast == Spec => []OkSettles
<1>1. TypeOK /\ Inv /\ [Next]_vars => TypeOK' /\ Inv'
  BY StepKeeps
<1>2. Inv => OkSettles
  BY DEF Inv, Printed, Answered, Matters, OkSettles
<1>3. QED
  BY StartsRight, <1>1, <1>2, PTL DEF Spec
=============================================================================
