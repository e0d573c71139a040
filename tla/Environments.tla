---------------------------- MODULE Environments ----------------------------
(***************************************************************************)
(* colab/environment_manager.py: pip in the runtimes, and the environment  *)
(* profiles that are saved from one session and applied to another.        *)
(*                                                                         *)
(* Every operation is a command in the queue of a kernel (SessionCalls).   *)
(* Requirements travel in a file the server writes on its own disk and     *)
(* removes when the call ends.  Kernels on that disk share one Python, and *)
(* each runs its pip beside those of the others and beside the users'      *)
(* code; every other kernel has a Python of its own.                       *)
(***************************************************************************)
EXTENDS SessionCalls, FiniteSets

CONSTANTS Profile,
          Package,   \* numbered in the order in which pip lists them
          Version, Absent,
          NoProfile,
          MaxShown   \* packages that fit into the 8000 characters _run_pip keeps

ASSUME PackageAssumption == Package \subseteq Nat /\ MaxShown \in Nat
ASSUME AbsentAssumption == Absent \notin Version

VARIABLES
  installed,  \* the packages of each Python
  files,      \* calls whose requirements file is on the server's disk
  stage,      \* where the pip of a kernel stands
  listed,     \* what it has listed
  clashed,    \* history: kernels whose Python others changed while pip ran
  profile,    \* the profiles in _profiles.json
  saved,      \* history: what was installed when a profile was taken
  mixed       \* history: profiles taken while others changed that Python

pip == <<stage, listed, clashed>>
profiles == <<profile, saved, mixed>>
vars == <<runtime, installed, files, pip, profiles>>

Ops == {"install", "uninstall", "requirements", "apply", "list", "export", "save"}
Contents == [Package -> Version \cup {Absent}]
Command == [id : Id, op : Ops, arg : Contents, profile : Profile \cup {NoProfile}]

\* shown is what is passed on of a list, whole if that is all of it, after what
\* is installed when the command ends.
Output == [done : BOOLEAN, shown : Contents, whole : BOOLEAN, after : Contents,
           clash : BOOLEAN]

Nothing == [p \in Package |-> Absent]
Present(c) == {p \in Package : c[p] # Absent}

TypeOK ==
  /\ CallsTypeOK(Command, Output)
  /\ installed \in [Place -> Contents]
  /\ files \subseteq Id
  /\ stage \in [Kernel -> {"begun", "ready", "done"}]
  /\ listed \in [Kernel -> Contents]
  /\ clashed \subseteq Kernel
  /\ profile \in [Profile -> Contents \cup {NoProfile}]
  /\ saved \in [Profile -> Contents]
  /\ mixed \subseteq Profile

Init ==
  /\ CallsInit
  /\ installed = [e \in Place |-> Nothing]
  /\ files = {}
  /\ stage = [k \in Kernel |-> "begun"]
  /\ listed = [k \in Kernel |-> Nothing]
  /\ clashed = {}
  /\ profile = [n \in Profile |-> NoProfile]
  /\ saved = [n \in Profile |-> Nothing]
  /\ mixed = {}

-----------------------------------------------------------------------------
(* The calls, one at a time: each sends its command to the kernel.         *)

FromFile(op) == op \in {"requirements", "apply"}
Lists(op) == op \in {"list", "export", "save"}

Ask(op, s, arg, n) ==
  /\ Send(s, [id |-> calls + 1, op |-> op, arg |-> arg, profile |-> n])
  /\ files' = IF FromFile(op) THEN files \cup {calls + 1} ELSE files
  /\ UNCHANGED <<installed, pip, profiles>>

Only(p, v) == [Nothing EXCEPT ![p] = v]

InstallPackage(s, p, v) == Ask("install", s, Only(p, v), NoProfile)
\* pip uninstall takes name==version and ignores the version.
RemovePackage(s, p) == \E v \in Version : Ask("uninstall", s, Only(p, v), NoProfile)
ListPackages(s) == Ask("list", s, Nothing, NoProfile)
ExportRequirements(s) == Ask("export", s, Nothing, NoProfile)
InstallRequirements(s, pins) == Ask("requirements", s, pins, NoProfile)
SaveProfile(s, n) == Ask("save", s, Nothing, n)

\* Mutant: get_profile returns None for a profile that does not exist.
ApplyProfile_Unchecked(s, n) == Ask("apply", s, profile[n], n)

ApplyProfile(s, n) == profile[n] # NoProfile /\ Ask("apply", s, profile[n], n)

\* validate_package_name or get_profile raises.
Reject == Refused /\ UNCHANGED <<installed, files, pip, profiles>>

Reconnects(s) == Reconnect(s) /\ UNCHANGED <<installed, files, pip, profiles>>

-----------------------------------------------------------------------------
(* pip in the runtimes.                                                    *)

Here(k) == installed[Home(k)]

\* The pips under way at e, which have seen its Python.
UnderWay(e) == {j \in Kernel : Home(j) = e /\ stage[j] # "begun"}

\* That of k changes what the others have seen.
Changes(e, k, new) ==
  /\ installed' = [installed EXCEPT ![e] = new]
  /\ clashed' = clashed \cup (UnderWay(e) \ {k})

\* Of a kernel whose pip is over there is nothing more to tell.
Rests(k) == /\ stage' = [stage EXCEPT ![k] = "begun"]
            /\ listed' = [listed EXCEPT ![k] = Nothing]
            /\ clashed' = clashed \ {k}

PipStarts(k) == Start(k) /\ UNCHANGED <<installed, files, pip, profiles>>

To(k, from, to) == /\ running[k] # NoCommand
                   /\ stage[k] = from /\ stage' = [stage EXCEPT ![k] = to]

\* pip has read what it is to do.  Without its requirements file it fails.
PipReads(k) ==
  /\ To(k, "begun", "ready")
  /\ FromFile(running[k].op) => running[k].id \in files /\ k \in local
  /\ UNCHANGED <<runtime, installed, files, listed, clashed, profiles>>

\* What is to be replaced is removed first, in any order.
PipRemoves(k) ==
  /\ running[k] # NoCommand /\ stage[k] = "ready"
  /\ running[k].op = "install" \/ FromFile(running[k].op)
  /\ \E p \in Present(Here(k)) : Changes(Home(k), k, [Here(k) EXCEPT ![p] = Absent])
  /\ UNCHANGED <<runtime, files, stage, listed, profiles>>

\* What a command that succeeds makes of a Python: it may also bring in,
\* upgrade or drop packages others depend on, but pip never uninstalls those.
Outcomes(c, before) ==
  IF c.op = "uninstall"
    THEN {[p \in Package |-> IF c.arg[p] # Absent THEN Absent ELSE before[p]]}
    ELSE {new \in Contents : \A p \in Present(c.arg) : new[p] = c.arg[p]}

PipChanges(k) ==
  /\ To(k, "ready", "done") /\ ~Lists(running[k].op)
  /\ \E new \in Outcomes(running[k], Here(k)) : Changes(Home(k), k, new)
  /\ UNCHANGED <<runtime, files, listed, profiles>>

\* While others change a package pip may find it or not.
PipLists(k) ==
  /\ To(k, "ready", "done") /\ Lists(running[k].op)
  /\ \E seen \in IF k \in clashed THEN Contents ELSE {Here(k)} :
       listed' = [listed EXCEPT ![k] = seen]
  /\ UNCHANGED <<runtime, installed, files, clashed, profiles>>

\* Only the last lines of what pip prints are passed on.
Tails(c) == [p \in Package |->
  IF Cardinality({q \in Present(c) : q >= p}) <= MaxShown THEN c[p] ELSE Absent]

Prints(k, done) ==
  [done |-> done, shown |-> Tails(listed[k]), whole |-> Tails(listed[k]) = listed[k],
   after |-> Here(k), clash |-> k \in clashed]

\* pip has ended, with 0, and the snippet prints that.
PipSucceeds(k) ==
  /\ stage[k] = "done"
  /\ Finish(k, Prints(k, TRUE)) /\ Rests(k)
  /\ UNCHANGED <<queue, installed, files, profiles>>

\* It fails, or the snippet raises, wherever it stands.
PipFails(k) ==
  /\ Finish(k, Prints(k, FALSE)) /\ Rests(k)
  /\ UNCHANGED <<queue, installed, files, profiles>>

KernelDrops(k) ==
  /\ Drop(k) /\ Rests(k)
  /\ UNCHANGED <<installed, files, profiles>>

-----------------------------------------------------------------------------
(* The end of a call.                                                      *)

\* Mutant: the requirements file is not removed when the call fails.
EndCall_Leaves(how) ==
  /\ Reply(how)
  /\ files' = IF how = "ok" THEN files \ {call.id} ELSE files
  /\ UNCHANGED <<installed, pip>>

EndCall(how) ==
  /\ Reply(how)
  /\ files' = files \ {call.id}
  /\ UNCHANGED <<installed, pip>>

\* Mutant: the returncode is not looked at.
Understood_Unchecked == call.op \in {"list", "save"} => output.whole

\* Mutant: a list whose first part is cut off is taken for what is left of it.
Understood_Lenient == output.done

\* The returncode is 0, and the list is JSON from its first character on.
Understood == /\ output.done
              /\ call.op \in {"list", "save"} => output.whole

Answer ==
  /\ output # NoOutput /\ Understood
  /\ EndCall("ok")
  /\ IF call.op = "save"
       THEN /\ profile' = [profile EXCEPT ![call.profile] = output.shown]
            /\ saved' = [saved EXCEPT ![call.profile] = output.after]
            /\ mixed' = IF output.clash THEN mixed \cup {call.profile}
                                        ELSE mixed \ {call.profile}
       ELSE UNCHANGED profiles

AnswerError ==
  /\ output # NoOutput /\ ~Understood
  /\ EndCall("error")
  /\ UNCHANGED profiles

\* The call times out, or another thread took pip's output from the channel.
GiveUp == EndCall("error") /\ UNCHANGED profiles

-----------------------------------------------------------------------------
\* Code executed in a kernel may call pip itself, from a process of its own.
UserCode(e) ==
  /\ \E p \in Package, v \in Version \cup {Absent} :
       installed' = [installed EXCEPT ![e][p] = v]
  /\ clashed' = clashed \cup UnderWay(e)
  /\ UNCHANGED <<runtime, files, stage, listed, profiles>>

Calls(s) == \/ \E p \in Package, v \in Version : InstallPackage(s, p, v)
            \/ \E p \in Package : RemovePackage(s, p)
            \/ \E pins \in Contents \ {Nothing} : InstallRequirements(s, pins)
            \/ \E n \in Profile : SaveProfile(s, n) \/ ApplyProfile(s, n)
            \/ ListPackages(s) \/ ExportRequirements(s) \/ Reconnects(s)

Runtime(k) == \/ PipStarts(k) \/ PipReads(k) \/ PipRemoves(k) \/ PipChanges(k)
              \/ PipLists(k) \/ PipSucceeds(k) \/ PipFails(k) \/ KernelDrops(k)

Next == \/ \E s \in Session : Calls(s)
        \/ \E k \in Kernel : Runtime(k) \/ UserCode(Home(k))
        \/ Reject \/ Answer \/ AnswerError \/ GiveUp

Spec == Init /\ [][Next]_vars

-----------------------------------------------------------------------------
(* What must hold.                                                         *)

(* A call that answers ok did what it was asked: when its command ended,   *)
(* the packages were there (or gone), whatever earlier calls had timed out *)
(* and whatever other kernels do; unless another pip or a user's code has  *)
(* changed the same Python while its own pip ran.                          *)
OkMeansDone ==
  reply = "ok" =>
    \/ output.clash
    \/ \A p \in Present(call.arg) :
         output.after[p] = IF call.op = "uninstall" THEN Absent ELSE call.arg[p]

(* An apply that answers ok gives the session every package, in its        *)
(* version, that was installed where and when the profile was saved: no    *)
(* saved profile is a cut-off list (environment_manager.py:44, 66-73).     *)
(* Excepted are what is listed or applied while another changes the same   *)
(* Python: pip does not notice, and answers ok.                            *)
RestoresSaved ==
  reply = "ok" /\ call.op = "apply" =>
    \/ output.clash \/ call.profile \in mixed
    \/ \A p \in Present(saved[call.profile]) : output.after[p] = saved[call.profile][p]

(* No pip finds the requirements of a call whose client was told that it   *)
(* has failed, although its command is still in the queue or its pip on    *)
(* the way, and the client may have asked for something else (the finally  *)
(* in environment_manager.py:113-114).                                     *)
Reads(k) == stage[k] = "begun" /\ stage'[k] = "ready"

GivenUpInstallsNothing ==
  [][\A k \in Kernel :
       Reads(k) /\ FromFile(running[k].op) => Waiting /\ call.id = running[k].id]_vars

=============================================================================
