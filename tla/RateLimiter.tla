---------------------------- MODULE RateLimiter ----------------------------
(***************************************************************************)
(* security/rate_limit.py: the sliding-window limiter of tool calls.       *)
(* check is one step: only the event loop calls it, so that it reads the   *)
(* clock outside the lock makes no difference.  The limit is on            *)
(* (MaxRequests > 0); with MAX_REQUESTS_PER_MINUTE = 0 check does nothing. *)
(***************************************************************************)
EXTENDS Naturals, Sequences, FiniteSets

CONSTANTS Principal,
          MaxRequests,  \* MAX_REQUESTS_PER_MINUTE
          Window,       \* _window_seconds, in ticks
          MaxClock      \* bound: how far the clock runs

VARIABLES
  clock,     \* time.monotonic()
  events,    \* RateLimiter._events: the deque of each principal
  admitted,  \* history: when each principal's calls were admitted
  reply      \* what check last answered each principal

vars == <<clock, events, admitted, reply>>

TypeOK ==
  /\ clock \in 0..MaxClock
  /\ events \in [Principal -> Seq(0..MaxClock)]
  /\ admitted \in [Principal -> Seq(0..MaxClock)]
  /\ reply \in [Principal -> {"none", "admitted", "refused"}]

Init ==
  /\ clock = 0
  /\ events = [p \in Principal |-> <<>>]
  /\ admitted = [p \in Principal |-> <<>>]
  /\ reply = [p \in Principal |-> "none"]

Tick == /\ clock < MaxClock
        /\ clock' = clock + 1
        /\ UNCHANGED <<events, admitted, reply>>

Expired(e) == e + Window < clock

\* Popping from the left stops at the first event that has not expired.
Purged(q) ==
  LET popped == CHOOSE k \in 0..Len(q) :
                  /\ \A i \in 1..k : Expired(q[i])
                  /\ k < Len(q) => ~Expired(q[k + 1])
  IN SubSeq(q, popped + 1, Len(q))

\* Mutant: a refused call is recorded too.
Refuse_Recorded(p) ==
  /\ Len(Purged(events[p])) >= MaxRequests
  /\ events' = [events EXCEPT ![p] = Append(Purged(@), clock)]
  /\ reply' = [reply EXCEPT ![p] = "refused"]
  /\ UNCHANGED <<clock, admitted>>

Refuse(p) ==
  /\ Len(Purged(events[p])) >= MaxRequests
  /\ events' = [events EXCEPT ![p] = Purged(@)]
  /\ reply' = [reply EXCEPT ![p] = "refused"]
  /\ UNCHANGED <<clock, admitted>>

\* Mutant: the deque holds when an event expires, and is read as before.
Admit_ExpiryTime(p) ==
  /\ Len(Purged(events[p])) < MaxRequests
  /\ events' = [events EXCEPT ![p] = Append(Purged(@), clock + Window)]
  /\ admitted' = [admitted EXCEPT ![p] = Append(@, clock)]
  /\ reply' = [reply EXCEPT ![p] = "admitted"]
  /\ UNCHANGED clock

Admit(p) ==
  /\ Len(Purged(events[p])) < MaxRequests
  /\ events' = [events EXCEPT ![p] = Append(Purged(@), clock)]
  /\ admitted' = [admitted EXCEPT ![p] = Append(@, clock)]
  /\ reply' = [reply EXCEPT ![p] = "admitted"]
  /\ UNCHANGED clock

Next == Tick \/ \E p \in Principal : Refuse(p) \/ Admit(p)

Spec == Init /\ [][Next]_vars
=============================================================================
