------------------------------ MODULE SlotPool ------------------------------
(***************************************************************************)
(* What MAX_CONCURRENT_JOBS promises, without saying how: a pool of Max    *)
(* slots.  A job asks for a slot, is given one or is refused, and gives    *)
(* back at most once what it was given.  A slot whose holder died between  *)
(* the two is lost: nobody else can give it back.  Jobs implements this.   *)
(***************************************************************************)
EXTENDS Naturals

CONSTANTS Job, Max

VARIABLES phase,    \* what each job has asked of the pool, and been given
          free      \* the slots nobody holds

vars == <<phase, free>>

Phases == {"out", "waiting", "holding", "refused", "returned", "lost"}

Init == /\ phase = [j \in Job |-> "out"]
        /\ free = Max

Become(j, from, to) == /\ phase[j] = from
                       /\ phase' = [phase EXCEPT ![j] = to]

Ask(j) == Become(j, "out", "waiting") /\ UNCHANGED free

Give(j) == /\ free > 0
           /\ Become(j, "waiting", "holding")
           /\ free' = free - 1

\* Only a pool with no free slot refuses.
Refuse(j) == /\ free = 0
             /\ Become(j, "waiting", "refused")
             /\ UNCHANGED free

Return(j) == /\ Become(j, "holding", "returned")
             /\ free' = free + 1

Lose(j) == Become(j, "holding", "lost") /\ UNCHANGED free

Next == \E j \in Job : Ask(j) \/ Give(j) \/ Refuse(j) \/ Return(j) \/ Lose(j)

Safety == Init /\ [][Next]_vars
=============================================================================
