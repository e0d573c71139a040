---------------------------- MODULE JobLifecycle ----------------------------
(***************************************************************************)
(* The life of a job as docs/TOOLS.md:116-117 draws it: queued, starting,  *)
(* running (paused and resumed any number of times), then one terminal     *)
(* status, for good.  test_cancel_queued_job and the slot timeout add the  *)
(* arrow from queued to a terminal status; a job whose deadline passes     *)
(* before its worker runs adds the one from starting.                      *)
(***************************************************************************)
CONSTANT Job

VARIABLE status

Terminal == {"completed", "failed", "cancelled", "timeout"}

Arrows == {<<"absent", "queued">>, <<"queued", "starting">>,
           <<"starting", "running">>, <<"running", "paused">>,
           <<"paused", "running">>}
          \cup ({"queued", "starting", "running", "paused"} \X Terminal)

Init == status = [j \in Job |-> "absent"]

Follow(j) == \E arrow \in Arrows :
               /\ status[j] = arrow[1]
               /\ status' = [status EXCEPT ![j] = arrow[2]]

Next == \E j \in Job : Follow(j)

Safety == Init /\ [][Next]_status
=============================================================================
