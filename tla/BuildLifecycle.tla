--------------------------- MODULE BuildLifecycle ---------------------------
(***************************************************************************)
(* What the queue promises about a build row, whoever touches it.  One     *)
(* worker holds at most one build at a time.  A row is taken from "queued" *)
(* by a claim, once; only the holder gives it the outcome of a container;  *)
(* an operator may cancel a row that is still live; the rows left          *)
(* "running" by nobody are failed together; a deleted row is gone.         *)
(*                                                                         *)
(* Settle does not require the row to be still running: finish_build has   *)
(* no condition on the status, so the holder overrides a cancellation that *)
(* arrived after the container's end was observed.                         *)
(***************************************************************************)
CONSTANTS Builds, None
VARIABLES status,   \* [Builds -> status of the row]
          holder    \* the build the worker is on, or None

lvars == <<status, holder>>

Ended == {"success", "failed", "cancelled"}

Init == /\ status = [b \in Builds |-> "absent"]
        /\ holder = None

Queue(b) == /\ status[b] = "absent"
            /\ status' = [status EXCEPT ![b] = "queued"]
            /\ UNCHANGED holder

Claim(b) == /\ holder = None
            /\ status[b] = "queued"
            /\ status' = [status EXCEPT ![b] = "running"]
            /\ holder' = b

Settle(s) == /\ holder # None
             /\ status[holder] \in {"running", "cancelled"}
             /\ status' = [status EXCEPT ![holder] = s]
             /\ UNCHANGED holder

\* The worker is done with its build, gave up on it, or died.
Release == /\ holder' = None
           /\ UNCHANGED status

Cancel(b) == /\ status[b] \in {"queued", "running"}
             /\ status' = [status EXCEPT ![b] = "cancelled"]
             /\ UNCHANGED holder

\* Nobody is on a build, so whatever is "running" is stale.
Reap == /\ holder = None
        /\ status' = [b \in Builds |-> IF status[b] = "running" THEN "failed"
                                                                ELSE status[b]]
        /\ UNCHANGED holder

Delete(S) == /\ \A b \in S : status[b] # "absent"
             /\ status' = [b \in Builds |-> IF b \in S THEN "deleted" ELSE status[b]]
             /\ UNCHANGED holder

Next == \/ \E b \in Builds : Queue(b) \/ Claim(b) \/ Cancel(b)
        \/ \E s \in Ended : Settle(s)
        \/ Release
        \/ Reap
        \/ \E S \in SUBSET Builds : Delete(S)

Spec == Init /\ [][Next]_lvars
=============================================================================
