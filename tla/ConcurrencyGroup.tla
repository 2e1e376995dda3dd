-------------------------- MODULE ConcurrencyGroup --------------------------
(***************************************************************************)
(* What docs/reference.md ("Concurrency") promises of one concurrency      *)
(* group, without saying how: members queue for the group, at most one     *)
(* executes, a member starts only when nobody else executes, a workflow    *)
(* run cancelled while it waits ends without ever starting, and a member   *)
(* that has finished does not come back.  ConcurrencyGate implements this. *)
(***************************************************************************)

CONSTANT Members \* workflow runs and workflow jobs that evaluate to the group

VARIABLE stage   \* where each member is in its life

Stage == {"queued", "condemned", "executing", "finished"}

Executing == {m \in Members : stage[m] = "executing"}

(* A run that was executing before the gate existed keeps executing.        *)
Init ==
    /\ stage \in [Members -> {"queued", "executing"}]
    /\ \A m, n \in Executing : m = n

Start(m) ==
    /\ stage[m] = "queued"
    /\ Executing = {}
    /\ stage' = [stage EXCEPT ![m] = "executing"]

Condemn(m) ==
    /\ stage[m] = "queued"
    /\ stage' = [stage EXCEPT ![m] = "condemned"]

Finish(m) ==
    /\ stage[m] # "finished"
    /\ stage' = [stage EXCEPT ![m] = "finished"]

Next == \E m \in Members : Start(m) \/ Condemn(m) \/ Finish(m)

Spec == Init /\ [][Next]_stage

=============================================================================
