----------------------------- MODULE MCJobGraph -----------------------------
(* Workflows for JobGraph.                                                 *)
EXTENDS JobGraph, TLC

(* A workflow of the jobs a, b and c; the sets name the jobs that have the *)
(* attribute.                                                              *)
Base ==
    [order |-> <<"a", "b">>, needs |-> [i \in {"a", "b"} |-> IF i = "b" THEN {"a"} ELSE {}],
     cond |-> [i \in {"a", "b"} |-> "none"], width |-> [i \in {"a", "b"} |-> 0],
     deferred |-> {}, tolerate |-> {}, failFast |-> {}, gated |-> {}, unplannable |-> {},
     runGate |-> FALSE, approval |-> FALSE, mayFail |-> FALSE, deletable |-> {}, outcomes |-> {"success", "failure"}]

(* A matrix with fail-fast, and a job that runs after a failure.           *)
Matrix == [Base EXCEPT !.width = [@ EXCEPT !["a"] = 2], !.failFast = {"a"}, !.cond = [@ EXCEPT !["b"] = "failure"]]

(* A chain whose middle job is planned when the first one has a result.    *)
Chain ==
    [Base EXCEPT !.order = <<"a", "b", "c">>,
                 !.needs = ("a" :> {} @@ "b" :> {"a"} @@ "c" :> {"b"}),
                 !.cond  = ("a" :> "none" @@ "b" :> "always" @@ "c" :> "none"),
                 !.width = ("a" :> 0 @@ "b" :> 2 @@ "c" :> 0),
                 !.deferred = {"b"}]

Gated == [Base EXCEPT !.runGate = TRUE, !.gated = {"a"}, !.outcomes = {"success", "failure", "timeout"}, !.tolerate = {"a"}, !.cond = [@ EXCEPT !["b"] = "cancelled"]]

Approved == [Base EXCEPT !.order = <<"a">>, !.approval = TRUE, !.mayFail = TRUE, !.cond = [@ EXCEPT !["a"] = "always"]]

Unplannable == [Base EXCEPT !.deferred = {"b"}, !.unplannable = {"b"}, !.deletable = {"a", "b"}, !.cond = [@ EXCEPT !["a"] = "broken", !["b"] = "always"]]

BrokenDeferred == [Base EXCEPT !.deferred = {"b"}, !.cond = [@ EXCEPT !["b"] = "broken"]]

(* A job that cleans up after a cancellation and is planned when the one   *)
(* before it has a result, without and with a matrix.                      *)
Cleanup == [Base EXCEPT !.deferred = {"b"}, !.cond = [@ EXCEPT !["b"] = "cancelled"]]

CleanupMatrix == [Cleanup EXCEPT !.width = [@ EXCEPT !["b"] = 1], !.outcomes = {"success"}, !.runGate = TRUE]

MCWorkflows == {Matrix, Chain, Gated, Approved, Unplannable, BrokenDeferred, CleanupMatrix}

OnlyCleanup == {Cleanup}

(* docs/reference.md:190 "ordinary jobs stop while cancellation-aware      *)
(* reporting and cleanup jobs may finish" and 1713 "unassigned jobs are    *)
(* recorded as cancelled unless their condition permits cancellation-time  *)
(* work": a run that is cancelled has a result in the end, also when the   *)
(* controller ended while it recorded that a cleanup job is skipped.       *)
CancelledRunEnds == run.cancel ~> (run.result # "none" \/ gone # {})
=============================================================================
