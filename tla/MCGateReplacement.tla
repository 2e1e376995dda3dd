------------------------ MODULE MCGateReplacement ---------------------------
(***************************************************************************)
(* ConcurrencyGate with a history of the members that have been replaced   *)
(* as the pending member while they were waiting.                          *)
(***************************************************************************)
EXTENDS MCConcurrencyGate

VARIABLE replaced

HistoryInit == Init /\ replaced = {}

HistoryNext ==
    /\ Next
    /\ replaced' = replaced \cup
         {m \in Members : /\ obj[m].phase = "waiting"
                          /\ lease.pending = m
                          /\ lease'.pending \notin {m, None}
                          /\ lease'.holder # m}

HistorySpec == HistoryInit /\ [][HistoryNext]_<<vars, replaced>>

(* docs/reference.md:1724 "A newly admitted waiting member cancels and     *)
(* replaces the existing waiting member", and 1743 "controller restarts    *)
(* resume the same acquisition or replacement decision": a member that was *)
(* replaced as the pending member is not admitted afterwards.              *)
ReplacedNeverStarts == \A m \in replaced : obj[m].phase # "admitted"
=============================================================================
