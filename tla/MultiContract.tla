---------------------------- MODULE MultiContract ----------------------------
(***************************************************************************)
(* What the multi interface promises for each easy handle: it is added,     *)
(* finishes, is told to the application once, and may be removed at any     *)
(* time; until it is removed nothing but that happens to it.               *)
(***************************************************************************)
CONSTANT Handle
VARIABLE status

Status == {"out", "added", "done", "told"}

Init == status = [e \in Handle |-> "out"]

Add(e) == status[e] = "out" /\ status' = [status EXCEPT ![e] = "added"]
Finish(e) == status[e] = "added" /\ status' = [status EXCEPT ![e] = "done"]
Tell(e) == status[e] = "done" /\ status' = [status EXCEPT ![e] = "told"]
Remove(e) == status[e] # "out" /\ status' = [status EXCEPT ![e] = "out"]
RemoveAll == status' = [e \in Handle |-> "out"]

Next == RemoveAll \/ \E e \in Handle : Add(e) \/ Finish(e) \/ Tell(e) \/ Remove(e)

Safety == Init /\ [][Next]_status

\* Every transfer ends and is told, unless its handle is removed before.
Spec == Safety /\ \A e \in Handle : WF_status(Finish(e)) /\ WF_status(Tell(e))
==============================================================================
