--------------------------- MODULE BatchContract ---------------------------
(***************************************************************************)
(* What the driver's turn relies on while it awaits one batch of tool      *)
(* calls: which calls are pending (AgentInstance.pending_tool_calls), that *)
(* an aborted batch starts no further call, and that a batch returns only  *)
(* when nothing is pending.  A batch that raises may leave calls behind,   *)
(* which still end.  AgentLoop uses these steps; ToolBatch implements them.*)
(***************************************************************************)
CONSTANT Calls   \* the calls of the batch

VARIABLES
    truncated, \* is it the batch of a reply that hit the token limit?
    todo,      \* the calls not started
    pending,   \* the calls started and not ended
    aborted,   \* the run's signal
    phase      \* "running", "returned" or "raised"

contractVars == <<truncated, todo, pending, aborted, phase>>

Init ==
    /\ todo = Calls /\ pending = {} /\ phase = "running"
    /\ truncated \in BOOLEAN /\ aborted \in BOOLEAN

Abort ==
    /\ aborted' = TRUE
    /\ UNCHANGED <<truncated, todo, pending, phase>>

\* The first call starts whatever the signal says.
Start ==
    /\ phase = "running"
    /\ truncated \/ ~aborted \/ todo = Calls
    /\ \E t \in todo : todo' = todo \ {t} /\ pending' = pending \cup {t}
    /\ UNCHANGED <<truncated, aborted, phase>>

End ==
    /\ \E t \in pending : pending' = pending \ {t}
    /\ UNCHANGED <<truncated, todo, aborted, phase>>

Return ==
    /\ phase = "running"
    /\ pending = {} /\ todo # Calls
    /\ todo = {} \/ (aborted /\ ~truncated)
    /\ phase' = "returned"
    /\ UNCHANGED <<truncated, todo, pending, aborted>>

Raise ==
    /\ phase = "running"
    /\ phase' = "raised"
    /\ UNCHANGED <<truncated, todo, pending, aborted>>

Next == Abort \/ Start \/ End \/ Return \/ Raise

Spec == Init /\ [][Next]_contractVars

=============================================================================
