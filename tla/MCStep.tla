------------------------------- MODULE MCStep -------------------------------
(* What one step of the driver awaits: the stream of a request that the     *)
(* LLM service routes and settles, or a batch of tool calls.  And beside    *)
(* them a small driver that awaits such things, with one caller and one     *)
(* envelope, to see that its runs end.  They share no state, so a behaviour *)
(* exercises the one `part` names.                                          *)
EXTENDS ToolBatch, LlmService

VARIABLES
    part,
    queue, wake, sent,                                  \* see Inbox
    status, signal, streaming, pending, detached,       \* see AgentLoop
    admitted, role, bracket, turn, endReason, pc, run, hand, resv, dropped

driverVars == <<queue, wake, sent, status, signal, streaming, pending, detached,
                admitted, role, bracket, turn, endReason, pc, run, hand, resv, dropped>>

\* The provider ends a stream whose signal is aborted.
Driver == INSTANCE AgentLoop WITH
    MaxSent <- 1, TurnPolicy <- "ONE_AT_A_TIME", StepPolicy <- "ONE_AT_A_TIME",
    Callers <- {"caller"}, Calls <- {"t1", "t2"}, PumpWhileActive <- FALSE, HonoursAbort <- TRUE

\* Two adapters that both supply model "m", one of them "n" too.
MCSupplies == [a \in Adapters |-> IF a = "A" THEN {"m"} ELSE {"m", "n"}]

MCInit ==
    /\ part \in {"stream", "batch", "driver"}
    /\ IF part = "batch" THEN Init ELSE InitAt("off") /\ mode = "length" /\ ~aborted
    /\ LlmInit
    /\ Driver!Init

MCNext ==
    /\ UNCHANGED part
    /\ \/ part = "batch" /\ Next /\ UNCHANGED <<llmVars, driverVars>>
       \/ part = "stream" /\ LlmNext /\ UNCHANGED <<vars, driverVars>>
       \/ part = "driver" /\ Driver!Next /\ UNCHANGED <<vars, llmVars>>

\* The fairness of AgentLoop, where the driver moves.
DriverFairness ==
    /\ WF_driverVars(part = "driver" /\ Driver!RunStep("caller"))
    /\ SF_driverVars(part = "driver" /\ Driver!StreamEnds("caller"))

MCSpec == MCInit /\ [][MCNext]_<<part, vars, llmVars, driverVars>> /\ Fairness /\ DriverFairness

\* A run that is asked to stop stops, and a run that failed is closed: neither
\* stays under way for ever (AbortSettles and FailureSettles of AgentLoop).
RunSettles == Driver!RunSettles

=============================================================================
