-------------------------------- MODULE MCRun --------------------------------
(***************************************************************************)
(* The two ends of a run, checked in one run of TLC: the agent loop with    *)
(* its tools and steers, and the goroutine that forwards a loop's events.   *)
(* They share no state here: ChatForward has its own, coarser loop.         *)
(***************************************************************************)
EXTENDS AgentLoop, ChatForward

(* The answers that make a difference: none, one call, two that run beside  *)
(* each other, one that forces the other to wait, and one without a tool.   *)
MCBatches == { <<>>, <<"parallel", "parallel">>, <<"parallel", "sequential">>,
               <<"missing", "parallel">> }

VARIABLE part

allVars == <<part, vars, forwarding>>

RunInit ==
    /\ part \in {"loop", "forward"} /\ Init /\ ForwardInit
    /\ part = "forward" => config = [steering |-> FALSE, sequential |-> FALSE]

Looping    == part = "loop" /\ Next /\ UNCHANGED <<part, forwarding>>
Forwarding == part = "forward" /\ ForwardNext /\ UNCHANGED <<part, vars>>

\* What is fair in a part is not asked of the other, which rests.
RunSpec ==
    /\ RunInit /\ [][Looping \/ Forwarding]_allVars
    /\ WF_vars(part = "loop" /\ Run)
    /\ WF_vars(part = "loop" /\ Executing)
    /\ WF_vars(part = "loop" /\ cancelled /\ Model)
    /\ WF_vars(part = "loop" /\ cancelled /\ Returning)
    /\ WF_forwarding(part = "forward" /\ Forwards)
==============================================================================
