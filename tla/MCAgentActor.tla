----------------------------- MODULE MCAgentActor -----------------------------
(***************************************************************************)
(* Values for model checking AgentActor.                                   *)
(***************************************************************************)
EXTENDS AgentActor

UnitSize == [i \in 1..MaxInputs |-> 1]

Answer == [stop |-> "Stop", calls |-> 0]
OneCall == [stop |-> "ToolUse", calls |-> 1]
TwoCalls == [stop |-> "ToolUse", calls |-> 2]
NoCall == [stop |-> "ToolUse", calls |-> 0]

JustAnswer == {Answer}
QueueReplies == {Answer, OneCall}
AllReplies == {Answer, TwoCalls, NoCall}
=============================================================================
