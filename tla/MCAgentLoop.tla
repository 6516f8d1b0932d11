---------------------------- MODULE MCAgentLoop ----------------------------
(***************************************************************************)
(* Both loops, parallel and sequential tools, and the three strategies.     *)
(***************************************************************************)
EXTENDS AgentLoop

AllSetups == {<<"run", TRUE, "trim_oldest">>, <<"run", FALSE, "summarize">>,
              <<"stream", TRUE, "sliding_window">>}
=============================================================================
