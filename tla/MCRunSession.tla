---------------------------- MODULE MCRunSession ----------------------------
(***************************************************************************)
(* Two families of behaviours in one instance: the calls of a session with  *)
(* two runs of one event each, and the stream of a session with one run of  *)
(* three events, of which the journal keeps the last one.                   *)
(***************************************************************************)
EXTENDS RunSession

MCLength == <<1, 1, 3>>
LongRun == 3

\* The long run is started when nothing has come of the others,
LongRunAlone == call'[LongRun] # "none" =>
                  \A r \in Runs \ {LongRun} : call'[r] = "lost" /\ head'[r] = 0

\* and faults and reconnects are kept for it.
FaultsAreLate ==
  (faults' > 0 \/ \E s \in Slots : stream'[s].reconnects > 0) => call'[LongRun] # "none"

MCNext == Next /\ LongRunAlone /\ FaultsAreLate

MCFairSpec == Init /\ [][MCNext]_vars /\ WF_vars(SystemStep)
=============================================================================
