------------------------------- MODULE MCTools -------------------------------
(***************************************************************************)
(* The commands and files around the host, for TLC, in one run: the        *)
(* profile commands and the run recorder.  A behaviour is a behaviour of   *)
(* one part, chosen at the start; the other rests in its initial state.    *)
(***************************************************************************)
EXTENDS ProfileLifecycle, RunRecorder

VARIABLE part

toolVars == <<part, profileVars, recorderVars>>

ToolsInit ==
    /\ part \in {"profile", "recorder"}
    /\ ProfileInit /\ (part # "profile" => Existing = {})
    /\ RecorderInit

ToolsNext ==
    /\ UNCHANGED part
    /\ \/ part = "profile" /\ ProfileNext /\ UNCHANGED recorderVars
       \/ part = "recorder" /\ RecorderNext /\ UNCHANGED profileVars

\* The fairness of the profile commands, asked of their behaviours only.
ToolsFairness ==
    \A p \in Proc :
        /\ WF_profileVars(part = "profile" /\ ProfileStep(p))
        /\ WF_profileVars(part = "profile" /\ process[p].cancel /\ HostIsStopped(p))

ToolsSpec == ToolsInit /\ [][ToolsNext]_toolVars /\ ToolsFairness
=============================================================================
