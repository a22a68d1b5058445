----------------------------- MODULE Operations -----------------------------
(***************************************************************************)
(* What depends on the operator and on the clock rather than on other      *)
(* clients: the deployment of a release, the daily jobs on travels and the *)
(* chat hours of a planet.  They share no state, so that every             *)
(* interleaving of them projects to behaviours of each: a behaviour of     *)
(* this module is one of one of them, chosen in its initial state, in      *)
(* which the others rest before their first step.                          *)
(***************************************************************************)
EXTENDS Deployment, ExpiryJobs, ChatHours

VARIABLE part   \* the part that moves

operationsVars == <<part, deploymentVars, expiryVars, hoursVars>>

Init ==
  /\ part \in {"deployment", "jobs", "hours"}
  /\ DeploymentInit
  /\ ExpiryInit
  /\ HoursInit
  /\ part # "hours" => planet = CHOOSE p \in Planets : TRUE
  /\ part # "deployment" => history = {} /\ script = [r \in Replicas |-> "deploy"]

Deploy ==
  /\ part = "deployment"
  /\ DeploymentNext
  /\ UNCHANGED <<part, expiryVars, hoursVars>>

RunJobs ==
  /\ part = "jobs"
  /\ ExpiryNext
  /\ UNCHANGED <<part, deploymentVars, hoursVars>>

AskForHours ==
  /\ part = "hours"
  /\ HoursNext
  /\ UNCHANGED <<part, deploymentVars, expiryVars>>

Next == Deploy \/ RunJobs \/ AskForHours

\* The job queue keeps going, as in ExpiryJobs; nothing is assumed of a
\* deployment or of who sends messages.
Fairness ==
  part = "jobs" =>
    /\ \A j \in Jobs : WF_expiryVars(Schedule(j))
    /\ \A j \in Jobs : WF_expiryVars(\E w \in Workers : Take(w, j))
    /\ \A w \in Workers : WF_expiryVars(WorkerStep(w))

Spec == Init /\ [][Next]_operationsVars /\ Fairness
=============================================================================
