-------------------------------- MODULE Service --------------------------------
(***************************************************************************)
(* The waiting room in the service as it is deployed: calls are answered by *)
(* an application that was started on the database the migration seeded,    *)
(* the process and its container die together, and what Redis counted, and  *)
(* the tokens that clients hold, outlast them.                              *)
(***************************************************************************)
EXTENDS WaitingRoom, Deployment

ASSUME ServiceAssumption == Listed = Seeded

serviceVars == <<vars, deploymentVars>>

(* The types of the waiting room and of the deployment it runs in, and that *)
(* no seat is inserted before its concert.                                  *)
ServiceTypeOK == TypeOK /\ DeploymentTypeOK

ServiceInit == Init /\ DeploymentInit

-----------------------------------------------------------------------------
(* The application answers, and nothing else, while it serves. *)
Served(call) == phase = "serving" /\ call /\ UNCHANGED deploymentVars

Starts == ComesUp /\ UNCHANGED vars

Dies == Crash /\ Stop

TimePasses == Tick /\ UNCHANGED deploymentVars

ServiceNext ==
    \/ \E c \in Clients : Served(ClientStep(c))
    \/ \E p \in Polls : Served(PollStep(p))
    \/ Starts \/ Dies \/ TimePasses

ServiceSpec == ServiceInit /\ [][ServiceNext]_serviceVars

(* Attentive clients poll and are answered by Redis and the database, time  *)
(* passes, and whoever operates the application starts it when it is down.  *)
ServiceFairness ==
    /\ \A c \in Attentive : WF_serviceVars(Served(Issue(c)))
    /\ \A p \in Polls :
          PollOf[p] \in Attentive =>
              WF_serviceVars(Served(Poll(p))) /\ WF_serviceVars(Served(AnswerStatus(p)))
    /\ WF_serviceVars(Starts)
    /\ WF_serviceVars(TimePasses)

FairServiceSpec == ServiceSpec /\ ServiceFairness
=============================================================================
