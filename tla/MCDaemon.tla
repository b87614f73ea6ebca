------------------------------ MODULE MCDaemon ------------------------------
(* Small instances of Intake, RunLoop and Notifications, the way of an     *)
(* observation through the daemon, one of them at a time: a behaviour is   *)
(* one of the chosen module, and the variables of the others stay as they  *)
(* are at the start.                                                       *)
EXTENDS Intake, RunLoop, Notifications

CONSTANTS phone, printer

VARIABLE part

daemonVars == <<part, intakeVars, loopVars, vars>>

DaemonInit ==
  /\ IntakeInit /\ RunLoopInit /\ Init
  /\ part \in {"intake", "loop", "notifier"}

DaemonNext ==
  \/ part = "intake" /\ IntakeNext /\ UNCHANGED <<part, loopVars, vars>>
  \/ part = "loop" /\ RunLoopNext /\ UNCHANGED <<part, intakeVars, vars>>
  \/ part = "notifier" /\ Next /\ UNCHANGED <<part, intakeVars, loopVars>>

\* The fairness of the modules, each for the behaviours it is the part of.
DaemonFairness ==
  /\ \A t \in Threads : WF_loopVars(part = "loop" /\ ThreadStep(t))
  /\ WF_loopVars(part = "loop" /\ Select)
  /\ WF_loopVars(part = "loop" /\ EndNotifier)
  /\ WF_vars(part = "notifier" /\ Tick)
  /\ WF_vars(part = "notifier" /\ Send)
  /\ WF_vars(part = "notifier" /\ End)
  /\ WF_vars(part = "notifier" /\ (Receive \/ Lag))
  /\ SF_vars(part = "notifier" /\ CloseWindow)

DaemonSpec == DaemonInit /\ [][DaemonNext]_daemonVars /\ DaemonFairness

\* The types of the three modules.
DaemonTypesHold == IntakeTypeOK /\ RunLoopTypeOK /\ TypeOK
=============================================================================
