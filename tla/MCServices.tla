----------------------------- MODULE MCServices -----------------------------
(* Small instances of ControllerPoll and SchemaStartup, what the daemon    *)
(* needs of others: the UniFi controller and the database.  A behaviour is *)
(* one of either, and the other stays as it is at the start.               *)
EXTENDS ControllerPoll, SchemaStartup

VARIABLE part

servicesVars == <<part, controllerVars, schemaVars>>

ServicesInit ==
  /\ ControllerInit /\ SchemaInit
  /\ \/ part = "controller" /\ recorded = NoTable
     \/ part = "schema" /\ auth = "key" /\ shape = CHOOSE s \in Shapes : TRUE

ServicesNext ==
  \/ part = "controller" /\ ControllerNext /\ UNCHANGED <<part, schemaVars>>
  \/ part = "schema" /\ SchemaNext /\ UNCHANGED <<part, controllerVars>>

\* The fairness of the modules, each for the behaviours it is the part of.
ServicesFairness ==
  /\ WF_controllerVars(part = "controller" /\ (StartPoll \/ Request \/ ComeDue))
  /\ \A p \in Starters : WF_schemaVars(part = "schema" /\ StartsAlone(p))
  /\ SF_schemaVars(part = "schema" /\ Reconcile)

ServicesSpec == ServicesInit /\ [][ServicesNext]_servicesVars /\ ServicesFairness

\* The types of both modules.
ServicesTypesHold == ControllerTypeOK /\ SchemaTypeOK
=============================================================================
