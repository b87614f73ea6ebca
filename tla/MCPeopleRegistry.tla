-------------------------- MODULE MCPeopleRegistry --------------------------
(* A household in which the configuration names no owner.                  *)
EXTENDS PeopleRegistry

CONSTANTS phone, tablet, ann, bob

NobodyConfigured == [m \in Devices |-> Nobody]
=============================================================================
