---------------------------- MODULE MCHousehold ----------------------------
(* Small instances of PeopleRegistry and of Whereabouts, side by side: a   *)
(* behaviour is one of either, and the other stays in its initial state.   *)
(* The house has a driveway, a garage, and a kitchen with a pantry that    *)
(* the operator's map gives the same location.                             *)
EXTENDS PeopleRegistry, Whereabouts

CONSTANTS phone, tablet, watch, ann, bob, driveway, garage, kitchen, pantry

PhoneConfigured == [m \in Devices |-> IF m = phone THEN ann ELSE Nobody]

HouseMap == [a \in APs |-> CASE a = driveway -> 0 [] a = garage -> 1
                             [] a = kitchen -> 2  [] a = pantry -> 2]

VARIABLE part

householdVars == <<part, vars, whereVars>>

HouseholdInit == Init /\ WhereInit /\ part \in {"who", "where"}

HouseholdNext ==
  \/ part = "who" /\ Next /\ UNCHANGED <<part, whereVars>>
  \/ part = "where" /\ WhereNext /\ UNCHANGED <<part, vars>>

HouseholdSpec == HouseholdInit /\ [][HouseholdNext]_householdVars

\* The types of both modules.
HouseholdTypesHold == TypeOK /\ WhereTypeOK
=============================================================================
