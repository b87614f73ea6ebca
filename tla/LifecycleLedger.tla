-------------------------- MODULE LifecycleLedger --------------------------
(***************************************************************************)
(* The device lifecycle keeps the promise of the presence ledger, as long  *)
(* as no statement fails and the daemon is only ever shut down cleanly.    *)
(***************************************************************************)
EXTENDS DeviceLifecycle

Ledger == INSTANCE PresenceLedger WITH
            open <- [m \in Devices |-> session[m] > 0],
            told <- log

\* Sessions and presence events alternate as PresenceLedger says, and every
\* transition of the state machine is eventually told (device/mod.rs observe
\* and sweep, device/persist.rs apply, db/queries.rs open_presence,
\* close_presence and insert_event).
KeepsTheLedger == Ledger!Spec
=============================================================================
