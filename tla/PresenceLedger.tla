--------------------------- MODULE PresenceLedger ---------------------------
(***************************************************************************)
(* What the database promises a reader about presence (V1__initial.sql,    *)
(* "One row per online session.  Opened when a device becomes online,      *)
(* closed when it goes offline"; ng_events, "State changes worth telling   *)
(* somebody about"): sessions open and close in turn, every opening and    *)
(* every closing is told exactly once and before the next one happens, the *)
(* first opening is told as new_device and every later one as returned.    *)
(***************************************************************************)
CONSTANT Devices

VARIABLES
  open,   \* does the device have an open session?
  told    \* the latest presence event of the device, and the parity of their
          \* number

Init ==
  /\ open = [m \in Devices |-> FALSE]
  /\ told = [m \in Devices |-> [kind |-> "none", odd |-> FALSE]]

Record(m, kind) ==
  told' = [told EXCEPT ![m] = [kind |-> kind, odd |-> ~told[m].odd]]

Open(m) ==
  /\ ~open[m] /\ told[m].kind \in {"none", "went_offline"}
  /\ open' = [open EXCEPT ![m] = TRUE]
  /\ UNCHANGED told

TellOpened(m) ==
  /\ open[m]
  /\ \/ told[m].kind = "none" /\ Record(m, "new_device")
     \/ told[m].kind = "went_offline" /\ Record(m, "returned")
  /\ UNCHANGED open

Close(m) ==
  /\ open[m] /\ told[m].kind \in {"new_device", "returned"}
  /\ open' = [open EXCEPT ![m] = FALSE]
  /\ UNCHANGED told

TellClosed(m) ==
  /\ ~open[m] /\ told[m].kind \in {"new_device", "returned"}
  /\ Record(m, "went_offline")
  /\ UNCHANGED open

Tell(m) == TellOpened(m) \/ TellClosed(m)

Next == \E m \in Devices : Open(m) \/ Close(m) \/ Tell(m)

\* What has happened is told; nobody promises that anything happens.
Safety == Init /\ [][Next]_<<open, told>>
Spec == Safety /\ \A m \in Devices : WF_<<open, told>>(Tell(m))
=============================================================================
