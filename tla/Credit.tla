------------------------------- MODULE Credit -------------------------------
(***************************************************************************)
(* Who is credited with what the parsers read: the claims of an mDNS       *)
(* message (Claims), and what a frame of the other protocols says of its   *)
(* sender (Voices).  The two share nothing but the question.               *)
(***************************************************************************)
EXTENDS Claims, Voices

CreditSpec == ClaimsSpec /\ VoicesSpec

\* Nobody is credited with what is another's: not with a claim of a message whose
\* records do not lead to it (mdns.rs:26-38), nor with what a frame says of others
\* than its sender (ndp.rs:3).
NobodySpeaksForAnother == ClaimsStand /\ VoicesAreTheirOwn
=============================================================================
