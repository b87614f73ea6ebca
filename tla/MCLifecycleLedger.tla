------------------------- MODULE MCLifecycleLedger -------------------------
EXTENDS LifecycleLedger

\* One device type whose idle timeout comes first, one whose timeouts coincide.
IdleFirst == [m \in Devices |-> 1]
OfflineLater == [m \in Devices |-> IF m = CHOOSE d \in Devices : TRUE THEN 2 ELSE 1]
=============================================================================
