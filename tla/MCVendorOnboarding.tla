------------------------- MODULE MCVendorOnboarding -------------------------
(* Model-checking instances of VendorOnboarding. *)
EXTENDS VendorOnboarding, TLC

CONSTANTS r1, r2, v1, k1, k2

\* Two runs for the same vendor, or one.
SameVendor == [r \in Runs |-> v1]

\* Each workflow is executed once, or that of r1 twice.
Once  == [r \in Runs |-> 1]
Twice == [r \in Runs |-> IF r = r1 THEN 2 ELSE 1]

\* An approver each way, with keys of their own or with the same key.
Approve == [verdict |-> "APPROVED", key |-> k1]
Reject  == [verdict |-> "REJECTED", key |-> k2]
Clash   == [verdict |-> "REJECTED", key |-> k1]

OwnKeys   == {Approve, Reject}
SharedKey == {Approve, Clash}
=============================================================================
