------------------------ MODULE MCVerificationFlow ------------------------
(***************************************************************************)
(* Model values for VerificationFlow: two visits of one browser, which     *)
(* share its cookies; the second may open the address of the first.        *)
(***************************************************************************)
EXTENDS VerificationFlow

CONSTANTS v1, v2, b1, u

BrowserOfValue == [v \in Visits |-> b1]
AgentOfValue == [b \in Browsers |-> u]
KindsOfValue == [v \in Visits |-> IF v = v1 THEN Kinds ELSE {"page"}]
=============================================================================
