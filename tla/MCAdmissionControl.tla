-------------------------- MODULE MCAdmissionControl -------------------------
(* Constants for checking AdmissionControl: the Bulk bucket is limited,  *)
(* the others are not.                                                     *)
EXTENDS AdmissionControl

RateBulk == [b \in Buckets |-> IF b = "Bulk" THEN 1 ELSE 0]
=============================================================================
