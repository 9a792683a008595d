-------------------------- MODULE MCDeliveryOutbox --------------------------
(* Model-checking instances of DeliveryOutbox.                             *)
EXTENDS DeliveryOutbox

CONSTANTS s1, s2

\* One device; s1 comes first, and the Hub quarantines s2.
OneDevice == [s \in Uploads |-> "device"]
KeyOrder  == [s \in Uploads |-> IF s = s1 THEN 1 ELSE 2]
BodyOf    == [s \in Uploads |-> IF s = s1 THEN "good" ELSE "bad"]
=============================================================================
