---------------------------- MODULE MCHubUploads ----------------------------
(* Model-checking instances of HubUploads.                                 *)
EXTENDS HubUploads, TLC

\* All uploads come from one device.
OneDevice == [u \in Uploads |-> "device"]

\* Uploads differ only in the order in which they are created.
UploadSymmetry == Permutations(Uploads)
=============================================================================
