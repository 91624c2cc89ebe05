----------------------------- MODULE MCMetering -----------------------------
(* Instances of Metering for TLC. *)
EXTENDS Metering

CONSTANTS StorageBytes, EncodeSeconds

Plan == [allowUploads |-> TRUE, allowJobs |-> TRUE, maxUploadBytes |-> 2,
         storageBytes |-> StorageBytes, encodeSeconds |-> EncodeSeconds]

=============================================================================
