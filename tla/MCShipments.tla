----------------------------- MODULE MCShipments -----------------------------
(***************************************************************************)
(* One manager at a time, and the webhooks and completions that one more   *)
(* worker handles one after the other.                                     *)
(***************************************************************************)
EXTENDS Shipments

\* What OneLabelPaid and DeliveredIsRecorded are proved under.
ASSUME ManagersAssumption == OneManager
=============================================================================
