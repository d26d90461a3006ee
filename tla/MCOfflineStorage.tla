--------------------------- MODULE MCOfflineStorage ---------------------------
(* Small instances of OfflineStorage. *)
EXTENDS OfflineStorage
=============================================================================
