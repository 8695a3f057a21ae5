--------------------------- MODULE MCStorageBreaker ---------------------------
(* The storage and search breakers with a few clients of either kind. *)
EXTENDS StorageBreaker
===============================================================================
