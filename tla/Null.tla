-------------------------------- MODULE Null --------------------------------
(* The value of a column that holds none, shared by the modules that have one. *)
CONSTANT None
=============================================================================
