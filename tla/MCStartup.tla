------------------------------ MODULE MCStartup -------------------------------
(* Instances of Startup for TLC. *)
EXTENDS Startup

\* Every field, and a key that is not one ("export client_id", for example).
MCKeys == Fields \cup {"other key"}

===============================================================================
