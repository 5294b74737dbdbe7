----------------------------- MODULE MCDatabase -----------------------------
(* The loops of the services over results of up to three rows.             *)
EXTENDS Database
=============================================================================
