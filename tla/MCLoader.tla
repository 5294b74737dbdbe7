------------------------------ MODULE MCLoader ------------------------------
(* Two modules, one of them with a tag map, a library that is no module    *)
(* and a file that is missing.                                             *)
EXTENDS Loader
=============================================================================
