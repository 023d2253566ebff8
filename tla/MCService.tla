------------------------------ MODULE MCService ------------------------------
(***************************************************************************)
(* The module TLC instantiates Service through; its cfg has the instance.  *)
(***************************************************************************)
EXTENDS Service
=============================================================================
