------------------------------ MODULE MCSchema -------------------------------
(***************************************************************************)
(* The module TLC instantiates Schema through; the instances differ in     *)
(* their cfg only.                                                         *)
(***************************************************************************)
EXTENDS Schema
=============================================================================
