------------------------------ MODULE MCDuties ------------------------------
(* Duties on a small instance: the bounds are in the .cfg files.           *)
EXTENDS Duties

(* Two of three validators are this node's.                                *)
MCIndices == <<0, 1>>
=============================================================================
