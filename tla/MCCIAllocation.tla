--------------------------- MODULE MCCIAllocation ---------------------------
(* A box whose modules have a CA id for every service.                     *)
EXTENDS CIAllocation

AnyModule == Slots \X Sids
=============================================================================
