-------------------------------- MODULE MCAlu --------------------------------
(***************************************************************************)
(* Instance of AttoAlu: four-bit registers, every operation on every pair  *)
(* of operands, alone and after some that leave a unit running.            *)
(***************************************************************************)
EXTENDS AttoAlu

MCLeftovers ==
  {<< "sll", 1, 3 >>, << "mulh", 8, 7 >>, << "mulhu", 15, 15 >>, << "rem", 9, 2 >>,
   << "divu", 13, 3 >>}

=============================================================================
