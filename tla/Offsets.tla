------------------------------- MODULE Offsets -------------------------------
(* numpy's cumsum(insert(sizes, 0, 0)) and the displacement loops of the C  *)
(* programs: where block i starts when blocks of the given sizes are laid   *)
(* one behind the other.  Defined for i up to one beyond the last block.    *)
EXTENDS Integers, Functions

Before(sizes, i) == SumFunctionOnSet(sizes, {j \in DOMAIN sizes : j < i})
=============================================================================
