-------------------------- MODULE MCPagedAllocator --------------------------
(***************************************************************************)
(* PagedAllocator for the model checker.  The clients are interchangeable  *)
(* in every definition, so their permutations are a symmetry; block ids    *)
(* and layers are not (ids are ordered, layer 0 is the reset value).       *)
(***************************************************************************)
EXTENDS PagedAllocatorPool, TLC

ClientSymmetry == Permutations(Clients)

=============================================================================
