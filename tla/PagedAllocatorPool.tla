------------------------- MODULE PagedAllocatorPool -------------------------
(***************************************************************************)
(* PagedAllocator, used exclusively, implements BlockPool.  The abstract   *)
(* holder of a block is read off the allocator's metadata and the ids the  *)
(* clients have.                                                           *)
(***************************************************************************)
EXTENDS PagedAllocator

\* Clients are not confused with the states of blocks that are nobody's.
ASSUME ClientNames == Clients \cap {"new", "free", "lost", "retired"} = {}

HolderOf(b) ==
  IF ~Exists(b)
  THEN IF b < next_block_id_ THEN "retired" ELSE "new"
  ELSE IF ~InUse(b) THEN "free"
  ELSE IF \E c \in Clients : b \in Owned(c)
  THEN CHOOSE c \in Clients : b \in Owned(c)
  ELSE "lost"

Pool == INSTANCE BlockPool WITH
  Ids <- BlockId,
  holder <- [b \in BlockId |-> HolderOf(b)]

\* The refinement: every behaviour of the allocator is, seen through HolderOf,
\* a behaviour of the abstract pool.
ImplementsPool == Pool!Spec

=============================================================================
