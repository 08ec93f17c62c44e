------------------------------ MODULE BlockPool ------------------------------
(***************************************************************************)
(* What a block allocator promises its clients: at any time a block id is  *)
(* new (not yet in the pool), free, the property of exactly one client,    *)
(* lost (in use, but nobody's), or retired.  An id changes hands only      *)
(* through the free state, a lost block stays lost, and a retired id never *)
(* comes back.                                                             *)
(***************************************************************************)
CONSTANTS
  Clients,        \* none of them named like one of the four states below
  Ids

VARIABLE holder   \* [id -> the client that owns it, or its state]

New == "new"
Free == "free"
Lost == "lost"
Retired == "retired"

TypeOK == holder \in [Ids -> Clients \cup {New, Free, Lost, Retired}]

Init == holder = [b \in Ids |-> New]

\* New blocks join the pool.
Grow == \E fresh \in SUBSET {b \in Ids : holder[b] = New} :
  holder' = [b \in Ids |-> IF b \in fresh THEN Free ELSE holder[b]]

\* A client obtains a free block.
Acquire(c, b) == holder[b] = Free /\ holder' = [holder EXCEPT ![b] = c]

\* A client gives up a block of its own; it becomes free or is lost.
GiveUp(c, b) ==
  holder[b] = c /\ \E state \in {Free, Lost} : holder' = [holder EXCEPT ![b] = state]

\* A client loses some of its blocks at once.
Abandon(c, some) ==
  /\ \A b \in some : holder[b] = c
  /\ holder' = [b \in Ids |-> IF b \in some THEN Lost ELSE holder[b]]

\* The contents of a client's block move to a free block; the client's own
\* block becomes free and the other one belongs to nobody.
Move(c, b, to) ==
  /\ holder[b] = c /\ holder[to] = Free
  /\ holder' = [holder EXCEPT ![b] = Free, ![to] = Lost]

\* The pool is closed.
Retire == holder' = [b \in Ids |-> IF holder[b] = New THEN New ELSE Retired]

Next ==
  \/ Grow
  \/ Retire
  \/ \E c \in Clients, b \in Ids :
       \/ Acquire(c, b)
       \/ GiveUp(c, b)
       \/ \E to \in Ids : Move(c, b, to)
  \/ \E c \in Clients : \E some \in SUBSET Ids : Abandon(c, some)

Spec == Init /\ [][Next]_holder

=============================================================================
