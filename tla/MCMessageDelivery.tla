-------------------------- MODULE MCMessageDelivery --------------------------
(* Small instances of MessageDelivery for TLC. *)
EXTENDS MessageDelivery, TLC

CONSTANT photo  \* the body that carries a file

MCFileCount == [b \in Bodies |-> IF b = photo THEN 1 ELSE 0]

Symmetry == UNION {Permutations(S) : S \in {Sessions, Slots, Ids, Users, Attachments}}
=============================================================================
