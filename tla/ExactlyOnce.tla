----------------------------- MODULE ExactlyOnce -----------------------------
(***************************************************************************)
(* What sending a message promises its author, with no network, lease or   *)
(* database in sight: a written message is held on the device until it is  *)
(* posted or withdrawn, is posted at most once, and is announced to the    *)
(* others at most once and only when posted.                               *)
(***************************************************************************)
EXTENDS Naturals

CONSTANT Ids

VARIABLES
  held,       \* messages on the author's device
  posted,     \* messages on the server
  announced,  \* how often each was announced
  withdrawn   \* messages their author ever discarded

vars == <<held, posted, announced, withdrawn>>

Init ==
  /\ held = {} /\ posted = {} /\ withdrawn = {}
  /\ announced = [id \in Ids |-> 0]

Hold(id) ==
  /\ id \notin held
  /\ held' = held \cup {id}
  /\ UNCHANGED <<posted, announced, withdrawn>>

\* A request can outlive the item it came from, once that was discarded.
Post(id) ==
  /\ id \notin posted
  /\ id \in held \cup withdrawn
  /\ posted' = posted \cup {id}
  /\ UNCHANGED <<held, announced, withdrawn>>

Announce(id) ==
  /\ id \in posted /\ announced[id] = 0
  /\ announced' = [announced EXCEPT ![id] = 1]
  /\ UNCHANGED <<held, posted, withdrawn>>

Confirm(id) ==
  /\ id \in held \cap posted
  /\ held' = held \ {id}
  /\ UNCHANGED <<posted, announced, withdrawn>>

Withdraw(id) ==
  /\ id \in held
  /\ held' = held \ {id}
  /\ withdrawn' = withdrawn \cup {id}
  /\ UNCHANGED <<posted, announced>>

Next == \E id \in Ids :
  Hold(id) \/ Post(id) \/ Announce(id) \/ Confirm(id) \/ Withdraw(id)

Spec == Init /\ [][Next]_vars
=============================================================================
