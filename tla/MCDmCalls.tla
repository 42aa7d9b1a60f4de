------------------------------- MODULE MCDmCalls -------------------------------
(* Values TLC needs for DmCalls: one user has two devices.                  *)
EXTENDS DmCalls, TLC

CONSTANTS alice, bob, carol, a1, a2, b1, c1

TwoDevices == a1 :> alice @@ a2 :> alice @@ b1 :> bob
ThreePeople == a1 :> alice @@ b1 :> bob @@ c1 :> carol

Everybody == {Users}
OrAliceAlone == {Users, {alice}}

\* Slots, calls and conversations are interchangeable.
Interchangeable ==
  Permutations(Slots) \cup Permutations(CallIds) \cup Permutations(Conversations)
=============================================================================
