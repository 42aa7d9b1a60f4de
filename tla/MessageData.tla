----------------------------- MODULE MessageData -----------------------------
(***************************************************************************)
(* What the two halves of message delivery agree on: accounts, message     *)
(* ids chosen by the client, bodies and the attachments they need.         *)
(***************************************************************************)
EXTENDS Naturals, Sequences

CONSTANTS
  Users,        \* accounts
  Ids,          \* client-chosen message ids (UUIDs)
  Bodies,       \* what a message says, its files included
  FileCount,    \* how many files a body has
  Attachments,  \* attachment ids the server can hand out (bound)
  Slots,        \* requests the server works on at once (bound)
  NoUser, NoId, NoBody, NoSlot

ASSUME SendAssumption ==
  /\ NoUser \notin Users /\ NoId \notin Ids /\ NoBody \notin Bodies
  /\ NoSlot \notin Slots
  /\ FileCount \in [Bodies -> Nat]
=============================================================================
