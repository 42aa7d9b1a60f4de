------------------------------- MODULE ReadState -------------------------------
(***************************************************************************)
(* What one person has still to read of one direct conversation: the read  *)
(* state (read-state.service.ts), the coalesced notification row           *)
(* (in-app-notifications.service.ts), the delivery that raises both        *)
(* (message-notifications.ts) and the acknowledgements of the Inbox        *)
(* (inbox.service.ts), which cover only what its snapshot could show.      *)
(*                                                                         *)
(* Times are readings of a clock, each later than the one before.  A       *)
(* reading and the statement that stores it are two steps: a row may be    *)
(* committed long after the time it carries.                               *)
(***************************************************************************)
EXTENDS Naturals, FiniteSets

CONSTANTS
  Messages,   \* of others in the conversation
  Openers,    \* that may open the conversation
  MaxReadings \* readings of the clock by acknowledgements and snapshots (bound)

ASSUME ReadAssumption == MaxReadings \in Nat

VARIABLES
  clock, readings,
  delivery,  \* how far each message is
  created,   \* created_at
  stamp,     \* the now of its notification
  read,      \* dm_read_states: last_read_at, mention_count; marked_unread
  row,       \* the notification row of the conversation
  snapshot,  \* the time of an Inbox list or session
  opening,   \* ackDm of each device: its step, and its reading of the clock
  excused,   \* history: created before an acknowledged snapshot, or by the end of an ackDm
  backdated, \* history: told, and then their row got an earlier time
  again      \* history: counted after an acknowledgement had covered or counted them

readVars == <<clock, readings, delivery, created, stamp, read, row, snapshot, opening,
              excused, backdated, again>>

-----------------------------------------------------------------------------
Phases == <<"none", "writing", "posted", "counted", "stamped", "told">>
Posted == {m \in Messages : delivery[m] \in {"posted", "counted", "stamped", "told"}}
UnderWay == {m \in Messages : delivery[m] # "none"}

ReadTypeOK ==
  /\ clock \in Nat /\ readings \in 0..MaxReadings
  /\ delivery \in [Messages -> {Phases[i] : i \in DOMAIN Phases}]
  /\ created \in [Messages -> Nat] /\ stamp \in [Messages -> Nat]
  /\ read \in [last : Nat, mentions : Nat, marked : BOOLEAN]
  /\ row \in [updated : Nat, unread : BOOLEAN]
  /\ snapshot \in Nat
  /\ opening \in [Openers -> [step : {"idle", "unmarked", "dated", "saved"}, at : Nat]]
  /\ excused \subseteq Messages /\ backdated \subseteq Messages /\ again \subseteq Messages

ReadInit ==
  /\ clock = 0 /\ readings = 0
  /\ delivery = [m \in Messages |-> "none"]
  /\ created = [m \in Messages |-> 0] /\ stamp = [m \in Messages |-> 0]
  /\ read = [last |-> 0, mentions |-> 0, marked |-> FALSE]
  /\ row = [updated |-> 0, unread |-> FALSE]
  /\ snapshot = 0
  /\ opening = [d \in Openers |-> [step |-> "idle", at |-> 0]]
  /\ excused = {} /\ backdated = {} /\ again = {}

-----------------------------------------------------------------------------
(* Delivery of a message                                                   *)

Reach(m, from, to) == delivery[m] = from /\ delivery' = [delivery EXCEPT ![m] = to]

\* The insert begins: the row carries the time of its transaction.  Which message is
\* the next makes no difference.
Create(m) ==
  /\ m \notin UnderWay /\ m = CHOOSE x \in Messages \ UnderWay : TRUE
  /\ Reach(m, "none", "writing")
  /\ clock' = clock + 1
  /\ created' = [created EXCEPT ![m] = clock + 1]
  /\ UNCHANGED <<readings, stamp, read, row, snapshot, opening, excused, backdated, again>>

Post(m) ==
  /\ Reach(m, "writing", "posted")
  /\ UNCHANGED <<clock, readings, created, stamp, read, row, snapshot, opening, excused, backdated, again>>

\* incrementDmMention
CountMention(m) ==
  /\ Reach(m, "posted", "counted")
  /\ read' = [read EXCEPT !.mentions = @ + 1]
  /\ again' = IF created[m] <= read.last THEN again \cup {m} ELSE again
  /\ UNCHANGED <<clock, readings, created, stamp, row, snapshot, opening, excused, backdated>>

\* writeNotifications reads the clock before its transaction.
Stamp(m) ==
  /\ Reach(m, "counted", "stamped")
  /\ clock' = clock + 1
  /\ stamp' = [stamp EXCEPT ![m] = clock + 1]
  /\ UNCHANGED <<readings, created, read, row, snapshot, opening, excused, backdated, again>>

\* recordDmMessages: the row of the conversation is unread again, with the time of
\* this message even when a later one is in it.
RecordDmMessages(m) ==
  /\ Reach(m, "stamped", "told")
  /\ row' = [updated |-> stamp[m], unread |-> TRUE]
  /\ backdated' = backdated \cup {x \in Messages : delivery[x] = "told" /\ stamp[x] > stamp[m]}
  /\ UNCHANGED <<clock, readings, created, stamp, read, snapshot, opening, excused, again>>

-----------------------------------------------------------------------------
(* ackDm: three statements, one after the other                            *)

Overtaken == excused' = excused \cup UnderWay

Unmark(d) ==
  /\ opening[d].step = "idle" /\ readings < MaxReadings
  /\ opening' = [opening EXCEPT ![d].step = "unmarked"]
  /\ read' = [read EXCEPT !.marked = FALSE]
  /\ readings' = readings + 1
  /\ Overtaken
  /\ UNCHANGED <<clock, delivery, created, stamp, row, snapshot, backdated, again>>

Date(d) ==
  /\ opening[d].step = "unmarked"
  /\ clock' = clock + 1
  /\ opening' = [opening EXCEPT ![d] = [step |-> "dated", at |-> clock + 1]]
  /\ Overtaken
  /\ UNCHANGED <<readings, delivery, created, stamp, read, row, snapshot, backdated, again>>

SaveRead(d) ==
  /\ opening[d].step = "dated"
  /\ opening' = [opening EXCEPT ![d].step = "saved"]
  /\ read' = [read EXCEPT !.last = opening[d].at, !.mentions = 0]
  /\ again' = {}
  /\ Overtaken
  /\ UNCHANGED <<clock, readings, delivery, created, stamp, row, snapshot, backdated>>

\* markDmRead: whatever the row holds by now.
ClearRow(d) ==
  /\ opening[d].step = "saved"
  /\ opening' = [opening EXCEPT ![d].step = "idle"]
  /\ row' = [row EXCEPT !.unread = FALSE]
  /\ Overtaken
  /\ UNCHANGED <<clock, readings, delivery, created, stamp, read, snapshot, backdated, again>>

MarkDmUnread ==
  /\ ~read.marked
  /\ read' = [read EXCEPT !.marked = TRUE]
  /\ UNCHANGED <<clock, readings, delivery, created, stamp, row, snapshot, opening,
                 excused, backdated, again>>

-----------------------------------------------------------------------------
(* The Inbox                                                               *)

\* A snapshot is taken, for a list or a session; a later one replaces it.
Snap ==
  /\ readings < MaxReadings
  /\ clock' = clock + 1 /\ readings' = readings + 1
  /\ snapshot' = clock + 1
  /\ UNCHANGED <<delivery, created, stamp, read, row, opening, excused, backdated, again>>

\* Mutant: the row is read whatever has reached it since.
AnyAge(at) == TRUE

\* Coalesced rows updated after the frozen snapshot remain outstanding.
Covered(at) == row.updated <= at

\* Messages the acknowledgement leaves unread.
LeftUnread(at) == {m \in Posted : created[m] > at}

\* acknowledge, of the list or of a session, with the time of its snapshot
Acknowledge == LET at == snapshot IN
  /\ snapshot > 0
  /\ row' = [row EXCEPT !.unread = @ /\ ~Covered(at)]
  /\ IF read.last > at
     THEN /\ read' = [read EXCEPT !.marked = FALSE]
          /\ UNCHANGED again
     ELSE /\ read' = [last |-> at, mentions |-> Cardinality(LeftUnread(at)), marked |-> FALSE]
          /\ again' = {m \in Messages : delivery[m] = "posted"}
  /\ excused' = excused \cup {m \in UnderWay : created[m] <= at}
  /\ UNCHANGED <<clock, readings, delivery, created, stamp, snapshot, opening, backdated>>

-----------------------------------------------------------------------------
ReadNext ==
  \/ \E m \in Messages : Create(m) \/ Post(m) \/ CountMention(m) \/ Stamp(m) \/ RecordDmMessages(m)
  \/ \E d \in Openers : Unmark(d) \/ Date(d) \/ SaveRead(d) \/ ClearRow(d)
  \/ MarkDmUnread \/ Snap \/ Acknowledge

ReadSpec == ReadInit /\ [][ReadNext]_readVars

-----------------------------------------------------------------------------
\* A message that is created after the time of every snapshot the person acknowledged,
\* and that no ackDm overtook, stays unread in every way once its delivery is over:
\* it is newer than the read state, it is on the badge, and its row is unread, unless
\* another delivery wrote an earlier time into that row (inbox.service.ts:464-552).
NothingSwallowed ==
  \A m \in Messages \ excused :
    delivery[m] = "told" =>
      /\ created[m] > read.last /\ read.mentions > 0
      /\ row.unread \/ m \in backdated

\* The badge of a conversation exceeds its unread messages by no more than the
\* deliveries that an acknowledgement met under way (read-state.service.ts:156-205).
BadgeBounded ==
  read.mentions <= Cardinality({m \in Posted : created[m] > read.last}) + Cardinality(again)

\* What is unread stays unread, and the badge counts no more than that.
UnreadIsKept == NothingSwallowed /\ BadgeBounded
=============================================================================
