----------------------------- MODULE ReadingProofs -----------------------------
(***************************************************************************)
(* What a person has still to read, for any number of messages, devices,   *)
(* snapshots and acknowledgements.                                         *)
(***************************************************************************)
EXTENDS ReadState, CatchUp, FiniteSetTheorems, SequenceTheorems, TLAPS

-----------------------------------------------------------------------------
(***************************************************************************)
(* The read state.  That a message stays unread follows from the order of  *)
(* the times: it was created before its notification was dated, and the    *)
(* row carries the latest date of those it was told, unless backdated.     *)
(* The badge is compared with the messages it has counted, not with all    *)
(* that are posted: the difference is what an acknowledgement meets under  *)
(* way.                                                                    *)
(***************************************************************************)
OnBadge == {m \in Messages : delivery[m] \in {"counted", "stamped", "told"}}
Told == {m \in Messages : delivery[m] = "told"}

NoTimeAhead ==
  /\ snapshot <= clock /\ read.last <= clock /\ row.updated <= clock
  /\ \A m \in Messages : created[m] <= clock /\ stamp[m] <= clock
  /\ \A d \in Openers : opening[d].at <= clock

\* A notification is dated after its message, and the row no earlier than that.
DatedInOrder ==
  \A m \in Messages :
    /\ delivery[m] \in {"stamped", "told"} => created[m] < stamp[m]
    /\ delivery[m] = "told" => m \in backdated \/ stamp[m] <= row.updated

StillUnread ==
  \A m \in UnderWay \ excused :
    /\ created[m] > read.last
    /\ m \in OnBadge => read.mentions > 0
    /\ m \in Told => row.unread \/ m \in backdated

\* Messages an acknowledgement met uncounted, and that count by now.
BadgeAgain == {m \in again : delivery[m] = "posted" => created[m] > read.last}
BadgeUnread == {m \in OnBadge : created[m] > read.last}

BadgeExplained ==
  /\ IsFiniteSet(UnderWay) /\ again \subseteq Posted
  /\ read.mentions <= Cardinality(BadgeUnread) + Cardinality(BadgeAgain)

ReadInv ==
  ReadTypeOK /\ NoTimeAhead /\ DatedInOrder /\ StillUnread /\ BadgeExplained
LEMMA PhaseNames ==
  {Phases[i] : i \in DOMAIN Phases} =
    {"none", "writing", "posted", "counted", "stamped", "told"}
<1>1. DOMAIN Phases = 1..6 /\ 1..6 = {1, 2, 3, 4, 5, 6}
  BY DEF Phases
<1> QED BY <1>1 DEF Phases

LEMMA ReadInitially == ReadInit => ReadInv
<1> SUFFICES ASSUME ReadInit PROVE ReadInv
  OBVIOUS
<1>1. ReadTypeOK
  BY PhaseNames, ReadAssumption DEF ReadInit, ReadTypeOK
<1>2. UnderWay = {} /\ OnBadge = {} /\ Posted = {} /\ Told = {}
  BY DEF ReadInit, UnderWay, OnBadge, Posted, Told
<1>3. BadgeUnread = {} /\ BadgeAgain = {}
  BY <1>2 DEF ReadInit, BadgeUnread, BadgeAgain
<1>4. BadgeExplained
  BY <1>2, <1>3, FS_EmptySet DEF ReadInit, BadgeExplained
<1>5. NoTimeAhead /\ DatedInOrder /\ StillUnread
  BY <1>2 DEF ReadInit, NoTimeAhead, DatedInOrder, StillUnread
<1> QED BY <1>1, <1>4, <1>5 DEF ReadInv

LEMMA ReadTyped == ReadInv /\ [ReadNext]_readVars => ReadTypeOK'
<1> SUFFICES ASSUME ReadInv, [ReadNext]_readVars PROVE ReadTypeOK'
  OBVIOUS
<1> USE PhaseNames, ReadAssumption DEF ReadInv, ReadTypeOK
<1>0. CASE UNCHANGED readVars
  BY <1>0 DEF readVars
<1>1. ASSUME NEW m \in Messages, Create(m) PROVE ReadTypeOK'
  <2>1. delivery' \in [Messages -> {Phases[i] : i \in DOMAIN Phases}]
    BY <1>1 DEF Create, Reach
  <2>2. clock' \in Nat /\ created' \in [Messages -> Nat]
    BY <1>1 DEF Create
  <2> QED BY <1>1, <2>1, <2>2 DEF Create
<1>2. ASSUME NEW m \in Messages, Post(m) PROVE ReadTypeOK'
  BY <1>2 DEF Post, Reach
<1>3. ASSUME NEW m \in Messages, CountMention(m) PROVE ReadTypeOK'
  <2>1. delivery' \in [Messages -> {Phases[i] : i \in DOMAIN Phases}]
    BY <1>3 DEF CountMention, Reach
  <2>2. read' \in [last : Nat, mentions : Nat, marked : BOOLEAN]
    BY <1>3 DEF CountMention
  <2> QED BY <1>3, <2>1, <2>2 DEF CountMention
<1>4. ASSUME NEW m \in Messages, Stamp(m) PROVE ReadTypeOK'
  <2>1. delivery' \in [Messages -> {Phases[i] : i \in DOMAIN Phases}]
    BY <1>4 DEF Stamp, Reach
  <2>2. clock' \in Nat /\ stamp' \in [Messages -> Nat]
    BY <1>4 DEF Stamp
  <2> QED BY <1>4, <2>1, <2>2 DEF Stamp
<1>5. ASSUME NEW m \in Messages, RecordDmMessages(m) PROVE ReadTypeOK'
  BY <1>5 DEF RecordDmMessages, Reach
<1>6. ASSUME NEW d \in Openers, Unmark(d) PROVE ReadTypeOK'
  <2>1. read' \in [last : Nat, mentions : Nat, marked : BOOLEAN]
    BY <1>6 DEF Unmark
  <2>2. opening' \in [Openers -> [step : {"idle", "unmarked", "dated", "saved"}, at : Nat]]
    BY <1>6 DEF Unmark
  <2> QED BY <1>6, <2>1, <2>2 DEF Unmark, Overtaken, UnderWay
<1>7. ASSUME NEW d \in Openers, Date(d) PROVE ReadTypeOK'
  BY <1>7 DEF Date, Overtaken, UnderWay
<1>8. ASSUME NEW d \in Openers, SaveRead(d) PROVE ReadTypeOK'
  BY <1>8 DEF SaveRead, Overtaken, UnderWay
<1>9. ASSUME NEW d \in Openers, ClearRow(d) PROVE ReadTypeOK'
  BY <1>9 DEF ClearRow, Overtaken, UnderWay
<1>10. CASE MarkDmUnread
  BY <1>10 DEF MarkDmUnread
<1>11. CASE Snap
  BY <1>11 DEF Snap
<1>12. CASE Acknowledge
  <2>1. IsFiniteSet(LeftUnread(snapshot))
    BY FS_Subset DEF BadgeExplained, LeftUnread, Posted, UnderWay
  <2>2. Cardinality(LeftUnread(snapshot)) \in Nat
    BY <2>1, FS_CardinalityType
  <2>3. row'.unread \in BOOLEAN /\ row' \in [updated : Nat, unread : BOOLEAN]
    BY <1>12 DEF Acknowledge
  <2>4. read' \in [last : Nat, mentions : Nat, marked : BOOLEAN]
    <3>1. CASE read.last > snapshot
      BY <1>12, <3>1 DEF Acknowledge
    <3>2. CASE ~(read.last > snapshot)
      <4>1. read' = [last |-> snapshot, mentions |-> Cardinality(LeftUnread(snapshot)),
                     marked |-> FALSE]
        BY <1>12, <3>2 DEF Acknowledge
      <4> QED BY <2>2, <4>1
    <3> QED BY <3>1, <3>2
  <2>5. again' \subseteq Messages /\ excused' \subseteq Messages
    BY <1>12 DEF Acknowledge, UnderWay
  <2> QED BY <1>12, <2>3, <2>4, <2>5 DEF Acknowledge
<1> QED
  BY <1>0, <1>1, <1>2, <1>3, <1>4, <1>5, <1>6, <1>7, <1>8, <1>9, <1>10, <1>11, <1>12
  DEF ReadNext

LEMMA TimesOrdered ==
  ReadInv /\ [ReadNext]_readVars => NoTimeAhead' /\ DatedInOrder'
<1> SUFFICES ASSUME ReadInv, [ReadNext]_readVars PROVE NoTimeAhead' /\ DatedInOrder'
  OBVIOUS
<1> USE PhaseNames DEF ReadInv, ReadTypeOK, NoTimeAhead, DatedInOrder
<1>0. CASE UNCHANGED readVars
  BY <1>0 DEF readVars
<1>1. ASSUME NEW m \in Messages, Create(m) PROVE NoTimeAhead' /\ DatedInOrder'
  BY <1>1 DEF Create, Reach
<1>2. ASSUME NEW m \in Messages, Post(m) PROVE NoTimeAhead' /\ DatedInOrder'
  BY <1>2 DEF Post, Reach
<1>3. ASSUME NEW m \in Messages, CountMention(m) PROVE NoTimeAhead' /\ DatedInOrder'
  BY <1>3 DEF CountMention, Reach
<1>4. ASSUME NEW m \in Messages, Stamp(m) PROVE NoTimeAhead' /\ DatedInOrder'
  BY <1>4 DEF Stamp, Reach
<1>5. ASSUME NEW m \in Messages, RecordDmMessages(m) PROVE NoTimeAhead' /\ DatedInOrder'
  BY <1>5 DEF RecordDmMessages, Reach
<1>6. ASSUME NEW d \in Openers, Unmark(d) \/ ClearRow(d) PROVE NoTimeAhead' /\ DatedInOrder'
  BY <1>6 DEF Unmark, ClearRow
<1>7. ASSUME NEW d \in Openers, Date(d) PROVE NoTimeAhead' /\ DatedInOrder'
  BY <1>7 DEF Date
<1>8. ASSUME NEW d \in Openers, SaveRead(d) PROVE NoTimeAhead' /\ DatedInOrder'
  BY <1>8 DEF SaveRead
<1>9. CASE MarkDmUnread \/ Snap
  BY <1>9 DEF MarkDmUnread, Snap
<1>10. CASE Acknowledge
  BY <1>10 DEF Acknowledge
<1> QED
  BY <1>0, <1>1, <1>2, <1>3, <1>4, <1>5, <1>6, <1>7, <1>8, <1>9, <1>10 DEF ReadNext

LEMMA NothingLost == ReadInv /\ [ReadNext]_readVars => StillUnread'
<1> SUFFICES ASSUME ReadInv, [ReadNext]_readVars PROVE StillUnread'
  OBVIOUS
<1> USE PhaseNames DEF ReadInv, ReadTypeOK, StillUnread, UnderWay, OnBadge, Told
<1>0. CASE UNCHANGED readVars
  BY <1>0 DEF readVars
<1>1. ASSUME NEW m \in Messages, Create(m) PROVE StillUnread'
  BY <1>1 DEF Create, Reach, NoTimeAhead
<1>2. ASSUME NEW m \in Messages, Post(m) PROVE StillUnread'
  BY <1>2 DEF Post, Reach
<1>3. ASSUME NEW m \in Messages, CountMention(m) PROVE StillUnread'
  BY <1>3 DEF CountMention, Reach
<1>4. ASSUME NEW m \in Messages, Stamp(m) PROVE StillUnread'
  BY <1>4 DEF Stamp, Reach
<1>5. ASSUME NEW m \in Messages, RecordDmMessages(m) PROVE StillUnread'
  BY <1>5 DEF RecordDmMessages, Reach
<1>6. ASSUME NEW d \in Openers, Unmark(d) \/ Date(d) \/ SaveRead(d) \/ ClearRow(d)
      PROVE  StillUnread'
  BY <1>6 DEF Unmark, Date, SaveRead, ClearRow, Overtaken
<1>7. CASE MarkDmUnread \/ Snap
  BY <1>7 DEF MarkDmUnread, Snap
<1>8. CASE Acknowledge
  <2> SUFFICES ASSUME NEW m \in UnderWay, m \notin excused'
      PROVE  /\ created[m] > read'.last
             /\ m \in OnBadge => read'.mentions > 0
             /\ m \in Told => row'.unread \/ m \in backdated
    BY <1>8 DEF Acknowledge
  <2>1. m \notin excused /\ created[m] > snapshot
    BY <1>8 DEF Acknowledge
  <2>2. created[m] > read'.last
    BY <1>8, <2>1 DEF Acknowledge
  <2>3. ASSUME m \in OnBadge PROVE read'.mentions > 0
    <3>1. m \in LeftUnread(snapshot)
      BY <2>1, <2>3 DEF LeftUnread, Posted
    <3>2. IsFiniteSet(LeftUnread(snapshot))
      BY FS_Subset DEF BadgeExplained, LeftUnread, Posted
    <3>3. Cardinality(LeftUnread(snapshot)) > 0
      BY <3>1, <3>2, FS_EmptySet, FS_CardinalityType
    <3> QED BY <1>8, <2>1, <2>3, <3>3 DEF Acknowledge
  <2>4. ASSUME m \in Told PROVE row'.unread \/ m \in backdated
    <3>1. m \in backdated \/ snapshot < row.updated
      BY <2>1, <2>4 DEF DatedInOrder
    <3>2. row'.unread = (row.unread /\ ~(row.updated <= snapshot))
      BY <1>8 DEF Acknowledge, Covered
    <3> QED BY <2>1, <2>4, <3>1, <3>2
  <2> QED BY <2>2, <2>3, <2>4
<1> QED
  BY <1>0, <1>1, <1>2, <1>3, <1>4, <1>5, <1>6, <1>7, <1>8 DEF ReadNext

\* The badge keeps within a bound that grows by at least as much.
LEMMA BadgeSteps ==
  ASSUME IsFiniteSet(UnderWay), NEW S, NEW T, S \subseteq UnderWay, T \subseteq UnderWay,
         NEW S2, NEW T2, NEW x,
         \/ S2 = S /\ T2 = T \cup {x} /\ x \notin T
         \/ S2 = S \cup {x} /\ T2 = T /\ x \notin S
  PROVE  Cardinality(S2) + Cardinality(T2) = Cardinality(S) + Cardinality(T) + 1
<1>1. IsFiniteSet(S) /\ IsFiniteSet(T)
  BY FS_Subset
<1>2. Cardinality(S) \in Nat /\ Cardinality(T) \in Nat
  BY <1>1, FS_CardinalityType
<1>3. x \notin S => Cardinality(S \cup {x}) = Cardinality(S) + 1
  BY <1>1, FS_AddElement
<1>4. x \notin T => Cardinality(T \cup {x}) = Cardinality(T) + 1
  BY <1>1, FS_AddElement
<1> QED BY <1>2, <1>3, <1>4

LEMMA BadgeKept == ReadInv /\ [ReadNext]_readVars => BadgeExplained'
<1> SUFFICES ASSUME ReadInv, [ReadNext]_readVars PROVE BadgeExplained'
  OBVIOUS
<1> USE PhaseNames DEF ReadInv, ReadTypeOK
<1>a. BadgeUnread \subseteq UnderWay /\ BadgeAgain \subseteq UnderWay
  BY DEF BadgeUnread, BadgeAgain, OnBadge, UnderWay, BadgeExplained, Posted
<1>b. IsFiniteSet(UnderWay) /\ read.mentions <= Cardinality(BadgeUnread) + Cardinality(BadgeAgain)
  BY DEF BadgeExplained
<1>c. Cardinality(BadgeUnread) \in Nat /\ Cardinality(BadgeAgain) \in Nat
  BY <1>a, <1>b, FS_Subset, FS_CardinalityType
\* Most steps leave both sides as they are.
<1>d. ASSUME UnderWay' = UnderWay, again' \subseteq Posted', read'.mentions = read.mentions,
             BadgeUnread' = BadgeUnread, BadgeAgain' = BadgeAgain
      PROVE  BadgeExplained'
  BY <1>b, <1>d DEF BadgeExplained
<1>0. CASE UNCHANGED readVars
  BY <1>0 DEF readVars, BadgeExplained, UnderWay, Posted, BadgeUnread, BadgeAgain, OnBadge
<1>1. ASSUME NEW m \in Messages, Create(m) PROVE BadgeExplained'
  <2>1. UnderWay' = UnderWay \cup {m} /\ Posted' = Posted /\ again' = again /\ m \notin again
    BY <1>1 DEF Create, Reach, UnderWay, Posted, BadgeExplained
  <2>2. IsFiniteSet(UnderWay')
    BY <1>b, <2>1, FS_AddElement
  <2>3. BadgeUnread' = BadgeUnread
    BY <1>1 DEF Create, Reach, BadgeUnread, OnBadge, UnderWay
  <2>4. BadgeAgain' = BadgeAgain
    BY <1>1, <2>1 DEF Create, Reach, BadgeAgain, BadgeExplained
  <2> QED BY <1>1, <1>b, <2>1, <2>2, <2>3, <2>4 DEF BadgeExplained, Create
<1>2. ASSUME NEW m \in Messages, Post(m) PROVE BadgeExplained'
  <2>1. UnderWay' = UnderWay /\ again' \subseteq Posted' /\ m \notin again
    BY <1>2 DEF Post, Reach, UnderWay, Posted, BadgeExplained
  <2>2. BadgeUnread' = BadgeUnread
    BY <1>2 DEF Post, Reach, BadgeUnread, OnBadge
  <2>3. BadgeAgain' = BadgeAgain
    BY <1>2, <2>1 DEF Post, Reach, BadgeAgain
  <2> QED BY <1>2, <1>d, <2>1, <2>2, <2>3 DEF Post
<1>3. ASSUME NEW m \in Messages, CountMention(m) PROVE BadgeExplained'
  <2>1. UnderWay' = UnderWay /\ again' \subseteq Posted'
    BY <1>3 DEF CountMention, Reach, UnderWay, Posted, BadgeExplained
  <2>2. read'.last = read.last /\ read'.mentions = read.mentions + 1
    BY <1>3 DEF CountMention
  <2>3. CASE created[m] > read.last
    <3>1. BadgeUnread' = BadgeUnread \cup {m} /\ m \notin BadgeUnread
      BY <1>3, <2>2, <2>3 DEF CountMention, Reach, BadgeUnread, OnBadge
    <3>2. BadgeAgain' = BadgeAgain
      BY <1>3, <2>2, <2>3 DEF CountMention, Reach, BadgeAgain
    <3>3. Cardinality(BadgeUnread') + Cardinality(BadgeAgain')
            = Cardinality(BadgeUnread) + Cardinality(BadgeAgain) + 1
      BY <3>1, <3>2, <1>a, <1>b, BadgeSteps
    <3> QED BY <1>b, <1>c, <2>1, <2>2, <3>3 DEF BadgeExplained
  <2>4. CASE ~(created[m] > read.last)
    <3>1. BadgeUnread' = BadgeUnread
      BY <1>3, <2>2, <2>4 DEF CountMention, Reach, BadgeUnread, OnBadge
    <3>2. again' = again \cup {m}
      BY <1>3, <2>4 DEF CountMention
    <3>3. BadgeAgain' = BadgeAgain \cup {m} /\ m \notin BadgeAgain
      BY <1>3, <2>2, <2>4, <3>2 DEF CountMention, Reach, BadgeAgain
    <3>4. Cardinality(BadgeUnread') + Cardinality(BadgeAgain')
            = Cardinality(BadgeUnread) + Cardinality(BadgeAgain) + 1
      BY <3>1, <3>3, <1>a, <1>b, BadgeSteps
    <3> QED BY <1>b, <1>c, <2>1, <2>2, <3>4 DEF BadgeExplained
  <2> QED BY <2>3, <2>4
<1>4. ASSUME NEW m \in Messages, Stamp(m) \/ RecordDmMessages(m) PROVE BadgeExplained'
  <2>1. /\ UnderWay' = UnderWay /\ Posted' = Posted /\ OnBadge' = OnBadge
        /\ again' = again /\ read' = read /\ created' = created
        /\ \A x \in Messages : delivery'[x] = "posted" <=> delivery[x] = "posted"
    BY <1>4 DEF Stamp, RecordDmMessages, Reach, UnderWay, Posted, OnBadge
  <2>2. BadgeUnread' = BadgeUnread /\ BadgeAgain' = BadgeAgain
    BY <2>1 DEF BadgeUnread, BadgeAgain
  <2> QED BY <1>d, <2>1, <2>2 DEF BadgeExplained
<1>5. ASSUME NEW d \in Openers, SaveRead(d) PROVE BadgeExplained'
  <2>1. UnderWay' = UnderWay /\ again' = {} /\ read'.mentions = 0
    BY <1>5 DEF SaveRead, UnderWay
  <2>2. BadgeAgain' = {} /\ BadgeUnread' \subseteq UnderWay
    BY <1>5, <2>1 DEF BadgeAgain, BadgeUnread, OnBadge, UnderWay, SaveRead
  <2>3. Cardinality(BadgeUnread') \in Nat /\ Cardinality(BadgeAgain') \in Nat
    BY <1>b, <2>2, FS_Subset, FS_CardinalityType, FS_EmptySet
  <2> QED BY <1>b, <2>1, <2>3 DEF BadgeExplained
<1>6. ASSUME NEW d \in Openers, Unmark(d) \/ Date(d) \/ ClearRow(d) PROVE BadgeExplained'
  <2>1. /\ delivery' = delivery /\ created' = created /\ again' = again
        /\ read'.mentions = read.mentions /\ read'.last = read.last
    BY <1>6 DEF Unmark, Date, ClearRow
  <2>2. UnderWay' = UnderWay /\ Posted' = Posted /\ OnBadge' = OnBadge
    BY <2>1 DEF UnderWay, Posted, OnBadge
  <2>3. BadgeUnread' = BadgeUnread /\ BadgeAgain' = BadgeAgain
    BY <2>1, <2>2 DEF BadgeUnread, BadgeAgain
  <2> QED BY <1>d, <2>1, <2>2, <2>3 DEF BadgeExplained
<1>7. CASE MarkDmUnread \/ Snap
  <2>1. /\ delivery' = delivery /\ created' = created /\ again' = again
        /\ read'.mentions = read.mentions /\ read'.last = read.last
    BY <1>7 DEF MarkDmUnread, Snap
  <2>2. UnderWay' = UnderWay /\ Posted' = Posted /\ OnBadge' = OnBadge
    BY <2>1 DEF UnderWay, Posted, OnBadge
  <2>3. BadgeUnread' = BadgeUnread /\ BadgeAgain' = BadgeAgain
    BY <2>1, <2>2 DEF BadgeUnread, BadgeAgain
  <2> QED BY <1>d, <2>1, <2>2, <2>3 DEF BadgeExplained
<1>8. CASE Acknowledge
  <2>1. /\ delivery' = delivery /\ created' = created
        /\ UnderWay' = UnderWay /\ Posted' = Posted /\ OnBadge' = OnBadge
    BY <1>8 DEF Acknowledge, UnderWay, Posted, OnBadge
  <2>2. CASE read.last > snapshot
    <3>1. again' = again /\ read'.last = read.last /\ read'.mentions = read.mentions
      BY <1>8, <2>2 DEF Acknowledge
    <3>2. BadgeUnread' = BadgeUnread /\ BadgeAgain' = BadgeAgain
      BY <2>1, <3>1 DEF BadgeUnread, BadgeAgain
    <3> QED BY <1>d, <2>1, <3>1, <3>2 DEF BadgeExplained
  <2>3. CASE ~(read.last > snapshot)
    <3>1. /\ again' = {m \in Messages : delivery[m] = "posted"}
          /\ read'.last = snapshot /\ read'.mentions = Cardinality(LeftUnread(snapshot))
      BY <1>8, <2>3 DEF Acknowledge
    <3>2. BadgeUnread' = {m \in OnBadge : created[m] > snapshot}
      BY <2>1, <3>1 DEF BadgeUnread
    <3>3. BadgeAgain' = {m \in Messages : delivery[m] = "posted" /\ created[m] > snapshot}
      BY <2>1, <3>1 DEF BadgeAgain
    <3>4. /\ LeftUnread(snapshot) = BadgeUnread' \cup BadgeAgain'
          /\ BadgeUnread' \cap BadgeAgain' = {}
          /\ BadgeUnread' \subseteq UnderWay /\ BadgeAgain' \subseteq UnderWay
      BY <3>2, <3>3 DEF LeftUnread, Posted, OnBadge, UnderWay
    <3>5. IsFiniteSet(BadgeUnread') /\ IsFiniteSet(BadgeAgain')
      BY <1>b, <3>4, FS_Subset
    <3>6. Cardinality(LeftUnread(snapshot)) = Cardinality(BadgeUnread') + Cardinality(BadgeAgain')
      <4>1. Cardinality(BadgeUnread' \cup BadgeAgain') =
              Cardinality(BadgeUnread') + Cardinality(BadgeAgain')
              - Cardinality(BadgeUnread' \cap BadgeAgain')
        BY <3>5, FS_Union
      <4>2. Cardinality(BadgeUnread' \cap BadgeAgain') = 0
        BY <3>4, FS_EmptySet
      <4> QED BY <3>4, <3>5, <4>1, <4>2, FS_CardinalityType
    <3>7. again' \subseteq Posted'
      BY <2>1, <3>1 DEF Posted
    <3> QED BY <1>b, <2>1, <3>1, <3>5, <3>6, <3>7, FS_CardinalityType DEF BadgeExplained
  <2> QED BY <2>2, <2>3
<1> QED
  BY <1>0, <1>1, <1>2, <1>3, <1>4, <1>5, <1>6, <1>7, <1>8 DEF ReadNext

THEOREM ReadInvariant == ReadSpec => []ReadInv
<1>1. ReadInv /\ [ReadNext]_readVars => ReadInv'
  BY ReadTyped, TimesOrdered, NothingLost, BadgeKept DEF ReadInv
<1> QED BY <1>1, ReadInitially, PTL DEF ReadSpec

LEMMA UnreadFollows == ReadInv => UnreadIsKept
<1> SUFFICES ASSUME ReadInv PROVE UnreadIsKept
  OBVIOUS
<1>1. NothingSwallowed
  BY DEF ReadInv, ReadTypeOK, StillUnread, NothingSwallowed, UnderWay, OnBadge, Told
<1>2. /\ BadgeUnread \subseteq {m \in Posted : created[m] > read.last}
      /\ BadgeAgain \subseteq again
      /\ {m \in Posted : created[m] > read.last} \subseteq UnderWay /\ again \subseteq UnderWay
  BY DEF ReadInv, BadgeExplained, BadgeUnread, BadgeAgain, OnBadge, Posted, UnderWay
<1>3. IsFiniteSet({m \in Posted : created[m] > read.last}) /\ IsFiniteSet(again)
  BY <1>2, FS_Subset DEF ReadInv, BadgeExplained
<1>4. /\ Cardinality(BadgeUnread) <= Cardinality({m \in Posted : created[m] > read.last})
      /\ Cardinality(BadgeAgain) <= Cardinality(again)
      /\ Cardinality(BadgeUnread) \in Nat /\ Cardinality(BadgeAgain) \in Nat
      /\ Cardinality({m \in Posted : created[m] > read.last}) \in Nat
      /\ Cardinality(again) \in Nat
  BY <1>2, <1>3, FS_Subset, FS_CardinalityType
<1>5. BadgeBounded
  BY <1>4 DEF ReadInv, ReadTypeOK, BadgeExplained, BadgeBounded
<1> QED BY <1>1, <1>5 DEF UnreadIsKept

\* What is unread stays unread and the badge counts no more than that, however
\* deliveries, acknowledgements, frozen snapshots and openings overlap.
THEOREM UnreadStays == ReadSpec => []UnreadIsKept
BY UnreadFollows, ReadInvariant, PTL
-----------------------------------------------------------------------------
(***************************************************************************)
(* The catch-up session.  Every copy a device has is the stored session or *)
(* one it has left behind; a request that moves on was made for the        *)
(* conversation the device shows; and a move recorded for the reader on    *)
(* show is one past its conversation, which an injective list has once.    *)
(***************************************************************************)
Older(s, t) == s.id < t.id \/ (s.id = t.id /\ s.rev <= t.rev)
CopyOf(s, t) == s = t \/ s.id < t.id \/ (s.id = t.id /\ s.rev < t.rev)

CopiesBehind ==
  /\ server.id = started
  /\ \A d \in Screens :
       /\ CopyOf(view[d], server)
       /\ call[d].state = "ok" => /\ CopyOf(call[d].answer, server)
                                  /\ Older(view[d], call[d].answer)
       /\ loading[d] # NoLoad => /\ call[d].state = "none"
                                 /\ CopyOf(loading[d], server) /\ Older(view[d], loading[d])

\* A change that moves on was clicked in a reader the device has shown.
Clicked(d, c) == c.kind \in Moves => c.req \in 1..readers[d]

ChangesClicked ==
  \A d \in Screens :
    /\ reader[d].req <= readers[d]
    /\ Clicked(d, kept[d])
    /\ \A i \in 1..Len(pending[d]) : /\ pending[d][i].kind # "none"
                                     /\ Clicked(d, pending[d][i])

ShownIn(d, s) == s.id = reader[d].id /\ ~Complete(s) /\ Current(s) = reader[d].group

\* The request under way is one of the first change.
CallInPlace ==
  \A d \in Screens :
    /\ call[d].state # "none" => pending[d] # <<>>
    /\ call[d].state \in {"asked", "ok"} =>
         /\ \/ call[d].kind = Change(d).kind
            \/ call[d].kind = "anchor" /\ Change(d).kind = "decide"
         /\ Change(d).kind \in Moves => SameReader(d) /\ ShownIn(d, view[d])
    /\ call[d].state = "asked" /\ Change(d).kind \in Moves =>
         call[d].id = view[d].id /\ call[d].rev = view[d].rev
    /\ call[d].state = "ok" /\ call[d].kind = "anchor" => ShownIn(d, call[d].answer)

\* Where a recorded move was.
Recorded(a) ==
  /\ a.id <= server.id
  /\ a.id = server.id => /\ a.index \in 1..Len(server.list) /\ a.index < server.index
                         /\ server.list[a.index] = a.group
  /\ \/ a.screen = Other /\ a.req <= others
     \/ /\ a.screen \in Screens /\ a.req \in 1..readers[a.screen]
        /\ a.req = reader[a.screen].req =>
             a.id = reader[a.screen].id /\ a.group = reader[a.screen].group

ActsRecorded ==
  /\ acts \subseteq [screen : Screens \cup {Other}, req : Nat, id : Nat, index : Nat,
                     kind : Moves, group : Groups, seen : Groups \cup {0}]
  /\ \A a \in acts : Recorded(a)

CatchUpInv ==
  /\ CatchUpTypeOK /\ CopiesBehind /\ ChangesClicked /\ CallInPlace
  /\ ActsRecorded /\ OneDecisionPerClick
LEMMA ValuesTyped ==
  /\ None \in Session /\ NoCall \in Calls /\ NoChange \in Changes
  /\ NoReader \in [req : Nat, id : Nat, group : Groups \cup {0}, target : {"none", "first", "moved"}]
  /\ Moves \cap Starts = {} /\ "none" \notin Moves \cup Starts /\ "anchor" \notin Moves \cup Starts
BY DEF None, NewSession, Session, NoCall, Calls, NoChange, Changes, NoReader, Moves, Starts

LEMMA CurrentTyped ==
  ASSUME NEW s \in Session, ~Complete(s)
  PROVE  /\ s.list \in Lists /\ s.list \in Seq(Groups) /\ s.index \in 1..Len(s.list)
         /\ Current(s) \in Groups
<1>1. s.list # <<>>
  BY DEF Session, Complete
<1>2. s.list \in Lists /\ s.list \in Seq(Groups)
  BY <1>1, CatchUpAssumption DEF Session
<1>3. s.index \in 1..Len(s.list)
  BY <1>2 DEF Session, Complete
<1> QED BY <1>2, <1>3 DEF Current

LEMMA AdvancedTyped ==
  ASSUME CatchUpTypeOK
  PROVE  /\ Advanced \in Session
         /\ \A t \in {"none", "first", "moved"} :
              [server EXCEPT !.anchor = t, !.rev = @ + 1] \in Session
<1>1. /\ server.index + 1 \in Nat \ {0} /\ server.rev + 1 \in Nat
      /\ server \in [id : Nat, rev : Nat, index : Nat \ {0}, list : Lists \cup {<<>>},
                    anchor : {"none", "first", "moved"}]
  BY DEF CatchUpTypeOK, Session
<1>2. Advanced \in Session
  BY <1>1 DEF Advanced, Session
<1>3. ASSUME NEW t \in {"none", "first", "moved"}
      PROVE  [server EXCEPT !.anchor = t, !.rev = @ + 1] \in Session
  BY <1>1 DEF Session
<1> QED BY <1>2, <1>3

LEMMA BoundsTyped ==
  /\ MaxSessions \in Nat /\ MaxClicks \in Nat /\ MaxPending \in Nat
  /\ MaxFailures \in Nat /\ MaxOthers \in Nat
BY CatchUpAssumption

LEMMA NewTyped ==
  ASSUME NEW l \in Lists, NEW n \in Nat
  PROVE  NewSession(n, l) \in Session /\ NewSession(n, l).id = n
BY DEF NewSession, Session

LEMMA CatchUpInitially == CatchUpInit => CatchUpInv
<1> SUFFICES ASSUME CatchUpInit PROVE CatchUpInv
  OBVIOUS
<1>1. PICK l \in Lists : server = NewSession(1, l)
  BY DEF CatchUpInit
<1>2. server \in Session /\ server.id = 1
  BY <1>1, NewTyped
<1>3. CatchUpTypeOK
  BY <1>2, ValuesTyped, CatchUpAssumption DEF CatchUpInit, CatchUpTypeOK
<1>4. CopiesBehind
  BY <1>2 DEF CatchUpInit, CopiesBehind, CopyOf, NoCall
<1>5. ChangesClicked
  BY ValuesTyped DEF CatchUpInit, ChangesClicked, Clicked, NoReader, NoChange
<1>6. CallInPlace
  BY DEF CatchUpInit, CallInPlace, NoCall
<1>7. ActsRecorded /\ OneDecisionPerClick
  BY DEF CatchUpInit, ActsRecorded, OneDecisionPerClick
<1> QED BY <1>3, <1>4, <1>5, <1>6, <1>7 DEF CatchUpInv

LEMMA ReaderTyped ==
  ASSUME CatchUpTypeOK, NEW d \in Screens, NEW s \in Session, Resume(d, s)
  PROVE  /\ reader' \in [Screens -> [req : Nat, id : Nat, group : Groups \cup {0},
                                    target : {"none", "first", "moved"}]]
         /\ readers' \in [Screens -> Nat]
<1>1. CASE Complete(s)
  BY <1>1, ValuesTyped DEF CatchUpTypeOK, Resume, Shown
<1>2. CASE ~Complete(s)
  <2>1. Current(s) \in Groups /\ s.id \in Nat
    BY <1>2, CurrentTyped DEF Session
  <2>2. (IF s.anchor = "none" THEN "first" ELSE s.anchor) \in {"none", "first", "moved"}
    BY DEF Session
  <2>3. readers[d] + 1 \in Nat
    BY DEF CatchUpTypeOK
  <2> DEFINE new == [req |-> readers[d] + 1, id |-> s.id, group |-> Current(s),
                     target |-> IF s.anchor = "none" THEN "first" ELSE s.anchor]
  <2>4. new \in [req : Nat, id : Nat, group : Groups \cup {0}, target : {"none", "first", "moved"}]
    BY <2>1, <2>2, <2>3
  <2>5. reader' = [reader EXCEPT ![d] = new] /\ readers' = [readers EXCEPT ![d] = @ + 1]
    BY <1>2 DEF Resume, Shown
  <2> HIDE DEF new
  <2> QED BY <2>3, <2>4, <2>5 DEF CatchUpTypeOK
<1> QED BY <1>1, <1>2

\* A step of one device, seen from the type invariant.
LEMMA CatchUpTyped == CatchUpTypeOK /\ CallInPlace /\ [CatchUpNext]_catchUpVars => CatchUpTypeOK'
<1> SUFFICES ASSUME CatchUpTypeOK, CallInPlace, [CatchUpNext]_catchUpVars PROVE CatchUpTypeOK'
  OBVIOUS
<1>0. CASE UNCHANGED catchUpVars
  BY <1>0 DEF catchUpVars, CatchUpTypeOK
<1>a. ASSUME NEW d \in Screens, Finished(d), pending[d] # <<>>
      PROVE  pending' \in [Screens -> Seq(Changes)] /\ call' \in [Screens -> Calls]
  BY <1>a, ValuesTyped DEF Finished, CatchUpTypeOK
<1>1. CASE OtherDevice
  <2>1. others' \in 0..MaxOthers /\ started' \in 0..MaxSessions
    <3>1. /\ others < MaxOthers /\ others' = others + 1
          /\ started' = started \/ (started < MaxSessions /\ started' = started + 1)
      BY <1>1 DEF OtherDevice
    <3> QED BY <3>1, BoundsTyped DEF CatchUpTypeOK
  <2>2. server' \in Session
    <3>1. started + 1 \in Nat
      BY DEF CatchUpTypeOK
    <3> QED BY <1>1, <3>1, AdvancedTyped, NewTyped DEF OtherDevice
  <2> QED BY <1>1, <2>1, <2>2 DEF OtherDevice, CatchUpTypeOK
<1>2. ASSUME NEW d \in Screens, NEW kind \in Moves \cup Starts, Click(d, kind)
      PROVE  CatchUpTypeOK'
  <2>1. [kind |-> kind, req |-> reader[d].req] \in Changes
    BY DEF Changes, CatchUpTypeOK
  <2>2. pending' \in [Screens -> Seq(Changes)]
    BY <1>2, <2>1 DEF Click, CatchUpTypeOK
  <2>3. clicks' \in 0..MaxClicks
    BY <1>2, BoundsTyped DEF Click, CatchUpTypeOK
  <2> QED BY <1>2, <2>2, <2>3 DEF Click, CatchUpTypeOK
<1>3. ASSUME NEW d \in Screens, StageAnchor(d) PROVE CatchUpTypeOK'
  BY <1>3 DEF StageAnchor, CatchUpTypeOK
<1>4. ASSUME NEW d \in Screens, Perform(d) PROVE CatchUpTypeOK'
  <2>1. Change(d) \in Changes /\ pending' \in [Screens -> Seq(Changes)]
    <3>1. pending[d] \in Seq(Changes) /\ pending[d] # <<>>
      BY <1>4 DEF Perform, Begins, CatchUpTypeOK
    <3>2. Head(pending[d]) \in Changes /\ Tail(pending[d]) \in Seq(Changes)
      BY <3>1
    <3> QED BY <1>4, <3>2 DEF Perform, Change, CatchUpTypeOK
  <2>2. Request(d) \in Calls
    BY <2>1, ValuesTyped DEF Request, Calls, Changes, Session, NoCall, CatchUpTypeOK
  <2>3. [NoCall EXCEPT !.state = "conflict"] \in Calls
    BY ValuesTyped DEF NoCall, Calls
  <2>4. call' \in [Screens -> Calls]
    BY <1>4, <2>2, <2>3 DEF Perform, CatchUpTypeOK
  <2>5. loading' \in [Screens -> Session \cup {NoLoad}] /\ kept' \in [Screens -> Changes]
    BY <1>4, ValuesTyped DEF Perform, DropLoad, CatchUpTypeOK
  <2> QED BY <1>4, <2>1, <2>4, <2>5 DEF Perform, CatchUpTypeOK
<1>5. ASSUME NEW d \in Screens, Succeeds(d) PROVE CatchUpTypeOK'
  <2>1. call[d].answer \in Session /\ pending[d] # <<>>
    BY <1>5 DEF Succeeds, CatchUpTypeOK, Calls, CallInPlace
  <2>2. view' \in [Screens -> Session]
    BY <1>5, <2>1 DEF Succeeds, CatchUpTypeOK
  <2> QED BY <1>5, <1>a, <2>1, <2>2, ReaderTyped DEF Succeeds, CatchUpTypeOK
<1>6. ASSUME NEW d \in Screens, Proceeds(d) PROVE CatchUpTypeOK'
  <2>1. call[d].answer \in Session /\ pending[d] # <<>>
    BY <1>6 DEF Proceeds, CatchUpTypeOK, Calls, CallInPlace
  <2>2. Change(d) \in Changes
    BY <2>1 DEF Change, CatchUpTypeOK
  <2>3. view' \in [Screens -> Session]
    BY <1>6, <2>1 DEF Proceeds, CatchUpTypeOK
  <2> DEFINE new == [NoCall EXCEPT !.state = "asked", !.id = call[d].answer.id,
                                   !.rev = call[d].answer.rev, !.kind = Change(d).kind]
  <2>4. new \in Calls
    BY <2>1, <2>2, ValuesTyped DEF Session, Changes, Calls, NoCall
  <2>5. call' = [call EXCEPT ![d] = new]
    BY <1>6 DEF Proceeds
  <2> HIDE DEF new
  <2>6. call' \in [Screens -> Calls]
    BY <2>4, <2>5 DEF CatchUpTypeOK
  <2> QED BY <1>6, <2>3, <2>6 DEF Proceeds, CatchUpTypeOK
<1>7. ASSUME NEW d \in Screens, Conflicts(d) PROVE CatchUpTypeOK'
  <2>1. pending[d] # <<>>
    BY <1>7 DEF Conflicts, CallInPlace
  <2>2. view' \in [Screens -> Session] /\ failures' \in 0..MaxFailures
    <3>1. /\ view' = [view EXCEPT ![d] = server] \/ view' = view
          /\ failures' = failures \/ (failures < MaxFailures /\ failures' = failures + 1)
      BY <1>7 DEF Conflicts
    <3>2. view' \in [Screens -> Session]
      BY <3>1 DEF CatchUpTypeOK
    <3>3. failures' \in 0..MaxFailures
      BY <3>1, BoundsTyped DEF CatchUpTypeOK
    <3> QED BY <3>2, <3>3
  <2> QED BY <1>7, <1>a, <2>1, <2>2 DEF Conflicts, CatchUpTypeOK
<1>8. ASSUME NEW d \in Screens, Breaks(d) PROVE CatchUpTypeOK'
  <2>1. pending[d] # <<>>
    BY <1>8 DEF Breaks, CallInPlace
  <2>2. kept' \in [Screens -> Changes]
    BY <1>8, <2>1 DEF Breaks, Change, CatchUpTypeOK
  <2> QED BY <1>8, <1>a, <2>1, <2>2 DEF Breaks, CatchUpTypeOK
<1>9. ASSUME NEW d \in Screens, Retry(d) PROVE CatchUpTypeOK'
  <2>1. pending' \in [Screens -> Seq(Changes)]
    BY <1>9 DEF Retry, CatchUpTypeOK
  <2> QED BY <1>9, <2>1 DEF Retry, CatchUpTypeOK
<1>10. ASSUME NEW d \in Screens, Reopen(d) PROVE CatchUpTypeOK'
  <2>1. view[d] \in Session
    BY DEF CatchUpTypeOK
  <2> QED BY <1>10, <2>1, ReaderTyped DEF Reopen, CatchUpTypeOK
<1>11. ASSUME NEW d \in Screens, Load(d) \/ Loaded(d) PROVE CatchUpTypeOK'
  BY <1>11 DEF Load, Loaded, CatchUpTypeOK
<1>12. ASSUME NEW d \in Screens, Serve(d) PROVE CatchUpTypeOK'
  <2>1. server' \in Session /\ started' \in 0..MaxSessions
    <3>0. started + 1 \in Nat /\ call[d].target \in {"none", "first", "moved"}
      BY DEF CatchUpTypeOK, Calls
    <3>1. CASE StartSession(d)
      <4>1. started' \in 0..MaxSessions
        <5>1. started' = started \/ (started < MaxSessions /\ started' = started + 1)
          BY <3>1 DEF StartSession
        <5> QED BY <5>1, BoundsTyped DEF CatchUpTypeOK
      <4>2. server' \in Session
        <5>1. server' = server \/ \E l \in Lists : server' = NewSession(started + 1, l)
          BY <3>1 DEF StartSession
        <5> QED BY <3>0, <5>1, NewTyped DEF CatchUpTypeOK
      <4> QED BY <4>1, <4>2
    <3>2. CASE MutateSession(d)
      BY <3>0, <3>2, AdvancedTyped DEF MutateSession, CatchUpTypeOK
    <3> QED BY <1>12, <3>1, <3>2 DEF Serve
  <2>2. call' \in [Screens -> Calls]
    <3>1. \A s \in Session : [call[d] EXCEPT !.state = "ok", !.answer = s] \in Calls
      BY ZenonT(30) DEF CatchUpTypeOK, Calls
    <3>2. \A x \in {"failed", "conflict"} : [call[d] EXCEPT !.state = x] \in Calls
      BY ZenonT(30) DEF CatchUpTypeOK, Calls
    <3>3. ASSUME NEW s \in Session, Answered(d, s) PROVE call' \in [Screens -> Calls]
      BY <3>1, <3>3 DEF Answered, CatchUpTypeOK
    <3>4. CASE StartSession(d)
      BY <3>3, <3>4, <2>1 DEF StartSession, CatchUpTypeOK
    <3>5. CASE MutateSession(d)
      BY <3>2, <3>3, <3>5, <2>1 DEF MutateSession, CatchUpTypeOK
    <3> QED BY <1>12, <3>4, <3>5 DEF Serve
  <2> QED BY <1>12, <2>1, <2>2 DEF Serve, CatchUpTypeOK
<1>13. ASSUME NEW d \in Screens, Lose(d) PROVE CatchUpTypeOK'
  <2>0. [call[d] EXCEPT !.state = "failed"] \in Calls
    BY ZenonT(30) DEF CatchUpTypeOK, Calls
  <2>1. call' \in [Screens -> Calls] /\ failures' \in 0..MaxFailures
    BY SMTT(20), <1>13, <2>0, BoundsTyped DEF Lose, CatchUpTypeOK
  <2> QED BY <1>13, <2>1 DEF Lose, CatchUpTypeOK
<1> QED
  BY <1>0, <1>1, <1>2, <1>3, <1>4, <1>5, <1>6, <1>7, <1>8, <1>9, <1>10, <1>11, <1>12, <1>13
  DEF CatchUpNext
-----------------------------------------------------------------------------
(* The stored session moves forward, and so do the copies.                 *)

Forward == server' = server \/ CopyOf(server, server')

LEMMA CopiesTransitive ==
  ASSUME NEW r \in Session, NEW s \in Session, NEW t \in Session
  PROVE  /\ CopyOf(r, s) => Older(r, s)
         /\ Older(r, s) /\ Older(s, t) => Older(r, t)
         /\ CopyOf(r, s) /\ CopyOf(s, t) => CopyOf(r, t)
         /\ CopyOf(r, s) /\ r.id = s.id /\ r.rev = s.rev => r = s
         /\ Older(r, r) /\ CopyOf(r, r)
BY DEF Session, Older, CopyOf

LEMMA AdvancedForward ==
  ASSUME CatchUpTypeOK
  PROVE  /\ CopyOf(server, Advanced) /\ Advanced.id = server.id
         /\ \A t \in {"none", "first", "moved"} :
              /\ CopyOf(server, [server EXCEPT !.anchor = t, !.rev = @ + 1])
              /\ [server EXCEPT !.anchor = t, !.rev = @ + 1].id = server.id
BY DEF CatchUpTypeOK, Session, Advanced, CopyOf

LEMMA NewForward ==
  ASSUME CatchUpTypeOK, server.id = started, NEW l \in Lists
  PROVE  CopyOf(server, NewSession(started + 1, l))
BY DEF CatchUpTypeOK, Session, NewSession, CopyOf

\* What one request, or another device, does to the stored session.
LEMMA ServerForward ==
  ASSUME CatchUpInv, OtherDevice \/ \E d \in Screens : Serve(d)
  PROVE  Forward /\ server'.id = started'
<1> USE DEF CatchUpInv
<1>0. server.id = started /\ started \in Nat
  BY DEF CopiesBehind, CatchUpTypeOK
<1>1. CASE OtherDevice
  <2>1. \/ server' = Advanced /\ started' = started
        \/ server' = [server EXCEPT !.anchor = "moved", !.rev = @ + 1] /\ started' = started
        \/ started' = started + 1 /\ \E l \in Lists : server' = NewSession(started + 1, l)
    BY <1>1 DEF OtherDevice
  <2>2. \A l \in Lists : NewSession(started + 1, l).id = started + 1
    BY DEF NewSession
  <2> QED BY <1>0, <2>1, <2>2, AdvancedForward, NewForward DEF Forward
<1>2. ASSUME NEW d \in Screens, Serve(d) PROVE Forward /\ server'.id = started'
  <2>0. call[d].target \in {"none", "first", "moved"}
    BY DEF CatchUpTypeOK, Calls
  <2>1. \/ server' = server /\ started' = started
        \/ server' = Advanced /\ started' = started
        \/ /\ server' = [server EXCEPT !.anchor = call[d].target, !.rev = @ + 1]
           /\ started' = started
        \/ started' = started + 1 /\ \E l \in Lists : server' = NewSession(started + 1, l)
    BY <1>2 DEF Serve, StartSession, MutateSession
  <2>2. \A l \in Lists : NewSession(started + 1, l).id = started + 1
    BY DEF NewSession
  <2> QED BY <1>0, <2>0, <2>1, <2>2, AdvancedForward, NewForward DEF Forward
<1> QED BY <1>1, <1>2

LEMMA ForwardStep ==
  CatchUpInv /\ [CatchUpNext]_catchUpVars => Forward /\ server'.id = started'
<1> SUFFICES ASSUME CatchUpInv, [CatchUpNext]_catchUpVars
    PROVE  Forward /\ server'.id = started'
  OBVIOUS
<1>1. CASE server' = server /\ started' = started
  BY <1>1 DEF CatchUpInv, CopiesBehind, Forward
<1>2. CASE OtherDevice \/ \E d \in Screens : Serve(d)
  BY <1>2, ServerForward
<1>3. \/ server' = server /\ started' = started
      \/ OtherDevice \/ \E d \in Screens : Serve(d)
  BY DEF catchUpVars, CatchUpNext, Click, StageAnchor, Perform, Succeeds, Proceeds, Conflicts,
         Breaks, Retry, Reopen, Load, Loaded, Lose
<1> QED BY <1>1, <1>2, <1>3

\* What Serve answers is the session as it is then.
LEMMA AnswerCurrent ==
  ASSUME CatchUpInv, NEW d \in Screens, Serve(d), call'[d].state = "ok"
  PROVE  call'[d].answer = server'
<1>1. call[d] \in Calls /\ call[d].state = "asked"
  BY DEF CatchUpInv, CatchUpTypeOK, Serve
<1>2. ASSUME NEW s, Answered(d, s) PROVE call'[d].answer = s
  BY <1>1, <1>2 DEF Answered, CatchUpInv, CatchUpTypeOK, Calls
<1>3. CASE StartSession(d)
  BY <1>2, <1>3 DEF StartSession
<1>4. CASE MutateSession(d) /\ Answered(d, server')
  BY <1>2, <1>4
<1>5. CASE MutateSession(d) /\ ~Answered(d, server')
  <2>1. call' = [call EXCEPT ![d].state = IF server.id # call[d].id THEN "failed" ELSE "conflict"]
    BY <1>5 DEF MutateSession
  <2> QED BY <2>1, <1>1 DEF CatchUpInv, CatchUpTypeOK, Calls
<1> QED BY <1>3, <1>4, <1>5 DEF Serve

\* A step of one device leaves the calls of the others alone, and no step of a device
\* makes a call answered.
LEMMA CallsMove ==
  ASSUME CatchUpTypeOK, NEW d \in Screens
  PROVE  /\ \A x : call' = [call EXCEPT ![d] = x] =>
              call'[d] = x /\ \A e \in Screens \ {d} : call'[e] = call[e]
         /\ NoCall.state = "none" /\ Request(d).state = "asked"
         /\ [NoCall EXCEPT !.state = "conflict"].state = "conflict"
         /\ \A n, r, k : [NoCall EXCEPT !.state = "asked", !.id = n, !.rev = r, !.kind = k].state
                          = "asked"
BY DEF CatchUpTypeOK, Request, NoCall

LEMMA OthersCalls ==
  ASSUME CatchUpTypeOK, NEW d \in Screens, NEW e \in Screens \ {d},
         \/ Perform(d) \/ Succeeds(d) \/ Proceeds(d) \/ Conflicts(d)
         \/ Breaks(d) \/ Serve(d) \/ Lose(d)
  PROVE  call'[e] = call[e]
<1>1. call' = call \/ \E x : call' = [call EXCEPT ![d] = x]
  <2>1. CASE Perform(d)
    BY <2>1 DEF Perform
  <2>2. CASE Succeeds(d) \/ Proceeds(d) \/ Conflicts(d) \/ Breaks(d)
    BY <2>2 DEF Succeeds, Proceeds, Conflicts, Breaks, Finished
  <2>3. CASE Serve(d)
    BY <2>3 DEF Serve, StartSession, MutateSession, Answered
  <2>4. CASE Lose(d)
    BY <2>4 DEF Lose
  <2> QED BY <2>1, <2>2, <2>3, <2>4
<1> QED BY <1>1, CallsMove

LEMMA OldCopies ==
  ASSUME CatchUpInv, CatchUpTypeOK', Forward, NEW s \in Session, CopyOf(s, server)
  PROVE  CopyOf(s, server')
BY CopiesTransitive DEF CatchUpInv, CatchUpTypeOK, Forward

LEMMA CopiesKept ==
  CatchUpInv /\ CatchUpTypeOK' /\ [CatchUpNext]_catchUpVars => CopiesBehind'
<1> SUFFICES ASSUME CatchUpInv, CatchUpTypeOK', [CatchUpNext]_catchUpVars PROVE CopiesBehind'
  OBVIOUS
<1> DEFINE Behind(d) ==
      /\ CopyOf(view[d], server)
      /\ call[d].state = "ok" => CopyOf(call[d].answer, server) /\ Older(view[d], call[d].answer)
      /\ loading[d] # NoLoad => /\ call[d].state = "none"
                                /\ CopyOf(loading[d], server) /\ Older(view[d], loading[d])
<1>0. Forward /\ server'.id = started'
  BY ForwardStep
<1>a. \A s \in Session : CopyOf(s, server) => CopyOf(s, server')
  BY <1>0, OldCopies
<1>b. \A d \in Screens : /\ view[d] \in Session /\ call[d].answer \in Session /\ Behind(d)
                         /\ loading[d] # NoLoad => loading[d] \in Session
                         /\ view'[d] \in Session /\ call'[d].answer \in Session
  BY DEF CatchUpInv, CatchUpTypeOK, Calls, CopiesBehind
<1>c. server \in Session /\ server' \in Session /\ CopyOf(server, server) /\ CopyOf(server', server')
  BY CopiesTransitive DEF CatchUpInv, CatchUpTypeOK
<1> SUFFICES ASSUME NEW d \in Screens PROVE Behind(d)'
  BY <1>0 DEF CopiesBehind
<1> HIDE DEF Behind
<1>d. CASE view'[d] = view[d] /\ call'[d] = call[d] /\ loading'[d] = loading[d]
  BY <1>a, <1>b, <1>d DEF Behind
<1>e. CASE view'[d] = view[d] /\ call'[d].state # "ok" /\ loading'[d] = NoLoad
  BY <1>a, <1>b, <1>e DEF Behind
<1>f. CASE view'[d] = view[d] /\ call'[d].state # "ok" /\ loading'[d] = loading[d] /\ call[d].state # "none"
  BY <1>a, <1>b, <1>f DEF Behind
<1>1. ASSUME NEW e \in Screens, \/ \E kind \in Moves \cup Starts : Click(e, kind)
                                \/ StageAnchor(e) \/ Retry(e) \/ Reopen(e)
      PROVE  Behind(d)'
  BY <1>1, <1>d DEF Click, StageAnchor, Retry, Reopen
<1>2. ASSUME NEW e \in Screens, e # d, \/ Perform(e) \/ Succeeds(e) \/ Proceeds(e) \/ Conflicts(e)
                                       \/ Breaks(e) \/ Load(e) \/ Loaded(e) \/ Serve(e) \/ Lose(e)
      PROVE  Behind(d)'
  <2>1. view'[d] = view[d] /\ loading'[d] = loading[d]
    BY <1>2 DEF Perform, Succeeds, Proceeds, Conflicts, Breaks, Load, Loaded, Serve, Lose,
                DropLoad, CatchUpInv, CatchUpTypeOK
  <2>2. call'[d] = call[d]
    BY <1>2, OthersCalls DEF Load, Loaded, CatchUpInv
  <2> QED BY <1>d, <2>1, <2>2
<1>3. CASE OtherDevice
  BY <1>3, <1>d DEF OtherDevice
<1>4. CASE Perform(d)
  <2>1. view' = view /\ loading'[d] = NoLoad
    BY <1>4 DEF Perform, DropLoad, CatchUpInv, CatchUpTypeOK
  <2>2. call'[d].state # "ok"
    BY <1>4, CallsMove DEF Perform, Begins, CatchUpInv
  <2> QED BY <1>e, <2>1, <2>2
<1>5. CASE Succeeds(d) \/ Proceeds(d)
  <2>1. view'[d] = call[d].answer /\ call[d].state = "ok" /\ loading' = loading
    BY <1>5 DEF Succeeds, Proceeds, CatchUpInv, CatchUpTypeOK
  <2>2. call'[d].state # "ok"
    <3>1. CASE Succeeds(d)
      BY <3>1, CallsMove DEF Succeeds, Finished, CatchUpInv
    <3>2. CASE Proceeds(d)
      <4> DEFINE new == [NoCall EXCEPT !.state = "asked", !.id = call[d].answer.id,
                                       !.rev = call[d].answer.rev, !.kind = Change(d).kind]
      <4>1. call' = [call EXCEPT ![d] = new]
        BY <3>2 DEF Proceeds
      <4>2. new.state = "asked"
        BY CallsMove DEF CatchUpInv
      <4> HIDE DEF new
      <4> QED BY <4>1, <4>2, CallsMove DEF CatchUpInv
    <3> QED BY <1>5, <3>1, <3>2
  <2> QED BY <1>a, <1>b, <2>1, <2>2 DEF Behind
<1>6. CASE Conflicts(d)
  <2>1. view'[d] \in {view[d], server} /\ call[d].state = "conflict" /\ loading' = loading
    BY <1>6 DEF Conflicts, CatchUpInv, CatchUpTypeOK
  <2>2. call'[d].state # "ok"
    BY <1>6 DEF Conflicts, Finished, NoCall, CatchUpInv, CatchUpTypeOK
  <2> QED BY <1>a, <1>b, <1>c, <2>1, <2>2 DEF Behind
<1>7. CASE Breaks(d)
  <2>1. view' = view /\ call[d].state = "failed" /\ loading' = loading
    BY <1>7 DEF Breaks
  <2>2. call'[d].state # "ok"
    BY <1>7 DEF Breaks, Finished, NoCall, CatchUpInv, CatchUpTypeOK
  <2> QED BY <1>f, <2>1, <2>2
<1>8. CASE Load(d)
  <2>1. view' = view /\ call' = call /\ loading'[d] = server /\ call[d].state = "none"
    BY <1>8 DEF Load, CatchUpInv, CatchUpTypeOK, CallInPlace
  <2> QED BY <1>a, <1>b, <1>c, <2>1, CopiesTransitive DEF Behind
<1>9. CASE Loaded(d)
  <2>1. view'[d] = loading[d] /\ call' = call /\ loading'[d] = NoLoad /\ loading[d] # NoLoad
    BY <1>9 DEF Loaded, CatchUpInv, CatchUpTypeOK
  <2> QED BY <1>a, <1>b, <2>1 DEF Behind
<1>10. CASE Serve(d)
  <2>1. view' = view /\ loading' = loading /\ call[d].state = "asked"
    BY <1>10 DEF Serve
  <2>2. call'[d].state = "ok" => call'[d].answer = server'
    BY <1>10, AnswerCurrent
  <2>3. CopyOf(view[d], server')
    BY <1>a, <1>b DEF Behind
  <2>4. Older(view[d], server')
    BY <1>b, <1>c, <2>3, CopiesTransitive
  <2> QED BY <1>b, <1>c, <2>1, <2>2, <2>3, <2>4 DEF Behind
<1>11. CASE Lose(d)
  <2>1. view' = view /\ loading' = loading /\ call[d].state \in {"asked", "ok"}
    BY <1>11 DEF Lose
  <2>2. call'[d].state = "failed"
    BY <1>11 DEF Lose, CatchUpInv, CatchUpTypeOK, Calls
  <2> QED BY <1>f, <2>1, <2>2
<1>12. CASE UNCHANGED catchUpVars
  BY <1>12, <1>d DEF catchUpVars
<1> QED
  BY <1>1, <1>2, <1>3, <1>4, <1>5, <1>6, <1>7, <1>8, <1>9, <1>10, <1>11, <1>12 DEF CatchUpNext
-----------------------------------------------------------------------------
(* Changes and the request under way.                                      *)

LEMMA Queues ==
  ASSUME NEW p \in Seq(Changes), NEW c \in Changes
  PROVE  /\ Append(p, c) # <<>> /\ Len(Append(p, c)) = Len(p) + 1
         /\ \A i \in 1..Len(p) + 1 : Append(p, c)[i] = IF i = Len(p) + 1 THEN c ELSE p[i]
         /\ p # <<>> => /\ Head(Append(p, c)) = Head(p) /\ Head(p) = p[1] /\ 1 \in 1..Len(p)
                        /\ Len(Tail(p)) = Len(p) - 1
                        /\ \A i \in 1..Len(p) - 1 : Tail(p)[i] = p[i + 1]
<1>1. Append(p, c) # <<>> /\ Len(Append(p, c)) = Len(p) + 1
  BY AppendProperties
<1>2. \A i \in 1..Len(p) + 1 : Append(p, c)[i] = IF i = Len(p) + 1 THEN c ELSE p[i]
  OBVIOUS
<1>3. ASSUME p # <<>> PROVE Head(p) = p[1] /\ 1 \in 1..Len(p) /\ Len(Tail(p)) = Len(p) - 1
  BY <1>3
<1>4. ASSUME p # <<>> PROVE Head(Append(p, c)) = Head(p)
  BY <1>3, <1>4, <1>1, <1>2
<1>5. ASSUME p # <<>>, NEW i \in 1..Len(p) - 1 PROVE Tail(p)[i] = p[i + 1]
  BY <1>5
<1> QED BY <1>1, <1>2, <1>3, <1>4, <1>5

\* A step of reader and readers that shows another reader, or changes its target.
Reading(d) ==
  /\ readers'[d] \in Nat /\ readers'[d] >= readers[d]
  /\ reader'[d].req \in Nat /\ reader'[d].req <= readers'[d]
  /\ \/ /\ reader'[d].req = reader[d].req /\ reader'[d].id = reader[d].id
        /\ reader'[d].group = reader[d].group
     \/ reader'[d].req = 0 \/ reader'[d].req > readers[d]

LEMMA ResumeReading ==
  ASSUME CatchUpTypeOK, CatchUpTypeOK', ChangesClicked, NEW d \in Screens, NEW s, Resume(d, s)
  PROVE  \A e \in Screens : Reading(e)
<1> SUFFICES ASSUME NEW e \in Screens PROVE Reading(e)
  OBVIOUS
<1>0. /\ readers[e] \in Nat /\ readers'[e] \in Nat /\ reader[e].req \in Nat
      /\ reader'[e].req \in Nat /\ reader[e].req <= readers[e]
  BY DEF CatchUpTypeOK, ChangesClicked
<1>1. CASE Complete(s)
  <2>1. reader' = [reader EXCEPT ![d] = NoReader] /\ readers' = readers /\ NoReader.req = 0
    BY <1>1 DEF Resume, Shown, NoReader
  <2>2. readers'[e] = readers[e] /\ (reader'[e] = reader[e] \/ reader'[e].req = 0)
    BY <2>1 DEF CatchUpTypeOK
  <2> QED BY <1>0, <2>2 DEF Reading
<1>2. CASE ~Complete(s)
  <2>1. readers' = [readers EXCEPT ![d] = @ + 1]
    BY <1>2 DEF Resume
  <2>2. e # d => reader'[e] = reader[e]
    BY <1>2 DEF Resume, Shown, CatchUpTypeOK
  <2>3. reader'[d].req = readers[d] + 1
    <3> DEFINE new == [req |-> readers[d] + 1, id |-> s.id, group |-> Current(s),
                       target |-> IF s.anchor = "none" THEN "first" ELSE s.anchor]
    <3>1. reader' = [reader EXCEPT ![d] = new]
      BY <1>2 DEF Resume, Shown
    <3>2. new.req = readers[d] + 1
      OBVIOUS
    <3> HIDE DEF new
    <3> QED BY <3>1, <3>2 DEF CatchUpTypeOK
  <2>4. readers'[e] = IF e = d THEN readers[d] + 1 ELSE readers[e]
    BY <2>1 DEF CatchUpTypeOK
  <2> QED BY <1>0, <2>2, <2>3, <2>4 DEF Reading
<1> QED BY <1>1, <1>2

LEMMA ReadingStep ==
  ASSUME CatchUpInv, CatchUpTypeOK', [CatchUpNext]_catchUpVars
  PROVE  \A e \in Screens : Reading(e)
<1> USE DEF CatchUpInv
<1>1. CASE reader' = reader /\ readers' = readers
  BY SMTT(20), <1>1 DEF Reading, CatchUpTypeOK, ChangesClicked
<1>2. ASSUME NEW d \in Screens, StageAnchor(d) PROVE \A e \in Screens : Reading(e)
  BY <1>2 DEF StageAnchor, Reading, CatchUpTypeOK, ChangesClicked
<1>3. ASSUME NEW d \in Screens, Succeeds(d) \/ Reopen(d) PROVE \A e \in Screens : Reading(e)
  BY <1>3, ResumeReading DEF Succeeds, Reopen
<1>4. \/ reader' = reader /\ readers' = readers
      \/ \E d \in Screens : StageAnchor(d) \/ Succeeds(d) \/ Reopen(d)
  BY DEF catchUpVars, CatchUpNext, OtherDevice, Click, Perform, Proceeds, Conflicts,
         Breaks, Retry, Load, Loaded, Lose, Serve
<1> QED BY <1>1, <1>2, <1>3, <1>4

\* What a step does to the changes of a device.
Queueing(d) ==
  /\ \/ pending'[d] = pending[d]
     \/ pending[d] # <<>> /\ pending'[d] = Tail(pending[d])
     \/ \E c \in Changes : /\ pending'[d] = Append(pending[d], c)
                           /\ c.kind # "none" /\ Clicked(d, c)
  /\ \/ kept'[d] = kept[d] \/ kept'[d] = NoChange
     \/ pending[d] # <<>> /\ kept'[d] = Head(pending[d])

LEMMA QueueingStep ==
  ASSUME CatchUpInv, [CatchUpNext]_catchUpVars, NEW d \in Screens
  PROVE  Queueing(d)
<1> USE DEF CatchUpInv
<1>1. CASE pending' = pending /\ kept' = kept
  BY <1>1 DEF Queueing
<1>2. ASSUME NEW e \in Screens, NEW kind \in Moves \cup Starts, Click(e, kind) PROVE Queueing(d)
  <2> DEFINE c == [kind |-> kind, req |-> reader[e].req]
  <2>1. c \in Changes
    BY DEF Changes, CatchUpTypeOK
  <2>2. c.kind # "none" /\ Clicked(e, c)
    <3>1. kind \in Moves => reader[e].req > 0
      BY <1>2 DEF Click, Moves, Starts
    <3> QED BY <3>1, ValuesTyped DEF Clicked, ChangesClicked, CatchUpTypeOK
  <2>3. pending' = [pending EXCEPT ![e] = Append(@, c)] /\ kept' = kept
    BY <1>2 DEF Click
  <2> HIDE DEF c
  <2> QED BY <2>1, <2>2, <2>3 DEF Queueing, CatchUpTypeOK
<1>3. ASSUME NEW e \in Screens, Perform(e) PROVE Queueing(d)
  BY <1>3 DEF Perform, Begins, Queueing, CatchUpTypeOK
<1>4. ASSUME NEW e \in Screens, Succeeds(e) \/ Conflicts(e) PROVE Queueing(d)
  BY SMTT(20), <1>4 DEF Succeeds, Conflicts, Finished, Queueing, CatchUpTypeOK, CallInPlace
<1>5. ASSUME NEW e \in Screens, Breaks(e) PROVE Queueing(d)
  BY <1>5 DEF Breaks, Finished, Change, Queueing, CatchUpTypeOK, CallInPlace
<1>6. ASSUME NEW e \in Screens, Retry(e) PROVE Queueing(d)
  BY <1>6 DEF Retry, Queueing, CatchUpTypeOK, ChangesClicked
<1>7. \/ pending' = pending /\ kept' = kept
      \/ \E e \in Screens : \/ \E kind \in Moves \cup Starts : Click(e, kind)
                            \/ Perform(e) \/ Succeeds(e) \/ Conflicts(e) \/ Breaks(e) \/ Retry(e)
  BY DEF catchUpVars, CatchUpNext, OtherDevice, StageAnchor, Proceeds, Reopen, Load, Loaded,
         Lose, Serve
<1> QED BY <1>1, <1>2, <1>3, <1>4, <1>5, <1>6, <1>7

LEMMA ClickedKept ==
  CatchUpInv /\ CatchUpTypeOK' /\ [CatchUpNext]_catchUpVars => ChangesClicked'
<1> SUFFICES ASSUME CatchUpInv, CatchUpTypeOK', [CatchUpNext]_catchUpVars, NEW d \in Screens
    PROVE  /\ reader'[d].req <= readers'[d] /\ Clicked(d, kept[d])'
           /\ \A i \in 1..Len(pending'[d]) : /\ pending'[d][i].kind # "none"
                                             /\ Clicked(d, pending[d][i])'
  BY DEF ChangesClicked
<1>1. Reading(d) /\ Queueing(d)
  BY ReadingStep, QueueingStep
<1>2. \A c : Clicked(d, c) /\ c.kind \in Moves => c.req \in 1..readers'[d]
  BY SMTT(20), <1>1 DEF Clicked, Reading, CatchUpInv, CatchUpTypeOK
<1>3. pending[d] \in Seq(Changes)
  BY DEF CatchUpInv, CatchUpTypeOK
<1>4. /\ Clicked(d, kept[d])
      /\ \A i \in 1..Len(pending[d]) : pending[d][i].kind # "none" /\ Clicked(d, pending[d][i])
  BY DEF CatchUpInv, ChangesClicked
<1>5. Clicked(d, NoChange)
  BY ValuesTyped DEF Clicked, NoChange
<1>6. Clicked(d, kept[d])'
  <2>1. pending[d] # <<>> => Clicked(d, Head(pending[d]))
    BY <1>3, <1>4
  <2>2. kept'[d].kind \in Moves => kept'[d].req \in 1..readers'[d]
    BY <1>1, <1>2, <1>4, <1>5, <2>1 DEF Queueing
  <2> QED BY <2>2 DEF Clicked
<1>7. ASSUME NEW i \in 1..Len(pending'[d])
      PROVE  pending'[d][i].kind # "none" /\ Clicked(d, pending[d][i])'
  <2>1. \E c : pending'[d][i] = c /\ c.kind # "none" /\ Clicked(d, c)
    <3>1. CASE pending'[d] = pending[d]
      BY <1>4, <3>1
    <3>2. CASE pending[d] # <<>> /\ pending'[d] = Tail(pending[d])
      <4>1. i + 1 \in 1..Len(pending[d]) /\ pending'[d][i] = pending[d][i + 1]
        BY <1>3, <3>2
      <4> QED BY <1>4, <4>1
    <3>3. ASSUME NEW c \in Changes, pending'[d] = Append(pending[d], c), c.kind # "none", Clicked(d, c)
          PROVE  \E x : pending'[d][i] = x /\ x.kind # "none" /\ Clicked(d, x)
      <4>1. pending'[d][i] = c \/ (i \in 1..Len(pending[d]) /\ pending'[d][i] = pending[d][i])
        BY <1>3, <3>3
      <4> QED BY <1>4, <3>3, <4>1
    <3> QED BY <1>1, <3>1, <3>2, <3>3 DEF Queueing
  <2>2. pending'[d][i].kind \in Moves => pending'[d][i].req \in 1..readers'[d]
    BY <1>2, <2>1
  <2> QED BY <2>1, <2>2 DEF Clicked
<1> QED BY <1>1, <1>6, <1>7 DEF Reading
-----------------------------------------------------------------------------
(* A request is made for the conversation on show.                         *)

CallFits(d) ==
  /\ call[d].state # "none" => pending[d] # <<>>
  /\ call[d].state \in {"asked", "ok"} =>
       /\ \/ call[d].kind = Change(d).kind
          \/ call[d].kind = "anchor" /\ Change(d).kind = "decide"
       /\ Change(d).kind \in Moves => SameReader(d) /\ ShownIn(d, view[d])
  /\ call[d].state = "asked" /\ Change(d).kind \in Moves =>
       call[d].id = view[d].id /\ call[d].rev = view[d].rev
  /\ call[d].state = "ok" /\ call[d].kind = "anchor" => ShownIn(d, call[d].answer)

\* A request made for the session as it is, is made for the conversation on show.
LEMMA MadeForCurrent ==
  ASSUME CatchUpInv, NEW d \in Screens, call[d].state = "asked",
         call[d].kind \in Moves \cup {"anchor"}, UpToDate(d)
  PROVE  /\ Change(d).kind \in Moves /\ SameReader(d) /\ pending[d] # <<>>
         /\ view[d] = server /\ ShownIn(d, server)
         /\ call[d].kind # "anchor" => call[d].kind = Change(d).kind
<1>1. CallFits(d)
  BY DEF CatchUpInv, CallInPlace, CallFits
<1>2. Change(d).kind \in Moves
  <2>1. pending[d] \in Seq(Changes) /\ pending[d] # <<>>
    BY <1>1 DEF CallFits, CatchUpInv, CatchUpTypeOK
  <2>2. Change(d) \in Changes
    BY <2>1 DEF Change
  <2>3. Change(d).kind # "anchor"
    BY <2>2 DEF Changes, Moves, Starts
  <2> QED BY <1>1, <2>3 DEF CallFits, Moves
<1>3. view[d].id = server.id /\ view[d].rev = server.rev
  BY <1>1, <1>2 DEF CallFits, UpToDate
<1>4. view[d] = server
  BY <1>3, CopiesTransitive DEF CatchUpInv, CatchUpTypeOK, CopiesBehind
<1> QED BY <1>1, <1>2, <1>4 DEF CallFits

LEMMA FitsAsBefore ==
  ASSUME CatchUpTypeOK, NEW d \in Screens, CallFits(d), call'[d] = call[d], view'[d] = view[d],
         \/ pending'[d] = pending[d] \/ \E c \in Changes : pending'[d] = Append(pending[d], c),
         reader'[d].req = reader[d].req, reader'[d].id = reader[d].id,
         reader'[d].group = reader[d].group
  PROVE  CallFits(d)'
<1>1. pending[d] # <<>> => pending'[d] # <<>> /\ Head(pending'[d]) = Head(pending[d])
  BY Queues DEF CatchUpTypeOK
<1>2. call[d].state # "none" => pending'[d] # <<>> /\ Change(d)' = Change(d)
  BY <1>1 DEF CallFits, Change
<1>3. \A s : ShownIn(d, s) => s.id = reader'[d].id /\ ~Complete(s) /\ Current(s) = reader'[d].group
  BY DEF ShownIn
<1> QED BY <1>2, <1>3 DEF CallFits, SameReader, ShownIn, Complete, Current

\* The steps of the device and its server on the request.
LEMMA PerformFits ==
  ASSUME CatchUpInv, CatchUpTypeOK', NEW d \in Screens, Perform(d)
  PROVE  CallFits(d)'
<1>0. /\ pending[d] # <<>> /\ call[d].state = "none" /\ view' = view /\ reader' = reader
      /\ pending[d] \in Seq(Changes)
  BY DEF Perform, Begins, CatchUpInv, CatchUpTypeOK
<1>1. CASE SameReader(d) /\ (Change(d).kind \in Starts \/ InPlace(d))
  <2>1. call' = [call EXCEPT ![d] = Request(d)] /\ pending' = pending
    BY <1>1 DEF Perform
  <2>2. call'[d] = Request(d)
    BY <2>1, CallsMove DEF CatchUpInv
  <2>3. /\ Request(d).state = "asked" /\ Request(d).id = view[d].id
        /\ Request(d).rev = view[d].rev
        /\ \/ Request(d).kind = Change(d).kind
           \/ Request(d).kind = "anchor" /\ Change(d).kind = "decide"
    BY DEF Request, NoCall
  <2>4. Change(d)' = Change(d) /\ SameReader(d)'
    BY <1>0, <1>1, <2>1 DEF Change, SameReader
  <2>5. Change(d).kind \in Moves => ShownIn(d, view[d])
    BY <1>1, ValuesTyped DEF InPlace, ShownIn
  <2>6. Change(d).kind \in Moves => ShownIn(d, view[d])'
    BY <1>0, <2>5 DEF ShownIn, Complete, Current
  <2> QED BY <1>0, <2>1, <2>2, <2>3, <2>4, <2>6 DEF CallFits
<1>2. CASE ~(SameReader(d) /\ (Change(d).kind \in Starts \/ InPlace(d)))
  <2>1. \/ call' = [call EXCEPT ![d] = [NoCall EXCEPT !.state = "conflict"]] /\ pending' = pending
        \/ call' = call
    BY <1>2 DEF Perform
  <2>2. \/ call'[d].state = "conflict" /\ pending'[d] # <<>>
        \/ call'[d].state = "none"
    BY <1>0, <2>1, CallsMove DEF CatchUpInv
  <2> QED BY <2>2 DEF CallFits
<1> QED BY <1>1, <1>2

LEMMA ProceedsFits ==
  ASSUME CatchUpInv, CatchUpTypeOK', NEW d \in Screens, Proceeds(d)
  PROVE  CallFits(d)'
<1> DEFINE s == call[d].answer
           new == [NoCall EXCEPT !.state = "asked", !.id = s.id, !.rev = s.rev,
                                 !.kind = Change(d).kind]
<1>1. /\ call[d].state = "ok" /\ call[d].kind # Change(d).kind
      /\ view'[d] = s /\ reader' = reader /\ pending' = pending
      /\ call' = [call EXCEPT ![d] = new]
  BY DEF Proceeds, CatchUpInv, CatchUpTypeOK
<1>2. /\ new.state = "asked" /\ new.id = s.id /\ new.rev = s.rev /\ new.kind = Change(d).kind
  BY DEF NoCall
<1> HIDE DEF new
<1>3. call'[d] = new
  BY <1>1, CallsMove DEF CatchUpInv
<1>4. CallFits(d)
  BY DEF CatchUpInv, CallInPlace, CallFits
<1>5. call[d].kind = "anchor" /\ Change(d).kind = "decide" /\ pending[d] # <<>>
      /\ SameReader(d) /\ ShownIn(d, s)
  BY <1>1, <1>4 DEF CallFits, Moves
<1>6. Change(d)' = Change(d) /\ SameReader(d)' /\ ShownIn(d, view[d])'
  BY <1>1, <1>5 DEF Change, SameReader, ShownIn, Complete, Current
<1> QED BY <1>1, <1>2, <1>3, <1>5, <1>6 DEF CallFits

LEMMA ServeFits ==
  ASSUME CatchUpInv, CatchUpTypeOK', NEW d \in Screens, Serve(d)
  PROVE  CallFits(d)'
<1>0. /\ call[d].state = "asked" /\ view' = view /\ reader' = reader /\ pending' = pending
      /\ CallFits(d)
  BY DEF Serve, CatchUpInv, CallInPlace, CallFits
<1>1. Change(d)' = Change(d) /\ pending'[d] # <<>>
  BY <1>0 DEF Change, CallFits
<1>2. Change(d).kind \in Moves => SameReader(d)' /\ ShownIn(d, view[d])'
  BY <1>0, <1>1 DEF CallFits, SameReader, ShownIn, Complete, Current
<1>3. call'[d].kind = call[d].kind /\ call'[d].state \in {"ok", "failed", "conflict"}
  BY <1>0 DEF Serve, StartSession, MutateSession, Answered, CatchUpInv, CatchUpTypeOK, Calls
<1>4. ASSUME call'[d].state = "ok", call[d].kind = "anchor" PROVE ShownIn(d, call[d].answer)'
  <2>1. MutateSession(d) /\ ~StartSession(d)
    BY <1>4, ValuesTyped DEF Serve, StartSession
  <2>2. UpToDate(d) /\ server' = [server EXCEPT !.anchor = call[d].target, !.rev = @ + 1]
    <3>1. CASE ~UpToDate(d) \/ Complete(server)
      <4>1. \/ UpToDate(d) /\ ~Complete(server)
            \/ call' = [call EXCEPT ![d].state = IF server.id # call[d].id THEN "failed"
                                                 ELSE "conflict"]
        BY <2>1 DEF MutateSession
      <4>2. call'[d].state \in {"failed", "conflict"}
        <5>1. \E x \in {"failed", "conflict"} : call' = [call EXCEPT ![d].state = x]
          BY <3>1, <4>1
        <5> QED BY <5>1 DEF CatchUpInv, CatchUpTypeOK, Calls
      <4> QED BY <1>4, <4>2
    <3> QED BY <1>4, <2>1, <3>1 DEF MutateSession
  <2>3. ShownIn(d, server)
    BY <1>0, <1>4, <2>2, MadeForCurrent
  <2>4. server'.id = server.id /\ server'.list = server.list /\ server'.index = server.index
    BY <2>2 DEF CatchUpInv, CatchUpTypeOK, Session
  <2>5. call'[d].answer = server'
    BY <1>4, AnswerCurrent
  <2> QED BY <1>0, <2>3, <2>4, <2>5 DEF ShownIn, Complete, Current
<1> QED BY <1>0, <1>1, <1>2, <1>3, <1>4 DEF CallFits

LEMMA CallsFit ==
  CatchUpInv /\ CatchUpTypeOK' /\ [CatchUpNext]_catchUpVars => CallInPlace'
<1> SUFFICES ASSUME CatchUpInv, CatchUpTypeOK', [CatchUpNext]_catchUpVars, NEW d \in Screens
    PROVE  CallFits(d)'
  BY DEF CallInPlace, CallFits
<1>a. CatchUpTypeOK /\ CallFits(d)
  BY DEF CatchUpInv, CallInPlace, CallFits
<1>b. CASE call'[d].state = "none"
  BY <1>b DEF CallFits
<1>0. CASE UNCHANGED catchUpVars \/ OtherDevice
  BY <1>a, <1>0, FitsAsBefore DEF catchUpVars, OtherDevice
<1>1. ASSUME NEW e \in Screens, NEW kind \in Moves \cup Starts, Click(e, kind) PROVE CallFits(d)'
  <2>1. [kind |-> kind, req |-> reader[e].req] \in Changes
    BY <1>a DEF Changes, CatchUpTypeOK
  <2>2. pending'[d] = pending[d] \/ \E c \in Changes : pending'[d] = Append(pending[d], c)
    BY <1>a, <1>1, <2>1 DEF Click, CatchUpTypeOK
  <2> QED BY <1>a, <1>1, <2>2, FitsAsBefore DEF Click
<1>2. ASSUME NEW e \in Screens, StageAnchor(e) PROVE CallFits(d)'
  <2>1. reader'[d].req = reader[d].req /\ reader'[d].id = reader[d].id
        /\ reader'[d].group = reader[d].group
    BY <1>a, <1>2 DEF StageAnchor, CatchUpTypeOK
  <2> QED BY <1>a, <1>2, <2>1, FitsAsBefore DEF StageAnchor
<1>3. ASSUME NEW e \in Screens, Retry(e) PROVE CallFits(d)'
  <2>1. pending'[d] = pending[d] \/ \E c \in Changes : pending'[d] = Append(pending[d], c)
    BY <1>a, <1>3 DEF Retry, CatchUpTypeOK
  <2> QED BY <1>a, <1>3, <2>1, FitsAsBefore DEF Retry
<1>4. ASSUME NEW e \in Screens, e # d, \/ Perform(e) \/ Succeeds(e) \/ Proceeds(e) \/ Conflicts(e)
                                       \/ Breaks(e) \/ Serve(e) \/ Lose(e)
      PROVE  CallFits(d)'
  <2>1. call'[d] = call[d]
    BY <1>a, <1>4, OthersCalls
  <2>2. view'[d] = view[d]
    BY <1>a, <1>4 DEF Perform, Succeeds, Proceeds, Conflicts, Breaks, Serve, Lose, CatchUpTypeOK
  <2>3. pending'[d] = pending[d]
    BY <1>a, <1>4 DEF Perform, Succeeds, Proceeds, Conflicts, Breaks, Serve, Lose, Finished, CatchUpTypeOK
  <2>4. reader'[d] = reader[d]
    BY <1>a, <1>4 DEF Perform, Succeeds, Proceeds, Conflicts, Breaks, Serve, Lose, Resume, Shown,
                      CatchUpTypeOK
  <2> QED BY <1>a, <2>1, <2>2, <2>3, <2>4, FitsAsBefore
<1>5. CASE Succeeds(d) \/ Conflicts(d) \/ Breaks(d)
  <2>1. call'[d].state = "none"
    BY <1>a, <1>5, CallsMove DEF Succeeds, Conflicts, Breaks, Finished
  <2> QED BY <2>1, <1>b
<1>6. CASE Lose(d)
  <2>1. call'[d].state = "failed" /\ pending' = pending /\ call[d].state # "none"
    BY <1>a, <1>6 DEF Lose, CatchUpTypeOK, Calls
  <2> QED BY <1>a, <2>1 DEF CallFits
<1>7. ASSUME NEW e \in Screens, Reopen(e) PROVE CallFits(d)'
  <2>1. CASE e = d
    <3>1. call'[d].state = "none"
      BY <1>a, <1>7, <2>1 DEF Reopen, CallFits
    <3> QED BY <3>1, <1>b
  <2>2. CASE e # d
    BY <1>a, <1>7, <2>2, FitsAsBefore DEF Reopen, Resume, Shown, CatchUpTypeOK
  <2> QED BY <2>1, <2>2
<1>8. ASSUME NEW e \in Screens, Load(e) PROVE CallFits(d)'
  BY <1>a, <1>8, FitsAsBefore DEF Load
<1>9. ASSUME NEW e \in Screens, Loaded(e) PROVE CallFits(d)'
  <2>1. CASE e = d
    <3>1. call'[d].state = "none"
      BY <1>9, <2>1 DEF Loaded, CatchUpInv, CopiesBehind
    <3> QED BY <3>1, <1>b
  <2>2. CASE e # d
    BY <1>a, <1>9, <2>2, FitsAsBefore DEF Loaded, CatchUpTypeOK
  <2> QED BY <2>1, <2>2
<1> QED
  BY <1>0, <1>1, <1>2, <1>3, <1>4, <1>5, <1>6, <1>7, <1>8, <1>9, PerformFits, ProceedsFits, ServeFits
  DEF CatchUpNext
-----------------------------------------------------------------------------
(* The recorded moves.                                                     *)

Onward ==
  \/ server'.id > server.id
  \/ server'.id = server.id /\ server'.list = server.list /\ server'.index >= server.index

Records ==
  [screen : Screens \cup {Other}, req : Nat, id : Nat, index : Nat,
   kind : Moves, group : Groups, seen : Groups \cup {0}]

LEMMA SessionOnward ==
  ASSUME CatchUpInv, [CatchUpNext]_catchUpVars
  PROVE  Onward /\ others' \in Nat /\ others' >= others
<1> USE DEF CatchUpInv
<1>1. server \in Session /\ server.id = started /\ started \in Nat /\ others \in Nat
  BY DEF CopiesBehind, CatchUpTypeOK
<1>2. /\ Advanced.id = server.id /\ Advanced.list = server.list /\ Advanced.index = server.index + 1
      /\ \A t : LET s == [server EXCEPT !.anchor = t, !.rev = @ + 1]
                IN  s.id = server.id /\ s.list = server.list /\ s.index = server.index
  BY <1>1 DEF Advanced, Session
<1>3. \A l \in Lists : NewSession(started + 1, l).id = started + 1
  BY DEF NewSession
<1>4. \/ server' = server \/ server' = Advanced
      \/ \E t : server' = [server EXCEPT !.anchor = t, !.rev = @ + 1]
      \/ \E l \in Lists : server' = NewSession(started + 1, l)
  <2>1. CASE OtherDevice
    BY <2>1 DEF OtherDevice
  <2>2. ASSUME NEW d \in Screens, Serve(d)
        PROVE  \/ server' = server \/ server' = Advanced
               \/ \E t : server' = [server EXCEPT !.anchor = t, !.rev = @ + 1]
               \/ \E l \in Lists : server' = NewSession(started + 1, l)
    BY <2>2 DEF Serve, StartSession, MutateSession
  <2>3. server' = server \/ OtherDevice \/ \E d \in Screens : Serve(d)
    BY DEF catchUpVars, CatchUpNext, Click, StageAnchor, Perform, Succeeds, Proceeds, Conflicts,
           Breaks, Retry, Reopen, Load, Loaded, Lose
  <2> QED BY <2>1, <2>2, <2>3
<1>5. Onward
  <2>0. server.index \in Nat
    BY <1>1 DEF Session
  <2>1. CASE server' = server \/ server' = Advanced
    BY <1>2, <2>0, <2>1 DEF Onward
  <2>2. ASSUME NEW t, server' = [server EXCEPT !.anchor = t, !.rev = @ + 1] PROVE Onward
    <3>1. server'.id = server.id /\ server'.list = server.list /\ server'.index = server.index
      BY <1>2, <2>2
    <3> QED BY <2>0, <3>1 DEF Onward
  <2>3. ASSUME NEW l \in Lists, server' = NewSession(started + 1, l) PROVE Onward
    <3>1. server'.id = started + 1
      BY <1>3, <2>3
    <3> QED BY <1>1, <3>1 DEF Onward
  <2> QED BY <1>4, <2>1, <2>2, <2>3
<1>6. others' = others \/ others' = others + 1
  BY DEF catchUpVars, CatchUpNext, OtherDevice, Click, StageAnchor, Perform, Succeeds, Proceeds,
         Conflicts, Breaks, Retry, Reopen, Load, Loaded, Lose, Serve
<1> QED BY <1>1, <1>5, <1>6

LEMMA RecordedKept ==
  ASSUME CatchUpInv, CatchUpTypeOK', [CatchUpNext]_catchUpVars, NEW a \in acts
  PROVE  Recorded(a)'
<1>1. a \in Records /\ Recorded(a)
  BY DEF CatchUpInv, ActsRecorded, Records
<1>2. Onward /\ others' \in Nat /\ others' >= others /\ others \in Nat
  BY SessionOnward DEF CatchUpInv, CatchUpTypeOK
<1>3. /\ server.id \in Nat /\ server'.id \in Nat /\ server.index \in Nat /\ server'.index \in Nat
      /\ a.id \in Nat /\ a.index \in Nat /\ a.req \in Nat
  BY <1>1 DEF CatchUpInv, CatchUpTypeOK, Session, Records
<1>4. /\ a.id <= server'.id
      /\ a.id = server'.id => /\ a.index \in 1..Len(server'.list) /\ a.index < server'.index
                              /\ server'.list[a.index] = a.group
  BY SMTT(20), <1>1, <1>2, <1>3 DEF Recorded, Onward
<1>5. CASE a.screen = Other /\ a.req <= others
  BY <1>2, <1>3, <1>4, <1>5 DEF Recorded
<1>6. CASE ~(a.screen = Other /\ a.req <= others)
  <2>1. /\ a.screen \in Screens /\ a.req \in 1..readers[a.screen]
        /\ a.req = reader[a.screen].req =>
             a.id = reader[a.screen].id /\ a.group = reader[a.screen].group
    BY <1>1, <1>6 DEF Recorded
  <2>2. Reading(a.screen) /\ readers[a.screen] \in Nat
    BY <2>1, ReadingStep DEF CatchUpInv, CatchUpTypeOK
  <2>3. /\ a.req \in 1..readers'[a.screen]
        /\ a.req = reader'[a.screen].req =>
             a.id = reader'[a.screen].id /\ a.group = reader'[a.screen].group
    BY <1>3, <2>1, <2>2 DEF Reading
  <2> QED BY <1>4, <2>1, <2>3 DEF Recorded
<1> QED BY <1>5, <1>6

\* A move that a request makes.
LEMMA MoveRecorded ==
  ASSUME CatchUpInv, CatchUpTypeOK', NEW d \in Screens, Serve(d), acts' # acts
  PROVE  \E a \in Records :
           /\ acts' = acts \cup {a} /\ Recorded(a)' /\ a.group = a.seen
           /\ \A b \in acts : /\ <<a.screen, a.req>> # <<b.screen, b.req>>
                              /\ <<a.id, a.index>> # <<b.id, b.index>>
<1> USE DEF CatchUpInv
<1>1. /\ call[d].state = "asked" /\ MutateSession(d) /\ reader' = reader /\ readers' = readers
  BY DEF Serve, StartSession
<1>2. /\ call[d].kind \in Moves /\ UpToDate(d) /\ ~Complete(server) /\ server' = Advanced
      /\ acts' = acts \cup {[screen |-> d, req |-> Change(d).req, id |-> server.id,
                             index |-> server.index, kind |-> call[d].kind,
                             group |-> Current(server), seen |-> reader[d].group]}
  BY <1>1, ValuesTyped DEF MutateSession
<1>3. /\ Change(d).kind \in Moves /\ SameReader(d) /\ pending[d] # <<>> /\ ShownIn(d, server)
  BY <1>1, <1>2, MadeForCurrent
<1>4. Change(d).req \in 1..readers[d]
  <2>1. pending[d] \in Seq(Changes) /\ pending[d] # <<>>
    BY <1>3 DEF CatchUpTypeOK
  <2>2. 1 \in 1..Len(pending[d]) /\ Change(d) = pending[d][1]
    BY <2>1 DEF Change
  <2> QED BY <1>3, <2>2 DEF ChangesClicked, Clicked
<1>5. /\ server \in Session /\ server.index \in 1..Len(server.list) /\ Current(server) \in Groups
      /\ server.list \in Seq(Groups) /\ server.list \in Lists
  BY <1>2, CurrentTyped DEF CatchUpTypeOK
<1> PICK a : a = [screen |-> d, req |-> Change(d).req, id |-> server.id,
                  index |-> server.index, kind |-> call[d].kind,
                  group |-> Current(server), seen |-> reader[d].group]
  OBVIOUS
<1>6. a \in Records
  <2>1. reader[d].group \in Groups \cup {0}
    BY DEF CatchUpTypeOK
  <2>2. Change(d).req \in Nat
    <3>1. readers[d] \in Nat
      BY DEF CatchUpTypeOK
    <3> QED BY <1>4, <3>1
  <2>3. server.id \in Nat /\ server.index \in Nat
    BY <1>5 DEF Session
  <2> QED BY <1>2, <1>5, <2>1, <2>2, <2>3 DEF Records
<1>7. /\ a.screen = d /\ a.req = Change(d).req /\ a.id = server.id /\ a.index = server.index
      /\ a.group = Current(server) /\ a.seen = reader[d].group
  OBVIOUS
<1>8. /\ a.req = reader[d].req /\ a.id = reader[d].id /\ a.group = reader[d].group
      /\ a.group = server.list[a.index]
  BY <1>3, <1>7 DEF SameReader, ShownIn, Current
<1>9. Recorded(a)'
  <2>1. server'.id = server.id /\ server'.list = server.list /\ server'.index = server.index + 1
    BY <1>2, <1>5 DEF Advanced, Session
  <2>2. /\ a.id <= server'.id /\ a.index \in 1..Len(server'.list) /\ a.index < server'.index
        /\ server'.list[a.index] = a.group
    <3>1. server.id \in Nat /\ server.index \in Nat
      BY <1>5 DEF Session
    <3>2. a.id <= server'.id /\ a.index < server'.index
      BY <1>7, <2>1, <3>1
    <3>3. a.index \in 1..Len(server'.list) /\ server'.list[a.index] = a.group
      BY <1>5, <1>7, <1>8, <2>1
    <3> QED BY <3>2, <3>3
  <2>3. /\ a.screen \in Screens /\ a.req \in 1..readers'[a.screen]
        /\ a.id = reader'[a.screen].id /\ a.group = reader'[a.screen].group
    BY <1>1, <1>4, <1>7, <1>8
  <2> QED BY <2>2, <2>3 DEF Recorded
<1>10. ASSUME NEW b \in acts
       PROVE  /\ <<a.screen, a.req>> # <<b.screen, b.req>>
              /\ <<a.id, a.index>> # <<b.id, b.index>>
  <2>1. Recorded(b)
    BY DEF ActsRecorded
  <2>2. <<a.id, a.index>> # <<b.id, b.index>>
    BY <1>5, <1>7, <2>1 DEF Recorded, Session
  <2>3. ASSUME a.screen = b.screen, a.req = b.req PROVE FALSE
    <3>1. b.id = server.id /\ b.group = server.list[server.index]
      BY <1>7, <1>8, <2>1, <2>3, CatchUpAssumption DEF Recorded
    <3>2. b.index \in 1..Len(server.list) /\ b.index < server.index
          /\ server.list[b.index] = server.list[server.index]
      BY <2>1, <3>1 DEF Recorded
    <3>3. IsInjective(server.list)
      BY <1>5, CatchUpAssumption
    <3>4. DOMAIN server.list = 1..Len(server.list)
      BY <1>5
    <3> QED BY <1>5, <3>2, <3>3, <3>4 DEF IsInjective
  <2> QED BY <2>2, <2>3
<1>11. a.group = a.seen /\ acts' = acts \cup {a}
  BY <1>2, <1>7, <1>8
<1> QED BY <1>6, <1>9, <1>10, <1>11

\* A move of another device.
LEMMA OtherRecorded ==
  ASSUME CatchUpInv, CatchUpTypeOK', OtherDevice, acts' # acts
  PROVE  \E a \in Records :
           /\ acts' = acts \cup {a} /\ Recorded(a)' /\ a.group = a.seen
           /\ \A b \in acts : /\ <<a.screen, a.req>> # <<b.screen, b.req>>
                              /\ <<a.id, a.index>> # <<b.id, b.index>>
<1> USE DEF CatchUpInv
<1>1. /\ ~Complete(server) /\ server' = Advanced /\ others' = others + 1
      /\ \E kind \in Moves :
           acts' = acts \cup {[screen |-> Other, req |-> others', id |-> server.id,
                               index |-> server.index, kind |-> kind,
                               group |-> Current(server), seen |-> Current(server)]}
  BY DEF OtherDevice
<1>2. PICK kind \in Moves :
        acts' = acts \cup {[screen |-> Other, req |-> others', id |-> server.id,
                            index |-> server.index, kind |-> kind,
                            group |-> Current(server), seen |-> Current(server)]}
  BY <1>1
<1>3. /\ server \in Session /\ server.index \in 1..Len(server.list) /\ Current(server) \in Groups
      /\ server.list \in Seq(Groups) /\ others \in Nat
  BY <1>1, CurrentTyped DEF CatchUpTypeOK
<1>4. PICK a : a = [screen |-> Other, req |-> others + 1, id |-> server.id,
                    index |-> server.index, kind |-> kind,
                    group |-> Current(server), seen |-> Current(server)]
  OBVIOUS
<1>5. a \in Records
  <2>1. server.id \in Nat /\ server.index \in Nat /\ others + 1 \in Nat
    BY <1>3 DEF Session
  <2> QED BY <1>3, <1>4, <2>1 DEF Records
<1>6. /\ a.screen = Other /\ a.req = others + 1 /\ a.id = server.id /\ a.index = server.index
      /\ a.group = Current(server) /\ a.seen = Current(server)
  BY <1>4
<1>7. Recorded(a)'
  <2>1. server'.id = server.id /\ server'.list = server.list /\ server'.index = server.index + 1
    BY <1>1, <1>3 DEF Advanced, Session
  <2> QED BY <1>1, <1>3, <1>6, <2>1 DEF Recorded, Session, Current
<1>8. ASSUME NEW b \in acts
      PROVE  /\ <<a.screen, a.req>> # <<b.screen, b.req>>
             /\ <<a.id, a.index>> # <<b.id, b.index>>
  <2>1. Recorded(b)
    BY DEF ActsRecorded
  <2>2. b.req \in Nat
    BY DEF ActsRecorded
  <2> QED BY <1>3, <1>6, <2>1, <2>2, CatchUpAssumption DEF Recorded, Session
<1>9. acts' = acts \cup {a}
  BY <1>1, <1>2, <1>4
<1> QED BY <1>5, <1>6, <1>7, <1>8, <1>9

LEMMA ActsKept ==
  CatchUpInv /\ CatchUpTypeOK' /\ [CatchUpNext]_catchUpVars
    => ActsRecorded' /\ OneDecisionPerClick'
<1> SUFFICES ASSUME CatchUpInv, CatchUpTypeOK', [CatchUpNext]_catchUpVars
    PROVE  ActsRecorded' /\ OneDecisionPerClick'
  OBVIOUS
<1>1. acts \subseteq Records /\ OneDecisionPerClick
  BY DEF CatchUpInv, ActsRecorded, Records
<1>2. \A a \in acts : Recorded(a)'
  BY RecordedKept
<1>3. CASE acts' = acts
  BY <1>1, <1>2, <1>3 DEF ActsRecorded, OneDecisionPerClick, Records
<1>4. CASE acts' # acts
  <2>1. OtherDevice \/ \E d \in Screens : Serve(d)
    BY <1>4 DEF catchUpVars, CatchUpNext, Click, StageAnchor, Perform, Succeeds, Proceeds,
         Conflicts, Breaks, Retry, Reopen, Load, Loaded, Lose
  <2>2. PICK a \in Records :
           /\ acts' = acts \cup {a} /\ Recorded(a)' /\ a.group = a.seen
           /\ \A b \in acts : /\ <<a.screen, a.req>> # <<b.screen, b.req>>
                              /\ <<a.id, a.index>> # <<b.id, b.index>>
    BY <1>4, <2>1, MoveRecorded, OtherRecorded
  <2>3. ActsRecorded'
    BY <1>1, <1>2, <2>2 DEF ActsRecorded, Records
  <2>4. OneDecisionPerClick'
    <3>1. \A b \in acts' : b.group = b.seen
      BY <1>1, <2>2 DEF OneDecisionPerClick
    <3>2. ASSUME NEW b \in acts', NEW c \in acts', b # c
          PROVE  /\ <<b.screen, b.req>> # <<c.screen, c.req>>
                 /\ <<b.id, b.index>> # <<c.id, c.index>>
      <4>1. CASE b \in acts /\ c \in acts
        BY <1>1, <3>2, <4>1 DEF OneDecisionPerClick
      <4>2. CASE b = a /\ c \in acts
        BY <2>2, <4>2
      <4>3. CASE c = a /\ b \in acts
        BY <2>2, <4>3
      <4> QED BY <2>2, <3>2, <4>1, <4>2, <4>3
    <3> QED BY <3>1, <3>2 DEF OneDecisionPerClick
  <2> QED BY <2>3, <2>4
<1> QED BY <1>3, <1>4

THEOREM CatchUpInvariant == CatchUpSpec => []CatchUpInv
<1>1. CatchUpInv /\ [CatchUpNext]_catchUpVars => CatchUpInv'
  BY CatchUpTyped, CopiesKept, ClickedKept, CallsFit, ActsKept DEF CatchUpInv
<1> QED BY <1>1, CatchUpInitially, PTL DEF CatchUpSpec

\* However devices, retries, lost answers and reloads overlap, a click moves the
\* session on at most once, past the conversation it was clicked for.
THEOREM DecidesOnce == CatchUpSpec => []OneDecisionPerClick
<1>1. CatchUpInv => OneDecisionPerClick
  BY DEF CatchUpInv
<1> QED BY <1>1, CatchUpInvariant, PTL

\* No answer, however late, takes a device back to an older session.
THEOREM ViewsMoveForward == CatchUpSpec => ViewMovesForward
<1> DEFINE Moved == \A d \in Screens :
                      \/ view'[d].id > view[d].id
                      \/ view'[d].id = view[d].id /\ view'[d].rev >= view[d].rev
<1>1. ASSUME CatchUpInv, [CatchUpNext]_catchUpVars PROVE [Moved]_catchUpVars
  <2> SUFFICES ASSUME NEW d \in Screens PROVE Older(view[d], view'[d])
    <3>1. CatchUpTypeOK'
      BY <1>1, CatchUpTyped DEF CatchUpInv
    <3>2. \A d \in Screens : view[d] \in Session /\ view'[d] \in Session
      BY <1>1, <3>1 DEF CatchUpInv, CatchUpTypeOK
    <3> QED BY <3>2 DEF Older, Session
  <2>0. CatchUpTypeOK /\ CopiesBehind /\ view[d] \in Session /\ server \in Session
    BY <1>1 DEF CatchUpInv, CatchUpTypeOK
  <2>1. \/ view'[d] = view[d] \/ view'[d] = server
        \/ call[d].state = "ok" /\ view'[d] = call[d].answer
        \/ loading[d] # NoLoad /\ view'[d] = loading[d]
    <3>1. CASE view' = view
      BY <3>1
    <3>2. ASSUME NEW e \in Screens, Succeeds(e) \/ Proceeds(e)
          PROVE  view'[d] = view[d] \/ (call[d].state = "ok" /\ view'[d] = call[d].answer)
      BY <2>0, <3>2 DEF Succeeds, Proceeds, CatchUpTypeOK
    <3>3. ASSUME NEW e \in Screens, Conflicts(e) PROVE view'[d] = view[d] \/ view'[d] = server
      BY <2>0, <3>3 DEF Conflicts, CatchUpTypeOK
    <3>4. ASSUME NEW e \in Screens, Loaded(e)
          PROVE  view'[d] = view[d] \/ (loading[d] # NoLoad /\ view'[d] = loading[d])
      BY <2>0, <3>4 DEF Loaded, CatchUpTypeOK
    <3>5. \/ view' = view
          \/ \E e \in Screens : Succeeds(e) \/ Proceeds(e) \/ Conflicts(e) \/ Loaded(e)
      BY <1>1 DEF catchUpVars, CatchUpNext, OtherDevice, Click, StageAnchor, Perform, Breaks, Retry,
                  Reopen, Load, Lose, Serve
    <3> QED BY <3>1, <3>2, <3>3, <3>4, <3>5
  <2> QED BY <2>0, <2>1, CopiesTransitive DEF CopiesBehind
<1> QED BY <1>1, CatchUpInvariant, PTL DEF CatchUpSpec, ViewMovesForward
=============================================================================
