------------------------------ MODULE WorkProofs ------------------------------
(***************************************************************************)
(* The two bounded queues of work, for any jobs, requests and limits: the  *)
(* limiters of uploads are exact and no upload leaves a file nobody knows  *)
(* of; the queue of link previews and the sharing of its fetches are exact.*)
(*                                                                         *)
(* The limiters are inductive once it is known that images never stand     *)
(* where only attachments do: every step moves a job and at most the first *)
(* of one line.  The files follow from the writing of each to the row or   *)
(* the answer that names it.                                               *)
(***************************************************************************)
EXTENDS UploadWork, PreviewQueue, FiniteSetTheorems, FunctionTheorems,
        SequenceTheorems, TLAPS

\* Images never wait for an upload's place nor have one.
ImagesPlaced ==
  \A j \in Jobs \ Attachments :
    place[j] \in {"new", "lineP", "over"} \cup InProcess

LimiterExact(l) ==
  /\ busy[l] = Cardinality(Holds(l)) /\ busy[l] <= Capacity[l]
  /\ ToSet(line[l]) = Waits(l) /\ IsInjective(line[l])
  /\ Len(line[l]) <= MaxWaiting[l]
  /\ line[l] # <<>> => busy[l] = Capacity[l]

PlacesTyped ==
  /\ place \in [Jobs -> Places] /\ busy \in [Limiters -> Nat]
  /\ line \in [Limiters -> Seq(Jobs)]

LimitersInv ==
  /\ PlacesTyped /\ ImagesPlaced
  /\ LimiterExact("uploads") /\ LimiterExact("processing")

UploadInv == UploadTypeOK /\ LimitersInv

\* A job whose file is written, or its row not yet created.
Made(j) == place[j] \in {"written", "saved"}

\* Files come from jobs, jobs have their files, and known attachments are done.
FilesInv ==
  /\ \A j \in Jobs : FileOf[j] \in disk \ stuck =>
       \E i \in Jobs : FileOf[i] = FileOf[j] /\ (i \in known \/ Made(i))
  /\ \A j \in Jobs : Made(j) \/ j \in known =>
       FileOf[j] \in disk \/ (j \notin Attachments /\ FileOf[j] \in spoiled)
  /\ \A j \in known \cap Attachments : place[j] \in {"leaving", "over"}

-----------------------------------------------------------------------------
(* Lines: sequences without repetition                                     *)

LEMMA LineAppended ==
  ASSUME NEW S, NEW s \in Seq(S), NEW e \in S \ ToSet(s), IsInjective(s)
  PROVE  /\ Append(s, e) \in Seq(S) /\ Len(Append(s, e)) = Len(s) + 1
         /\ ToSet(Append(s, e)) = ToSet(s) \cup {e} /\ IsInjective(Append(s, e))
<1>1. /\ Append(s, e) \in Seq(S) /\ Len(Append(s, e)) = Len(s) + 1 /\ Len(s) \in Nat
      /\ DOMAIN s = 1..Len(s) /\ DOMAIN Append(s, e) = 1..(Len(s) + 1)
      /\ Append(s, e)[Len(s) + 1] = e
      /\ \A i \in 1..Len(s) : Append(s, e)[i] = s[i]
  OBVIOUS
<1>2. ToSet(Append(s, e)) = ToSet(s) \cup {e}
  <2>1. DOMAIN Append(s, e) = DOMAIN s \cup {Len(s) + 1}
    BY <1>1
  <2> QED BY <1>1, <2>1 DEF ToSet
<1>3. \A i \in DOMAIN s : s[i] # e
  BY DEF ToSet
<1>4. IsInjective(Append(s, e))
  <2> SUFFICES ASSUME NEW a \in 1..(Len(s) + 1), NEW b \in 1..(Len(s) + 1),
                      Append(s, e)[a] = Append(s, e)[b]
               PROVE  a = b
    BY <1>1 DEF IsInjective
  <2>1. a \in 1..Len(s) \/ a = Len(s) + 1
    BY <1>1
  <2>2. b \in 1..Len(s) \/ b = Len(s) + 1
    BY <1>1
  <2> QED BY <1>1, <1>3, <2>1, <2>2 DEF IsInjective
<1> QED BY <1>1, <1>2, <1>4

LEMMA LineCalled ==
  ASSUME NEW S, NEW s \in Seq(S), s # <<>>, IsInjective(s)
  PROVE  /\ Tail(s) \in Seq(S) /\ Len(Tail(s)) = Len(s) - 1 /\ Len(s) > 0
         /\ Head(s) \in S /\ Head(s) \in ToSet(s)
         /\ ToSet(Tail(s)) = ToSet(s) \ {Head(s)} /\ IsInjective(Tail(s))
<1>1. /\ Tail(s) \in Seq(S) /\ Len(Tail(s)) = Len(s) - 1 /\ Len(s) \in Nat /\ Len(s) > 0
      /\ DOMAIN s = 1..Len(s) /\ DOMAIN Tail(s) = 1..(Len(s) - 1)
      /\ Head(s) = s[1] /\ s[1] \in S
      /\ \A i \in 1..(Len(s) - 1) : Tail(s)[i] = s[i + 1]
  OBVIOUS
<1>2. Head(s) \in ToSet(s)
  BY <1>1 DEF ToSet
<1>3. ToSet(Tail(s)) = ToSet(s) \ {Head(s)}
  <2>1. ASSUME NEW x \in ToSet(Tail(s)) PROVE x \in ToSet(s) \ {Head(s)}
    <3>1. PICK i \in 1..(Len(s) - 1) : x = s[i + 1]
      BY <1>1 DEF ToSet
    <3>2. i + 1 \in DOMAIN s /\ 1 \in DOMAIN s /\ i + 1 # 1
      BY <1>1
    <3> QED BY <1>1, <3>1, <3>2 DEF ToSet, IsInjective
  <2>2. ASSUME NEW x \in ToSet(s) \ {Head(s)} PROVE x \in ToSet(Tail(s))
    <3>1. PICK i \in 1..Len(s) : x = s[i] /\ i # 1
      BY <1>1 DEF ToSet
    <3>2. i - 1 \in 1..(Len(s) - 1) /\ (i - 1) + 1 = i
      BY <1>1, <3>1
    <3>3. x = Tail(s)[i - 1]
      BY <1>1, <3>1, <3>2
    <3> QED BY <1>1, <3>2, <3>3 DEF ToSet
  <2> QED BY <2>1, <2>2
<1>4. IsInjective(Tail(s))
  <2> SUFFICES ASSUME NEW a \in 1..(Len(s) - 1), NEW b \in 1..(Len(s) - 1),
                      Tail(s)[a] = Tail(s)[b]
               PROVE  a = b
    BY <1>1 DEF IsInjective
  <2>1. a + 1 \in DOMAIN s /\ b + 1 \in DOMAIN s /\ s[a + 1] = s[b + 1]
    BY <1>1
  <2>2. a + 1 = b + 1
    BY <2>1 DEF IsInjective
  <2> QED BY <2>2
<1> QED BY <1>1, <1>2, <1>3, <1>4

LEMMA LineLeft ==
  ASSUME NEW S, NEW s \in Seq(S), NEW i \in DOMAIN s, IsInjective(s)
  PROVE  /\ RemoveAt(s, i) \in Seq(S) /\ Len(RemoveAt(s, i)) = Len(s) - 1 /\ Len(s) > 0
         /\ ToSet(RemoveAt(s, i)) = ToSet(s) \ {s[i]} /\ IsInjective(RemoveAt(s, i))
<1> DEFINE r == RemoveAt(s, i)
<1>1. DOMAIN s = 1..Len(s) /\ Len(s) \in Nat /\ i \in 1..Len(s)
  OBVIOUS
<1>2. /\ SubSeq(s, 1, i - 1) \in Seq(S) /\ Len(SubSeq(s, 1, i - 1)) = i - 1
      /\ \A k \in 1..(i - 1) : SubSeq(s, 1, i - 1)[k] = s[k]
  BY <1>1
<1>3. /\ SubSeq(s, i + 1, Len(s)) \in Seq(S)
      /\ Len(SubSeq(s, i + 1, Len(s))) = Len(s) - i
      /\ \A k \in 1..(Len(s) - i) : SubSeq(s, i + 1, Len(s))[k] = s[i + k]
  BY <1>1
<1>4. /\ r \in Seq(S) /\ Len(r) = Len(s) - 1 /\ DOMAIN r = 1..(Len(s) - 1)
      /\ \A k \in 1..(Len(s) - 1) : r[k] = IF k < i THEN s[k] ELSE s[k + 1]
  <2> DEFINE p == SubSeq(s, 1, i - 1)
             q == SubSeq(s, i + 1, Len(s))
  <2>1. r = p \o q /\ p \in Seq(S) /\ q \in Seq(S) /\ Len(p) = i - 1 /\ Len(q) = Len(s) - i
    BY <1>2, <1>3 DEF RemoveAt
  <2>2. /\ \A k \in 1..(i - 1) : p[k] = s[k]
        /\ \A k \in 1..(Len(s) - i) : q[k] = s[i + k]
    BY <1>2, <1>3
  <2> HIDE DEF r, p, q
  <2>3. /\ p \o q \in Seq(S) /\ Len(p \o q) = Len(p) + Len(q)
        /\ \A k \in 1..Len(p) : (p \o q)[k] = p[k]
        /\ \A k \in (Len(p) + 1)..(Len(p) + Len(q)) : (p \o q)[k] = q[k - Len(p)]
    <3>1. /\ p \o q \in Seq(S) /\ Len(p \o q) = Len(p) + Len(q)
          /\ \A k \in 1..(Len(p) + Len(q)) :
               (p \o q)[k] = IF k <= Len(p) THEN p[k] ELSE q[k - Len(p)]
      BY <2>1, ConcatProperties
    <3>2. Len(p) \in Nat /\ Len(q) \in Nat
      BY <2>1
    <3> QED BY <3>1, <3>2
  <2>4. r \in Seq(S) /\ Len(r) = Len(s) - 1 /\ DOMAIN r = 1..(Len(s) - 1)
    <3>1. r \in Seq(S) /\ Len(r) = Len(p) + Len(q)
      BY <2>1, <2>3
    <3>2. Len(p) + Len(q) = Len(s) - 1
      BY <1>1, <2>1
    <3>3. DOMAIN r = 1..Len(r)
      BY <3>1
    <3> QED BY <3>1, <3>2, <3>3
  <2>5. ASSUME NEW k \in 1..(Len(s) - 1) PROVE r[k] = IF k < i THEN s[k] ELSE s[k + 1]
    <3>1. CASE k < i
      <4>1. k \in 1..(i - 1) /\ k \in 1..Len(p)
        BY <1>1, <2>1, <3>1
      <4> QED BY <2>1, <2>2, <2>3, <3>1, <4>1
    <3>2. CASE ~(k < i)
      <4>1. /\ k \in (Len(p) + 1)..(Len(p) + Len(q)) /\ k - Len(p) \in 1..(Len(s) - i)
            /\ i + (k - Len(p)) = k + 1
        BY <1>1, <2>1, <3>2
      <4> QED BY <2>1, <2>2, <2>3, <3>2, <4>1
    <3> QED BY <3>1, <3>2
  <2> QED BY <2>4, <2>5
<1> HIDE DEF r
<1>5. ToSet(r) = ToSet(s) \ {s[i]}
  <2>1. ASSUME NEW x \in ToSet(r) PROVE x \in ToSet(s) \ {s[i]}
    <3>1. PICK k \in 1..(Len(s) - 1) : x = r[k]
      BY <1>4 DEF ToSet
    <3>2. PICK m \in DOMAIN s : x = s[m] /\ m # i
      <4>1. CASE k < i
        <5>1. k \in DOMAIN s /\ k # i /\ x = s[k]
          BY <1>1, <1>4, <3>1, <4>1
        <5> QED BY <5>1
      <4>2. CASE ~(k < i)
        <5>1. k + 1 \in DOMAIN s /\ k + 1 # i /\ x = s[k + 1]
          BY <1>1, <1>4, <3>1, <4>2
        <5> QED BY <5>1
      <4> QED BY <4>1, <4>2
    <3> QED BY <3>2 DEF ToSet, IsInjective
  <2>2. ASSUME NEW x \in ToSet(s) \ {s[i]} PROVE x \in ToSet(r)
    <3>1. PICK m \in DOMAIN s : x = s[m] /\ m # i
      BY DEF ToSet
    <3>2. PICK k \in 1..(Len(s) - 1) : x = r[k]
      <4>1. CASE m < i
        <5>1. m \in 1..(Len(s) - 1)
          BY <1>1, <4>1
        <5> QED BY <1>4, <3>1, <4>1, <5>1
      <4>2. CASE ~(m < i)
        <5>1. m - 1 \in 1..(Len(s) - 1) /\ ~(m - 1 < i) /\ (m - 1) + 1 = m
          BY <1>1, <3>1, <4>2
        <5>2. r[m - 1] = s[m]
          BY <1>4, <5>1
        <5> QED BY <3>1, <5>1, <5>2
      <4> QED BY <4>1, <4>2
    <3> QED BY <1>4, <3>2 DEF ToSet
  <2> QED BY <2>1, <2>2
<1>6. IsInjective(r)
  <2> SUFFICES ASSUME NEW a \in 1..(Len(s) - 1), NEW b \in 1..(Len(s) - 1), r[a] = r[b]
               PROVE  a = b
    BY <1>4 DEF IsInjective
  <2> DEFINE m(k) == IF k < i THEN k ELSE k + 1
  <2>1. m(a) \in DOMAIN s /\ m(b) \in DOMAIN s /\ s[m(a)] = s[m(b)]
    BY <1>1, <1>4
  <2>2. m(a) = m(b)
    BY <2>1 DEF IsInjective
  <2> QED BY <1>1, <2>2
<1> QED BY <1>1, <1>4, <1>5, <1>6 DEF r

-----------------------------------------------------------------------------
(* What a step does to one limiter                                         *)

LEMMA FewHold ==
  ASSUME NEW l \in Limiters
  PROVE  IsFiniteSet(Holds(l)) /\ Cardinality(Holds(l)) \in Nat
<1>1. Holds(l) \subseteq Jobs
  BY UploadAssumption DEF Holds
<1> QED BY <1>1, UploadAssumption, FS_Subset, FS_CardinalityType

LEMMA Untouched ==
  ASSUME NEW l \in Limiters, LimiterExact(l), busy'[l] = busy[l], line'[l] = line[l],
         Holds(l)' = Holds(l), Waits(l)' = Waits(l)
  PROVE  LimiterExact(l)'
BY DEF LimiterExact

LEMMA TakesPlace ==
  ASSUME UploadTypeOK, NEW l \in Limiters, LimiterExact(l), NEW j \in Jobs \ Holds(l),
         busy[l] < Capacity[l], busy'[l] = busy[l] + 1, line'[l] = line[l],
         Holds(l)' = Holds(l) \cup {j}, Waits(l)' = Waits(l)
  PROVE  LimiterExact(l)'
<1>1. Cardinality(Holds(l)') = Cardinality(Holds(l)) + 1
  BY FewHold, FS_AddElement
<1>2. busy[l] \in Nat /\ Capacity[l] \in Nat
  BY UploadAssumption DEF UploadTypeOK
<1>3. line[l] = <<>>
  BY <1>2 DEF LimiterExact
<1> QED BY <1>1, <1>2, <1>3, FewHold DEF LimiterExact

LEMMA TakesTurn ==
  ASSUME UploadTypeOK, NEW l \in Limiters, LimiterExact(l), NEW j \in Jobs \ Waits(l),
         busy[l] >= Capacity[l], Len(line[l]) < MaxWaiting[l],
         busy'[l] = busy[l], line'[l] = Append(line[l], j),
         Holds(l)' = Holds(l), Waits(l)' = Waits(l) \cup {j}
  PROVE  LimiterExact(l)'
<1>1. /\ busy[l] \in Nat /\ Capacity[l] \in Nat /\ MaxWaiting[l] \in Nat
      /\ line[l] \in Seq(Jobs) /\ Len(line[l]) \in Nat
  BY UploadAssumption DEF UploadTypeOK
<1>2. /\ Len(line'[l]) = Len(line[l]) + 1 /\ IsInjective(line'[l])
      /\ ToSet(line'[l]) = ToSet(line[l]) \cup {j}
  BY <1>1, LineAppended DEF LimiterExact
<1> QED BY <1>1, <1>2 DEF LimiterExact

LEMMA GivesPlaceBack ==
  ASSUME UploadTypeOK, NEW l \in Limiters, LimiterExact(l), NEW j \in Holds(l),
         line[l] = <<>>, busy'[l] = busy[l] - 1, line'[l] = line[l],
         Holds(l)' = Holds(l) \ {j}, Waits(l)' = Waits(l)
  PROVE  LimiterExact(l)'
<1>1. Cardinality(Holds(l)') = Cardinality(Holds(l)) - 1
  BY FewHold, FS_RemoveElement
<1>2. busy[l] \in Nat /\ Capacity[l] \in Nat
  BY UploadAssumption DEF UploadTypeOK
<1> QED BY <1>1, <1>2 DEF LimiterExact

LEMMA HandsPlaceOver ==
  ASSUME UploadTypeOK, NEW l \in Limiters, LimiterExact(l), NEW j \in Holds(l),
         line[l] # <<>>, busy'[l] = busy[l], line'[l] = Tail(line[l]),
         Head(line[l]) \notin Holds(l),
         Holds(l)' = (Holds(l) \ {j}) \cup {Head(line[l])},
         Waits(l)' = Waits(l) \ {Head(line[l])}
  PROVE  LimiterExact(l)'
<1>1. line[l] \in Seq(Jobs) /\ Len(line[l]) \in Nat /\ MaxWaiting[l] \in Nat
  BY UploadAssumption DEF UploadTypeOK
<1>2. /\ Len(line'[l]) = Len(line[l]) - 1 /\ IsInjective(line'[l])
      /\ ToSet(line'[l]) = ToSet(line[l]) \ {Head(line[l])}
  BY <1>1, LineCalled DEF LimiterExact
<1>3. Cardinality(Holds(l)') = Cardinality(Holds(l))
  <2>1. /\ IsFiniteSet(Holds(l) \ {j}) /\ Head(line[l]) \notin Holds(l) \ {j}
        /\ Cardinality(Holds(l) \ {j}) = Cardinality(Holds(l)) - 1
    BY FewHold, FS_RemoveElement
  <2>2. Cardinality(Holds(l)') = Cardinality(Holds(l) \ {j}) + 1
    BY <2>1, FS_AddElement
  <2> QED BY <2>1, <2>2, FewHold
<1> QED BY <1>1, <1>2, <1>3 DEF LimiterExact

LEMMA LeavesLine ==
  ASSUME UploadTypeOK, NEW l \in Limiters, LimiterExact(l), NEW j \in Waits(l),
         busy'[l] = busy[l],
         line'[l] = RemoveAt(line[l], CHOOSE i \in DOMAIN line[l] : line[l][i] = j),
         Holds(l)' = Holds(l), Waits(l)' = Waits(l) \ {j}
  PROVE  LimiterExact(l)' /\ line'[l] \in Seq(Jobs)
<1> DEFINE k == CHOOSE i \in DOMAIN line[l] : line[l][i] = j
<1>1. line[l] \in Seq(Jobs) /\ Len(line[l]) \in Nat /\ MaxWaiting[l] \in Nat
  BY UploadAssumption DEF UploadTypeOK
<1>2. k \in DOMAIN line[l] /\ line[l][k] = j
  BY DEF LimiterExact, ToSet
<1>3. line'[l] = RemoveAt(line[l], k)
  OBVIOUS
<1> HIDE DEF k
<1>4. /\ Len(line'[l]) = Len(line[l]) - 1 /\ IsInjective(line'[l]) /\ line'[l] \in Seq(Jobs)
      /\ ToSet(line'[l]) = ToSet(line[l]) \ {j} /\ Len(line[l]) > 0
  BY <1>1, <1>2, <1>3, LineLeft DEF LimiterExact
<1>5. line[l] # <<>>
  BY <1>4
<1> QED BY <1>1, <1>4, <1>5 DEF LimiterExact

-----------------------------------------------------------------------------
(* What a step does to both                                                *)

\* One job goes where it neither waits nor has a place.
LEMMA JobMoved ==
  ASSUME UploadInv, NEW j \in Jobs, NEW p \in Places,
         place' = [place EXCEPT ![j] = p], UNCHANGED <<busy, line>>,
         p # "lineU" /\ place[j] # "lineU", p # "lineP" /\ place[j] # "lineP",
         p \in InProcess <=> place[j] \in InProcess,
         j \in Attachments => (p \in Admitted <=> place[j] \in Admitted),
         j \notin Attachments => p = "over" \/ p \in InProcess
  PROVE  LimitersInv'
<1> USE DEF UploadInv, UploadTypeOK, LimitersInv
<1>1. /\ Holds("uploads")' = Holds("uploads") /\ Holds("processing")' = Holds("processing")
      /\ Waits("uploads")' = Waits("uploads") /\ Waits("processing")' = Waits("processing")
  BY UploadAssumption DEF Holds, Waits
<1>2. LimiterExact("uploads")' /\ LimiterExact("processing")'
  BY <1>1, Untouched DEF Limiters
<1>3. ImagesPlaced' /\ PlacesTyped'
  BY UploadAssumption DEF ImagesPlaced, PlacesTyped
<1> QED BY <1>2, <1>3

LEMMA AcquireUploads ==
  ASSUME UploadInv, NEW j \in Attachments, place[j] = "new", Acquire("uploads", j)
  PROVE  LimitersInv'
<1> USE DEF UploadInv, UploadTypeOK, LimitersInv
<1>1. /\ "uploads" \in Limiters /\ "processing" \in Limiters /\ j \in Jobs
      /\ j \notin Holds("uploads") /\ j \notin Waits("uploads")
      /\ Inside("uploads") = "receiving"
  BY UploadAssumption DEF Limiters, Holds, Waits, Admitted, InProcess, Inside
<1>2. CASE place' = [place EXCEPT ![j] = Outside(j)] /\ UNCHANGED <<busy, line>>
  <2>1. Outside(j) = "over"
    BY <1>1 DEF Outside, Admitted, InProcess
  <2> QED BY <1>1, <1>2, <2>1, JobMoved DEF Places, Admitted, InProcess
<1>3. CASE /\ busy["uploads"] < Capacity["uploads"]
           /\ busy' = [busy EXCEPT !["uploads"] = @ + 1]
           /\ place' = [place EXCEPT ![j] = Inside("uploads")] /\ UNCHANGED line
  <2>1. /\ Holds("uploads")' = Holds("uploads") \cup {j}
        /\ Waits("uploads")' = Waits("uploads")
        /\ Holds("processing")' = Holds("processing")
        /\ Waits("processing")' = Waits("processing")
    BY <1>1, <1>3, UploadAssumption DEF Holds, Waits, Admitted, InProcess
  <2>2. busy'["uploads"] = busy["uploads"] + 1 /\ busy'["processing"] = busy["processing"]
    BY <1>1, <1>3
  <2>3. LimiterExact("uploads")'
    BY <1>1, <1>3, <2>1, <2>2, TakesPlace
  <2>4. LimiterExact("processing")'
    BY <1>1, <1>3, <2>1, <2>2, Untouched
  <2>5. ImagesPlaced' /\ PlacesTyped'
    BY <1>1, <1>3, UploadAssumption DEF ImagesPlaced, PlacesTyped, Places
  <2> QED BY <2>3, <2>4, <2>5
<1>4. CASE /\ busy["uploads"] >= Capacity["uploads"]
           /\ Len(line["uploads"]) < MaxWaiting["uploads"]
           /\ line' = [line EXCEPT !["uploads"] = Append(@, j)]
           /\ place' = [place EXCEPT ![j] = "lineU"] /\ UNCHANGED busy
  <2>1. /\ Holds("uploads")' = Holds("uploads")
        /\ Waits("uploads")' = Waits("uploads") \cup {j}
        /\ Holds("processing")' = Holds("processing")
        /\ Waits("processing")' = Waits("processing")
    BY <1>1, <1>4, UploadAssumption DEF Holds, Waits, Admitted, InProcess
  <2>2. /\ line'["uploads"] = Append(line["uploads"], j)
        /\ line'["processing"] = line["processing"]
    BY <1>1, <1>4
  <2>3. LimiterExact("uploads")'
    BY <1>1, <1>4, <2>1, <2>2, TakesTurn
  <2>4. LimiterExact("processing")'
    BY <1>1, <1>4, <2>1, <2>2, Untouched
  <2>5. ImagesPlaced' /\ PlacesTyped'
    BY <1>1, <1>4, UploadAssumption DEF ImagesPlaced, PlacesTyped, Places
  <2> QED BY <2>3, <2>4, <2>5
<1> QED BY <1>2, <1>3, <1>4 DEF Acquire

LEMMA AcquireProcessing ==
  ASSUME UploadInv, NEW j \in Jobs, Acquire("processing", j),
         \/ j \in Attachments /\ place[j] = "receiving"
         \/ j \notin Attachments /\ place[j] = "new"
  PROVE  LimitersInv'
<1> USE DEF UploadInv, UploadTypeOK, LimitersInv
<1>1. /\ "uploads" \in Limiters /\ "processing" \in Limiters
      /\ j \notin Holds("processing") /\ j \notin Waits("processing")
      /\ Inside("processing") = "granted"
  BY DEF Limiters, Holds, Waits, InProcess, Inside
<1>2. CASE place' = [place EXCEPT ![j] = Outside(j)] /\ UNCHANGED <<busy, line>>
  <2>1. Outside(j) = IF j \in Attachments THEN "leaving" ELSE "over"
    BY DEF Outside, Admitted, InProcess
  <2> QED BY <1>1, <1>2, <2>1, JobMoved DEF Places, Admitted, InProcess
<1>3. CASE /\ busy["processing"] < Capacity["processing"]
           /\ busy' = [busy EXCEPT !["processing"] = @ + 1]
           /\ place' = [place EXCEPT ![j] = Inside("processing")] /\ UNCHANGED line
  <2>1. /\ Holds("processing")' = Holds("processing") \cup {j}
        /\ Waits("processing")' = Waits("processing")
        /\ Holds("uploads")' = Holds("uploads")
        /\ Waits("uploads")' = Waits("uploads")
    BY <1>1, <1>3, UploadAssumption DEF Holds, Waits, Admitted, InProcess
  <2>2. busy'["processing"] = busy["processing"] + 1 /\ busy'["uploads"] = busy["uploads"]
    BY <1>1, <1>3
  <2>3. LimiterExact("processing")'
    BY <1>1, <1>3, <2>1, <2>2, TakesPlace
  <2>4. LimiterExact("uploads")'
    BY <1>1, <1>3, <2>1, <2>2, Untouched
  <2>5. ImagesPlaced' /\ PlacesTyped'
    BY <1>1, <1>3, UploadAssumption DEF ImagesPlaced, PlacesTyped, Places, InProcess
  <2> QED BY <2>3, <2>4, <2>5
<1>4. CASE /\ busy["processing"] >= Capacity["processing"]
           /\ Len(line["processing"]) < MaxWaiting["processing"]
           /\ line' = [line EXCEPT !["processing"] = Append(@, j)]
           /\ place' = [place EXCEPT ![j] = "lineP"] /\ UNCHANGED busy
  <2>1. /\ Holds("processing")' = Holds("processing")
        /\ Waits("processing")' = Waits("processing") \cup {j}
        /\ Holds("uploads")' = Holds("uploads")
        /\ Waits("uploads")' = Waits("uploads")
    BY <1>1, <1>4, UploadAssumption DEF Holds, Waits, Admitted, InProcess
  <2>2. /\ line'["processing"] = Append(line["processing"], j)
        /\ line'["uploads"] = line["uploads"]
    BY <1>1, <1>4
  <2>3. LimiterExact("processing")'
    BY <1>1, <1>4, <2>1, <2>2, TakesTurn
  <2>4. LimiterExact("uploads")'
    BY <1>1, <1>4, <2>1, <2>2, Untouched
  <2>5. ImagesPlaced' /\ PlacesTyped'
    BY <1>1, <1>4, UploadAssumption DEF ImagesPlaced, PlacesTyped, Places
  <2> QED BY <2>3, <2>4, <2>5
<1> QED BY <1>2, <1>3, <1>4 DEF Acquire

\* A processing job is over: the first in line takes its place.
LEMMA ReleaseProcessing ==
  ASSUME UploadInv, NEW j \in Jobs, place[j] \in InProcess, NEW p,
         p \in IF j \in Attachments THEN {"leaving", "saved"} ELSE {"over"},
         Release("processing", j, p)
  PROVE  LimitersInv'
<1> USE DEF UploadInv, UploadTypeOK, LimitersInv
<1>1. /\ "uploads" \in Limiters /\ "processing" \in Limiters /\ p \in Places
      /\ j \in Holds("processing") /\ Inside("processing") = "granted"
  BY DEF Limiters, Holds, Inside, Places
<1>2. CASE line["processing"] = <<>>
  <2>1. /\ busy' = [busy EXCEPT !["processing"] = @ - 1]
        /\ place' = [place EXCEPT ![j] = p] /\ line' = line
    BY <1>2 DEF Release
  <2>2. /\ Holds("processing")' = Holds("processing") \ {j}
        /\ Waits("processing")' = Waits("processing")
        /\ Holds("uploads")' = Holds("uploads")
        /\ Waits("uploads")' = Waits("uploads")
    BY <1>1, <2>1, UploadAssumption DEF Holds, Waits, Admitted, InProcess
  <2>3. busy'["processing"] = busy["processing"] - 1 /\ busy'["uploads"] = busy["uploads"]
    BY <1>1, <2>1
  <2>4. LimiterExact("processing")'
    BY <1>1, <1>2, <2>1, <2>2, <2>3, GivesPlaceBack
  <2>5. LimiterExact("uploads")'
    BY <1>1, <2>1, <2>2, <2>3, Untouched
  <2>6. busy'["processing"] \in Nat
    BY <1>1, <2>2, <2>4, FewHold, FS_Subset, FS_CardinalityType DEF LimiterExact
  <2>7. ImagesPlaced' /\ PlacesTyped'
    BY <1>1, <2>1, <2>3, <2>6, UploadAssumption DEF ImagesPlaced, PlacesTyped, Limiters
  <2> QED BY <2>4, <2>5, <2>7
<1>3. CASE line["processing"] # <<>>
  <2> DEFINE h == Head(line["processing"])
  <2>1. /\ line' = [line EXCEPT !["processing"] = Tail(@)]
        /\ place' = [place EXCEPT ![j] = p, ![h] = "granted"] /\ busy' = busy
    BY <1>1, <1>3 DEF Release
  <2>2. h \in Jobs /\ h \in Waits("processing") /\ Tail(line["processing"]) \in Seq(Jobs)
    BY <1>1, <1>3, LineCalled DEF LimiterExact
  <2> HIDE DEF h
  <2>3. place[h] = "lineP" /\ h # j /\ h \notin Holds("processing")
    BY <2>2 DEF Waits, Holds, InProcess
  <2>4. /\ Holds("processing")' = (Holds("processing") \ {j}) \cup {h}
        /\ Waits("processing")' = Waits("processing") \ {h}
        /\ Holds("uploads")' = Holds("uploads")
        /\ Waits("uploads")' = Waits("uploads")
    BY <1>1, <2>1, <2>2, <2>3, UploadAssumption DEF Holds, Waits, Admitted, InProcess
  <2>5. /\ line'["processing"] = Tail(line["processing"])
        /\ line'["uploads"] = line["uploads"]
    BY <1>1, <2>1
  <2>6. LimiterExact("processing")'
    BY <1>1, <1>3, <2>1, <2>3, <2>4, <2>5, HandsPlaceOver DEF h
  <2>7. LimiterExact("uploads")'
    BY <1>1, <2>1, <2>4, <2>5, Untouched
  <2>8. ImagesPlaced' /\ PlacesTyped'
    BY <1>1, <2>1, <2>2, <2>3, UploadAssumption DEF ImagesPlaced, PlacesTyped, Places, InProcess
  <2> QED BY <2>6, <2>7, <2>8
<1> QED BY <1>2, <1>3

\* A request is over: the first in line is admitted.
LEMMA ReleaseUploads ==
  ASSUME UploadInv, NEW j \in Jobs, place[j] = "leaving", Release("uploads", j, "over")
  PROVE  LimitersInv'
<1> USE DEF UploadInv, UploadTypeOK, LimitersInv
<1>1. /\ "uploads" \in Limiters /\ "processing" \in Limiters /\ j \in Attachments
      /\ j \in Holds("uploads") /\ Inside("uploads") = "receiving"
  BY DEF Limiters, Holds, Inside, Admitted, ImagesPlaced, InProcess
<1>2. CASE line["uploads"] = <<>>
  <2>1. /\ busy' = [busy EXCEPT !["uploads"] = @ - 1]
        /\ place' = [place EXCEPT ![j] = "over"] /\ line' = line
    BY <1>2 DEF Release
  <2>2. /\ Holds("uploads")' = Holds("uploads") \ {j}
        /\ Waits("uploads")' = Waits("uploads")
        /\ Holds("processing")' = Holds("processing")
        /\ Waits("processing")' = Waits("processing")
    BY <1>1, <2>1, UploadAssumption DEF Holds, Waits, Admitted, InProcess
  <2>3. busy'["uploads"] = busy["uploads"] - 1 /\ busy'["processing"] = busy["processing"]
    BY <1>1, <2>1
  <2>4. LimiterExact("uploads")'
    BY <1>1, <1>2, <2>1, <2>2, <2>3, GivesPlaceBack
  <2>5. LimiterExact("processing")'
    BY <1>1, <2>1, <2>2, <2>3, Untouched
  <2>6. busy'["uploads"] \in Nat
    BY <1>1, <2>2, <2>4, FewHold, FS_Subset, FS_CardinalityType DEF LimiterExact
  <2>7. ImagesPlaced' /\ PlacesTyped'
    BY <1>1, <2>1, <2>3, <2>6, UploadAssumption
    DEF ImagesPlaced, PlacesTyped, Limiters, Places
  <2> QED BY <2>4, <2>5, <2>7
<1>3. CASE line["uploads"] # <<>>
  <2> DEFINE h == Head(line["uploads"])
  <2>1. /\ line' = [line EXCEPT !["uploads"] = Tail(@)]
        /\ place' = [place EXCEPT ![j] = "over", ![h] = "receiving"] /\ busy' = busy
    BY <1>1, <1>3 DEF Release
  <2>2. h \in Jobs /\ h \in Waits("uploads") /\ Tail(line["uploads"]) \in Seq(Jobs)
    BY <1>1, <1>3, LineCalled DEF LimiterExact
  <2> HIDE DEF h
  <2>3. place[h] = "lineU" /\ h # j /\ h \in Attachments /\ h \notin Holds("uploads")
    BY <2>2 DEF Waits, Holds, Admitted, InProcess, ImagesPlaced
  <2>4. /\ Holds("uploads")' = (Holds("uploads") \ {j}) \cup {h}
        /\ Waits("uploads")' = Waits("uploads") \ {h}
        /\ Holds("processing")' = Holds("processing")
        /\ Waits("processing")' = Waits("processing")
    BY <1>1, <2>1, <2>2, <2>3, UploadAssumption DEF Holds, Waits, Admitted, InProcess
  <2>5. /\ line'["uploads"] = Tail(line["uploads"])
        /\ line'["processing"] = line["processing"]
    BY <1>1, <2>1
  <2>6. LimiterExact("uploads")'
    BY <1>1, <1>3, <2>1, <2>3, <2>4, <2>5, HandsPlaceOver DEF h
  <2>7. LimiterExact("processing")'
    BY <1>1, <2>1, <2>4, <2>5, Untouched
  <2>8. ImagesPlaced' /\ PlacesTyped'
    BY <1>1, <2>1, <2>2, <2>3, UploadAssumption DEF ImagesPlaced, PlacesTyped, Places
  <2> QED BY <2>6, <2>7, <2>8
<1> QED BY <1>2, <1>3

\* A deadline or a signal takes a job out of its line.
LEMMA Cancels ==
  ASSUME UploadInv, NEW j \in Jobs, NEW l \in Limiters, Cancel(l, j)
  PROVE  LimitersInv'
<1> USE DEF UploadInv, UploadTypeOK, LimitersInv
<1>1. /\ j \in Waits(l) /\ busy' = busy
      /\ line' = [line EXCEPT ![l] = RemoveAt(@, CHOOSE i \in DOMAIN @ : @[i] = j)]
      /\ place' = [place EXCEPT ![j] = Outside(j)]
  BY DEF Cancel
<1>2. /\ line'[l] = RemoveAt(line[l], CHOOSE i \in DOMAIN line[l] : line[l][i] = j)
      /\ \A k \in Limiters \ {l} : line'[k] = line[k]
  BY <1>1
<1>3. Outside(j) = IF l = "processing" /\ j \in Attachments THEN "leaving" ELSE "over"
  BY <1>1 DEF Waits, Outside, Admitted, InProcess, Limiters
<1>4. /\ Waits(l)' = Waits(l) \ {j}
      /\ \A k \in Limiters \ {l} : Waits(k)' = Waits(k)
  BY <1>1, <1>3 DEF Waits, Limiters
<1>5. \A k \in Limiters : Holds(k)' = Holds(k)
  <2>1. /\ place[j] = IF l = "uploads" THEN "lineU" ELSE "lineP"
        /\ j \in Attachments => l = "uploads" \/ place'[j] = "leaving"
        /\ place'[j] \in {"leaving", "over"}
        /\ j \in Attachments /\ l = "uploads" => place'[j] = "over"
        /\ \A i \in Jobs \ {j} : place'[i] = place[i]
    BY <1>1, <1>3 DEF Waits, Limiters, PlacesTyped
  <2>2. Holds("uploads")' = Holds("uploads")
    BY <2>1, UploadAssumption DEF Holds, Admitted, InProcess, Limiters
  <2>3. Holds("processing")' = Holds("processing")
    BY <2>1 DEF Holds, InProcess
  <2> QED BY <2>2, <2>3 DEF Limiters
<1>6. LimiterExact(l)' /\ line'[l] \in Seq(Jobs)
  BY <1>1, <1>2, <1>4, <1>5, LeavesLine DEF Limiters
<1>7. \A k \in Limiters \ {l} : LimiterExact(k)'
  BY <1>1, <1>2, <1>4, <1>5, Untouched DEF Limiters
<1>8. ImagesPlaced' /\ PlacesTyped'
  BY <1>1, <1>3, <1>6, UploadAssumption DEF ImagesPlaced, PlacesTyped, Places
<1> QED BY <1>6, <1>7, <1>8 DEF Limiters

-----------------------------------------------------------------------------
(* The operations                                                          *)

LEMMA LimitersKept ==
  ASSUME UploadInv, UploadNext
  PROVE  LimitersInv'
<1> USE DEF UploadInv
<1>1. PICK j \in Jobs : \/ Arrive(j) \/ Received(j) \/ Expires(j) \/ ClientGone(j)
                        \/ StartWork(j) \/ Write(j) \/ Fails(j) \/ Processed(j)
                        \/ Record(j) \/ Leave(j)
  BY DEF UploadNext
<1>2. CASE Arrive(j)
  <2>1. CASE place' = [place EXCEPT ![j] = "over"] /\ UNCHANGED <<busy, line>>
             /\ j \notin Attachments
    BY <1>2, <2>1, JobMoved DEF Arrive, Places, Admitted, InProcess
  <2> QED BY <1>2, <2>1, AcquireUploads, AcquireProcessing DEF Arrive
<1>3. CASE Received(j)
  <2>1. j \in Attachments
    BY <1>3 DEF Received, LimitersInv, ImagesPlaced, InProcess
  <2>2. CASE place' = [place EXCEPT ![j] = "leaving"] /\ UNCHANGED <<busy, line>>
    BY <1>3, <2>1, <2>2, JobMoved DEF Received, Places, Admitted, InProcess
  <2> QED BY <1>3, <2>1, <2>2, AcquireProcessing DEF Received
<1>4. CASE Expires(j)
  BY <1>4, Cancels DEF Expires
<1>5. CASE ClientGone(j)
  <2>1. CASE UNCHANGED <<place, busy, line>>
    <3>1. /\ Holds("uploads")' = Holds("uploads") /\ Holds("processing")' = Holds("processing")
          /\ Waits("uploads")' = Waits("uploads") /\ Waits("processing")' = Waits("processing")
      BY <2>1 DEF Holds, Waits
    <3> QED BY <2>1, <3>1, Untouched DEF LimitersInv, PlacesTyped, ImagesPlaced, Limiters
  <2> QED BY <1>5, <2>1, Cancels DEF ClientGone
<1>6. CASE StartWork(j)
  <2>1. CASE j \in aborted
    <3>1. j \in Attachments /\ place[j] \in InProcess /\ Release("processing", j, "leaving")
      BY <1>6, <2>1 DEF StartWork, UploadTypeOK, InProcess
    <3> QED BY <3>1, ReleaseProcessing
  <2>2. CASE j \notin aborted
    BY <1>6, <2>2, JobMoved DEF StartWork, Places, Admitted, InProcess
  <2> QED BY <2>1, <2>2
<1>7. CASE Write(j)
  BY <1>7, JobMoved DEF Write, Places, Admitted, InProcess
<1>8. CASE Fails(j)
  <2>1. place[j] \in InProcess
        /\ Release("processing", j, IF j \in Attachments THEN "leaving" ELSE "over")
    BY <1>8 DEF Fails, InProcess
  <2> QED BY <2>1, ReleaseProcessing
<1>9. CASE Processed(j)
  <2>1. place[j] \in InProcess
        /\ Release("processing", j, IF j \in Attachments THEN "saved" ELSE "over")
    BY <1>9 DEF Processed, InProcess
  <2> QED BY <2>1, ReleaseProcessing
<1>10. CASE Record(j)
  <2>1. j \in Attachments
    BY <1>10 DEF Record, LimitersInv, ImagesPlaced, InProcess
  <2> QED BY <1>10, <2>1, JobMoved DEF Record, Places, Admitted, InProcess
<1>11. CASE Leave(j)
  BY <1>11, ReleaseUploads DEF Leave
<1> QED BY <1>1, <1>2, <1>3, <1>4, <1>5, <1>6, <1>7, <1>8, <1>9, <1>10, <1>11

LEMMA FilesTyped ==
  ASSUME UploadInv, UploadNext
  PROVE  /\ aborted' \subseteq Attachments /\ known' \subseteq Jobs
         /\ disk' \subseteq {FileOf[j] : j \in Jobs} /\ spoiled' \subseteq {FileOf[j] : j \in Jobs}
         /\ stuck' \subseteq {FileOf[j] : j \in Jobs}
BY DEF UploadInv, UploadTypeOK, UploadNext, Arrive, Received, Expires, ClientGone, StartWork,
       Write, Fails, Processed, Record, Leave, Unlinked, Removes

-----------------------------------------------------------------------------
(* Files                                                                   *)

\* Other jobs stay where they are, but for one that is called in.
Neighbours(j) ==
  \A i \in Jobs \ {j} : \/ place'[i] = place[i]
                        \/ place[i] \in {"lineU", "lineP"} /\ place'[i] \in {"receiving", "granted"}

LEMMA ReleaseCalls ==
  ASSUME UploadInv, NEW l \in Limiters, NEW j \in Jobs, NEW p \in Places, Release(l, j, p),
         place[j] \notin {"lineU", "lineP"}
  PROVE  Neighbours(j) /\ place'[j] = p
<1> USE DEF UploadInv, UploadTypeOK
<1>1. CASE line[l] = <<>>
  BY <1>1 DEF Release, Neighbours
<1>2. CASE line[l] # <<>>
  <2> DEFINE h == Head(line[l])
  <2>1. place' = [place EXCEPT ![j] = p, ![h] = Inside(l)]
    BY <1>2 DEF Release
  <2>2. h \in Waits(l)
    BY <1>2, LineCalled DEF LimitersInv, LimiterExact, Limiters
  <2>3. h \in Jobs /\ place[h] \in {"lineU", "lineP"} /\ h # j
        /\ Inside(l) \in {"receiving", "granted"}
    BY <2>2 DEF Waits, Inside
  <2> HIDE DEF h
  <2> QED BY <2>1, <2>3 DEF Neighbours
<1> QED BY <1>1, <1>2

\* A step that touches no file, of a job whose file is not made.
LEMMA FilesUntouched ==
  ASSUME UploadInv, FilesInv, NEW j \in Jobs, Neighbours(j),
         ~Made(j), place'[j] \notin {"written", "saved"},
         j \in known \cap Attachments => place'[j] \in {"leaving", "over"},
         UNCHANGED <<disk, known, spoiled, stuck>>
  PROVE  FilesInv'
<1>1. \A i \in Jobs : Made(i)' <=> Made(i)
  BY DEF Neighbours, Made
<1>2. \A i \in known \cap Attachments : place'[i] \in {"leaving", "over"}
  BY DEF FilesInv, Neighbours, UploadInv, UploadTypeOK
<1> QED BY <1>1, <1>2 DEF FilesInv

\* The file of a job is removed, or stuck: no other attachment has it.
LEMMA FileRemoved ==
  ASSUME UploadInv, FilesInv, NEW j \in Jobs, Neighbours(j),
         place[j] \notin {"leaving", "over"}, place'[j] \in {"leaving", "over"},
         Removes(j), known' = known
  PROVE  FilesInv'
<1>1. \A i \in Jobs \ {j} : Made(i)' <=> Made(i)
  BY DEF Neighbours, Made
<1>2. ~Made(j)'
  BY DEF Made
<1>3. \A i \in known \cap Attachments : place'[i] \in {"leaving", "over"}
  BY DEF FilesInv, Neighbours, UploadInv, UploadTypeOK
<1>4. ASSUME NEW i \in Jobs, FileOf[i] \in disk' \ stuck'
      PROVE  \E k \in Jobs : FileOf[k] = FileOf[i] /\ (k \in known' \/ Made(k)')
  <2>1. FileOf[i] \in disk \ stuck /\ FileOf[i] # FileOf[j]
    BY <1>4 DEF Removes, Unlinked
  <2> QED BY <1>1, <2>1 DEF FilesInv
<1>5. ASSUME NEW i \in Jobs, Made(i)' \/ i \in known'
      PROVE  FileOf[i] \in disk' \/ (i \notin Attachments /\ FileOf[i] \in spoiled')
  <2>1. Made(i) \/ i \in known
    BY <1>1, <1>2, <1>5
  <2>2. CASE FileOf[i] # FileOf[j]
    BY <2>1, <2>2 DEF FilesInv, Removes, Unlinked
  <2>3. CASE FileOf[i] = FileOf[j]
    <3>1. i \notin Attachments
      <4>1. SUFFICES ASSUME i \in Attachments PROVE FALSE
        OBVIOUS
      <4>2. i = j
        BY <2>3, <4>1, UploadAssumption
      <4> QED BY <1>2, <1>5, <4>1, <4>2 DEF FilesInv
    <3>2. FileOf[i] \in disk' \/ FileOf[i] \in spoiled'
      BY <2>3 DEF Removes
    <3> QED BY <3>1, <3>2
  <2> QED BY <2>2, <2>3
<1> QED BY <1>3, <1>4, <1>5 DEF FilesInv

\* A job whose file is there becomes made, or known.
LEMMA FileAdded ==
  ASSUME UploadInv, FilesInv, NEW j \in Jobs, Neighbours(j),
         disk' \in {disk, disk \cup {FileOf[j]}}, spoiled' = spoiled, stuck' = stuck,
         known' \in {known, known \cup {j}},
         Made(j)' \/ j \in known',
         FileOf[j] \in disk' \/ (j \notin Attachments /\ FileOf[j] \in spoiled'),
         j \in known' \cap Attachments => place'[j] \in {"leaving", "over"}
  PROVE  FilesInv'
<1>1. \A i \in Jobs \ {j} : Made(i)' <=> Made(i)
  BY DEF Neighbours, Made
<1>2. \A i \in known' \cap Attachments : place'[i] \in {"leaving", "over"}
  BY DEF FilesInv, Neighbours, UploadInv, UploadTypeOK
<1>3. ASSUME NEW i \in Jobs, FileOf[i] \in disk' \ stuck'
      PROVE  \E k \in Jobs : FileOf[k] = FileOf[i] /\ (k \in known' \/ Made(k)')
  <2>1. CASE FileOf[i] = FileOf[j]
    BY <2>1
  <2>2. CASE FileOf[i] # FileOf[j]
    BY <1>1, <1>3, <2>2 DEF FilesInv
  <2> QED BY <2>1, <2>2
<1>4. ASSUME NEW i \in Jobs, Made(i)' \/ i \in known'
      PROVE  FileOf[i] \in disk' \/ (i \notin Attachments /\ FileOf[i] \in spoiled')
  BY <1>1, <1>4 DEF FilesInv
<1> QED BY <1>2, <1>3, <1>4 DEF FilesInv

LEMMA FilesKept ==
  ASSUME UploadInv, FilesInv, UploadNext
  PROVE  FilesInv'
<1> USE DEF UploadInv, UploadTypeOK
<1>1. PICK j \in Jobs : \/ Arrive(j) \/ Received(j) \/ Expires(j) \/ ClientGone(j)
                        \/ StartWork(j) \/ Write(j) \/ Fails(j) \/ Processed(j)
                        \/ Record(j) \/ Leave(j)
  BY DEF UploadNext
<1>2. \A l \in Limiters : Acquire(l, j) \/ Cancel(l, j)
        => /\ Neighbours(j)
           /\ place'[j] \in {Outside(j), Inside(l), "lineU", "lineP"}
  BY DEF Acquire, Cancel, Neighbours, Waits
<1>3. Outside(j) \in {"leaving", "over"}
      /\ \A l \in Limiters : Inside(l) \in {"receiving", "granted"}
  BY DEF Outside, Inside
<1>4. j \in known \cap Attachments => place[j] \in {"leaving", "over"}
  BY DEF FilesInv
<1>5. "uploads" \in Limiters /\ "processing" \in Limiters
  BY DEF Limiters
<1>6. CASE Arrive(j)
  <2>1. place[j] = "new"
    BY <1>6 DEF Arrive
  <2>2. CASE Acquire("uploads", j) \/ Acquire("processing", j)
    <3>1. Neighbours(j) /\ place'[j] \notin {"written", "saved"}
      BY <1>2, <1>3, <1>5, <2>2
    <3>2. CASE known' = known
      BY <1>4, <1>6, <2>1, <3>1, <3>2, FilesUntouched DEF Arrive, Made
    <3>3. CASE j \notin Attachments /\ FileOf[j] \in disk /\ known' = known \cup {j}
      BY <1>6, <3>1, <3>3, FileAdded DEF Arrive
    <3> QED BY <1>6, <3>2, <3>3 DEF Arrive
  <2>3. CASE j \notin Attachments /\ FileOf[j] \in disk /\ known' = known \cup {j}
             /\ place' = [place EXCEPT ![j] = "over"]
    <3>1. Neighbours(j)
      BY <2>3 DEF Neighbours
    <3> QED BY <1>6, <2>3, <3>1, FileAdded DEF Arrive
  <2> QED BY <1>6, <2>2, <2>3 DEF Arrive
<1>7. CASE Received(j)
  <2>1. place[j] = "receiving" /\ UNCHANGED <<disk, known, spoiled, stuck>>
    BY <1>7 DEF Received
  <2>2. Neighbours(j) /\ place'[j] \notin {"written", "saved"}
    <3>1. CASE Acquire("processing", j)
      BY <1>2, <1>3, <1>5, <3>1
    <3>2. CASE place' = [place EXCEPT ![j] = "leaving"]
      BY <3>2 DEF Neighbours
    <3> QED BY <1>7, <3>1, <3>2 DEF Received
  <2> QED BY <1>4, <2>1, <2>2, FilesUntouched DEF Made
<1>8. CASE Expires(j)
  <2>1. PICK l \in Limiters : Cancel(l, j)
    BY <1>8 DEF Expires
  <2>2. place'[j] \in {"leaving", "over"} /\ Neighbours(j) /\ ~Made(j)
    BY <1>2, <1>3, <2>1 DEF Cancel, Waits, Made
  <2> QED BY <1>8, <2>2, FilesUntouched DEF Expires
<1>9. CASE ClientGone(j)
  <2>1. CASE \E l \in Limiters : Cancel(l, j)
    <3>1. PICK l \in Limiters : Cancel(l, j)
      BY <2>1
    <3>2. place'[j] \in {"leaving", "over"} /\ Neighbours(j) /\ ~Made(j)
      BY <1>2, <1>3, <3>1 DEF Cancel, Waits, Made
    <3> QED BY <1>9, <3>2, FilesUntouched DEF ClientGone
  <2>2. CASE UNCHANGED place
    BY <1>9, <2>2 DEF ClientGone, FilesInv, Made
  <2> QED BY <1>9, <2>1, <2>2 DEF ClientGone
<1>10. CASE StartWork(j)
  <2>1. place[j] = "granted" /\ UNCHANGED <<disk, known, spoiled, stuck>>
    BY <1>10 DEF StartWork
  <2>2. Neighbours(j) /\ place'[j] \notin {"written", "saved"}
    <3>1. CASE Release("processing", j, "leaving")
      BY <1>5, <2>1, <3>1, ReleaseCalls DEF Places
    <3>2. CASE place' = [place EXCEPT ![j] = "working"]
      BY <3>2 DEF Neighbours
    <3> QED BY <1>10, <3>1, <3>2 DEF StartWork
  <2> QED BY <1>4, <2>1, <2>2, FilesUntouched DEF Made
<1>11. CASE Write(j)
  <2>1. /\ Neighbours(j) /\ place'[j] = "written" /\ place[j] = "working"
        /\ disk' = disk \cup {FileOf[j]} /\ UNCHANGED <<known, spoiled, stuck>>
    BY <1>11 DEF Write, Neighbours
  <2>2. Made(j)' /\ FileOf[j] \in disk' /\ j \notin known' \cap Attachments
    BY <1>4, <2>1 DEF Made
  <2> QED BY <2>1, <2>2, FileAdded
<1>12. CASE Fails(j)
  <2> DEFINE p == IF j \in Attachments THEN "leaving" ELSE "over"
  <2>1. p \in Places /\ p \in {"leaving", "over"}
    BY DEF Places
  <2>2. /\ Release("processing", j, p) /\ place[j] \in {"working", "written"}
        /\ Removes(j) /\ known' = known
    BY <1>12 DEF Fails
  <2> HIDE DEF p
  <2>3. Neighbours(j) /\ place'[j] = p
    BY <1>5, <2>1, <2>2, ReleaseCalls
  <2> QED BY <2>1, <2>2, <2>3, FileRemoved
<1>13. CASE Processed(j)
  <2> DEFINE p == IF j \in Attachments THEN "saved" ELSE "over"
  <2>1. p \in Places
    BY DEF Places
  <2>2. /\ Release("processing", j, p) /\ place[j] = "written"
        /\ known' = IF j \in Attachments THEN known ELSE known \cup {j}
        /\ UNCHANGED <<disk, spoiled, stuck>>
    BY <1>13 DEF Processed
  <2>3. Neighbours(j) /\ place'[j] = p
    BY <1>5, <2>1, <2>2, ReleaseCalls
  <2>4. FileOf[j] \in disk' \/ (j \notin Attachments /\ FileOf[j] \in spoiled')
    BY <2>2 DEF FilesInv, Made
  <2>5. Made(j)' \/ j \in known'
    BY <2>2, <2>3 DEF Made
  <2>6. j \notin known' \cap Attachments
    BY <1>4, <2>2
  <2> QED BY <2>2, <2>3, <2>4, <2>5, <2>6, FileAdded
<1>14. CASE Record(j)
  <2>1. place[j] = "saved" /\ place'[j] = "leaving" /\ Neighbours(j)
    BY <1>14 DEF Record, Neighbours
  <2>2. CASE known' = known \cup {j} /\ UNCHANGED <<disk, spoiled, stuck>>
    <3>1. FileOf[j] \in disk' \/ (j \notin Attachments /\ FileOf[j] \in spoiled')
      BY <2>1, <2>2 DEF FilesInv, Made
    <3> QED BY <2>1, <2>2, <3>1, FileAdded
  <2>3. CASE Removes(j) /\ UNCHANGED known
    BY <2>1, <2>3, FileRemoved
  <2> QED BY <1>14, <2>2, <2>3 DEF Record
<1>15. CASE Leave(j)
  <2>1. place[j] = "leaving" /\ UNCHANGED <<disk, known, spoiled, stuck>>
        /\ Neighbours(j) /\ place'[j] = "over"
    BY <1>5, <1>15, ReleaseCalls DEF Leave, Places
  <2> QED BY <2>1, FilesUntouched DEF Made
<1> QED BY <1>1, <1>6, <1>7, <1>8, <1>9, <1>10, <1>11, <1>12, <1>13, <1>14, <1>15

-----------------------------------------------------------------------------
(* The invariant                                                           *)

LEMMA UploadStarts ==
  ASSUME UploadInit PROVE UploadInv /\ FilesInv
<1> USE DEF UploadInit
<1>1. UploadTypeOK /\ PlacesTyped /\ ImagesPlaced /\ FilesInv
  BY DEF UploadTypeOK, PlacesTyped, ImagesPlaced, FilesInv, Made, Places
<1>2. ASSUME NEW l \in Limiters PROVE LimiterExact(l)
  <2>1. Holds(l) = {} /\ Waits(l) = {}
    BY UploadAssumption DEF Holds, Waits, Admitted, InProcess
  <2>2. line[l] = <<>> /\ busy[l] = 0 /\ ToSet(line[l]) = {} /\ IsInjective(line[l])
        /\ Len(line[l]) = 0
    BY DEF ToSet, IsInjective
  <2>3. Capacity[l] \in Nat /\ MaxWaiting[l] \in Nat
    BY UploadAssumption
  <2> QED BY <2>1, <2>2, <2>3, FS_EmptySet DEF LimiterExact
<1> QED BY <1>1, <1>2 DEF UploadInv, LimitersInv, Limiters

LEMMA UploadInvariant == UploadSpec => [](UploadInv /\ FilesInv)
<1>1. ASSUME UploadInv /\ FilesInv, [UploadNext]_uploadVars
      PROVE  (UploadInv /\ FilesInv)'
  <2>1. CASE UploadNext
    BY <1>1, <2>1, LimitersKept, FilesTyped, FilesKept
    DEF UploadInv, UploadTypeOK, LimitersInv, PlacesTyped
  <2>2. CASE UNCHANGED uploadVars
    <3>1. \A l \in Limiters : Holds(l)' = Holds(l) /\ Waits(l)' = Waits(l)
      BY <2>2 DEF uploadVars, Holds, Waits
    <3>2. \A l \in Limiters : LimiterExact(l) => LimiterExact(l)'
      BY <2>2, <3>1, Untouched DEF uploadVars
    <3>3. UploadTypeOK' /\ PlacesTyped' /\ ImagesPlaced' /\ FilesInv'
      BY <1>1, <2>2 DEF uploadVars, UploadInv, UploadTypeOK, LimitersInv, PlacesTyped,
                        ImagesPlaced, FilesInv, Made
    <3> QED BY <1>1, <3>2, <3>3 DEF UploadInv, LimitersInv, Limiters
  <2> QED BY <1>1, <2>1, <2>2
<1> QED BY <1>1, UploadStarts, PTL DEF UploadSpec

\* Both limiters count exactly the jobs that hold a place and queue exactly those
\* that wait, whatever is handed over, aborted, refused or fails (acquire, start).
THEOREM UploadLimitersExact == UploadSpec => []LimitersExact
<1>1. UploadInv => LimitersExact
  BY DEF UploadInv, LimitersInv, LimiterExact, LimitersExact, Limiters
<1> QED BY <1>1, UploadInvariant, PTL

\* A finished upload leaves a file only with an address that names it, or when it
\* failed and the file could not be removed; and an address keeps its file, but for
\* icons of one key (processAttachment, saveActivityIcon).
THEOREM UploadFilesAreKnown == UploadSpec => []FilesAreKnown
<1>1. UploadInv /\ FilesInv => FilesAreKnown
  <2>1. SUFFICES ASSUME UploadInv, FilesInv PROVE FilesAreKnown
    OBVIOUS
  <2>2. ASSUME NEW j \in Jobs, \A i \in Jobs : FileOf[i] = FileOf[j] => place[i] = "over",
               FileOf[j] \in disk \ stuck
        PROVE  \E i \in known : FileOf[i] = FileOf[j]
    BY <2>1, <2>2 DEF FilesInv, Made
  <2>3. ASSUME NEW j \in known
        PROVE  FileOf[j] \in disk \/ (j \notin Attachments /\ FileOf[j] \in spoiled)
    BY <2>1 DEF FilesInv, UploadInv, UploadTypeOK
  <2> QED BY <2>2, <2>3 DEF FilesAreKnown
<1> QED BY <1>1, UploadInvariant, PTL

-----------------------------------------------------------------------------
(***************************************************************************)
(* Fetches of previews are exact, for any requests, links, authors and     *)
(* limits.                                                                 *)
(*                                                                         *)
(* The queue fits the fetches: its lines hold the queued ones, its counts  *)
(* count.  Adding, taking out and ending a fetch leave at most one fetch   *)
(* that may start, so one round of dispatch is enough.  Of the sharing it  *)
(* must also be known that a fetch that is over has no consumers, that a   *)
(* request waits for one fetch only and that the table names a fetch of    *)
(* its link that is not over.                                              *)
(***************************************************************************)
In(F, s) == {f \in Fetches : F[f].status = s}
Of(F, s, a) == {f \in In(F, s) : F[f].author = a}

FetchSet == [status : {"unused", "queued", "running", "settled"}, link : Links, author : Authors,
             aborted : BOOLEAN, consumers : SUBSET Requests]
QueueSet == [ring : Seq(Authors), group : [Authors -> Seq(Fetches)], slots : Nat,
             perAuthor : [Authors -> Nat], queued : Nat, started : SUBSET Fetches]

Fits(q, F) ==
  /\ q \in QueueSet
  /\ IsFiniteSet(In(F, "running")) /\ q.slots = Cardinality(In(F, "running"))
  /\ IsFiniteSet(In(F, "queued")) /\ q.queued = Cardinality(In(F, "queued"))
  /\ \A a \in Authors : /\ q.perAuthor[a] = Cardinality(Of(F, "running", a))
                        /\ ToSet(q.group[a]) = Of(F, "queued", a) /\ IsInjective(q.group[a])
  /\ IsInjective(q.ring) /\ ToSet(q.ring) = {a \in Authors : q.group[a] # <<>>}

Within(q) ==
  /\ q.slots <= MaxActive /\ q.queued <= MaxQueued
  /\ \A a \in Authors : q.perAuthor[a] <= MaxPerAuthor /\ Len(q.group[a]) <= MaxGroup

\* Nothing that may start is left, of any author or of any but one.
Served(q) ==
  q.slots < MaxActive => \A a \in Authors : MayStart(q, a) => q.group[a] = <<>>
ServedBut(q, a) ==
  q.slots < MaxActive =>
    /\ \A b \in Authors \ {a} : MayStart(q, b) => q.group[b] = <<>>
    /\ MayStart(q, a) => Len(q.group[a]) <= 1 \/ q.perAuthor[a] + 1 = MaxPerAuthor

Live(F, f) == F[f].status \in {"queued", "running"}

\* The fetches F, the table T and the requests R agree.
Shares(F, T, R) ==
  /\ \A f \in Fetches : ~Live(F, f) => F[f].consumers = {}
  /\ \A f, g \in Fetches : F[f].consumers \cap F[g].consumers # {} => f = g
  /\ \A l \in Links : T[l] # NoFetch => Live(F, T[l]) /\ F[T[l]].link = l
  /\ \A f \in Fetches :
       Live(F, f) /\ ~F[f].aborted => T[F[f].link] = f /\ F[f].consumers # {}
  /\ \A r \in Requests :
       R[r] = "waiting" <=> \E f \in Fetches : Live(F, f) /\ r \in F[f].consumers

PreviewInv ==
  /\ PreviewTypeOK
  /\ Fits(Queue, fetch) /\ Within(Queue) /\ Served(Queue)
  /\ Shares(fetch, inFlight, request)

-----------------------------------------------------------------------------
(* The operations of the queue                                             *)

LEMMA LineWithout ==
  ASSUME NEW S, NEW s \in Seq(S), NEW e \in ToSet(s), IsInjective(s)
  PROVE  /\ RemoveFirst(s, e) \in Seq(S) /\ Len(RemoveFirst(s, e)) = Len(s) - 1 /\ Len(s) > 0
         /\ ToSet(RemoveFirst(s, e)) = ToSet(s) \ {e} /\ IsInjective(RemoveFirst(s, e))
<1>1. PICK i \in DOMAIN s : s[i] = e
  BY DEF ToSet
<1>2. DOMAIN s = 1..Len(s) /\ i \in Int
  OBVIOUS
<1>3. {k \in 1..Len(s) : s[k] = e} = {i}
  BY <1>1, <1>2 DEF IsInjective
<1>4. SelectInSeq(s, LAMBDA v : v = e) = i
  BY <1>2, <1>3 DEF SelectInSeq, Min
<1>5. RemoveFirst(s, e) = RemoveAt(s, i)
  BY <1>1, <1>2, <1>4 DEF RemoveFirst
<1> QED BY <1>1, <1>5, LineLeft

LEMMA LeastIsIn ==
  ASSUME NEW used \in SUBSET Nat, used # {}
  PROVE  (CHOOSE i \in used : \A j \in used : i <= j) \in used
<1> DEFINE less == {pair \in Nat \X Nat : pair[1] < pair[2]}
<1>1. IsWellFoundedOn(less, Nat)
  BY NatLessThanWellFounded DEF OpToRel
<1>2. PICK least \in used : \A other \in used : ~(<<other, least>> \in less)
  <2> HIDE DEF less
  <2> QED BY <1>1, WFMin
<1>3. \A other \in used : least <= other
  <2> SUFFICES ASSUME NEW other \in used, other < least PROVE FALSE
    OBVIOUS
  <2>1. other \in Nat /\ least \in Nat OBVIOUS
  <2>2. <<other, least>> \in less BY <2>1
  <2> QED BY <1>2, <2>2
<1> QED BY <1>3

LEMMA EmptyLine ==
  ASSUME NEW S, NEW s \in Seq(S)
  PROVE  (s = <<>> <=> ToSet(s) = {}) /\ (s = <<>> <=> Len(s) = 0) /\ Len(s) \in Nat
<1>1. Len(s) \in Nat /\ DOMAIN s = 1..Len(s) /\ (s = <<>> <=> Len(s) = 0)
  OBVIOUS
<1>2. s # <<>> => s[1] \in ToSet(s)
  BY <1>1 DEF ToSet
<1>3. s = <<>> => ToSet(s) = {}
  BY <1>1 DEF ToSet
<1> QED BY <1>1, <1>2, <1>3

LEMMA PushFields ==
  ASSUME NEW q \in QueueSet, NEW a \in Authors, NEW f \in Fetches
  PROVE  /\ Push(q, a, f).ring = IF q.group[a] = <<>> THEN Append(q.ring, a) ELSE q.ring
         /\ Push(q, a, f).group = [q.group EXCEPT ![a] = Append(@, f)]
         /\ Push(q, a, f).slots = q.slots /\ Push(q, a, f).perAuthor = q.perAuthor
         /\ Push(q, a, f).queued = q.queued + 1 /\ Push(q, a, f).started = q.started
         /\ Push(q, a, f) \in QueueSet
<1> DEFINE r == IF q.group[a] = <<>> THEN Append(q.ring, a) ELSE q.ring
           g == [q.group EXCEPT ![a] = Append(@, f)]
           n == q.queued + 1
<1>1. r \in Seq(Authors)
  BY DEF QueueSet
<1>2. g \in [Authors -> Seq(Fetches)]
  <2>1. Append(q.group[a], f) \in Seq(Fetches)
    BY DEF QueueSet
  <2> QED BY <2>1 DEF QueueSet
<1>3. n \in Nat
  BY DEF QueueSet
<1>4. Push(q, a, f) = [q EXCEPT !.ring = r, !.group = g, !.queued = n]
  BY DEF Push, QueueSet
<1> HIDE DEF r, g, n
<1>5. /\ Push(q, a, f) \in QueueSet /\ Push(q, a, f).ring = r /\ Push(q, a, f).group = g
      /\ Push(q, a, f).slots = q.slots /\ Push(q, a, f).perAuthor = q.perAuthor
      /\ Push(q, a, f).queued = n /\ Push(q, a, f).started = q.started
  BY <1>1, <1>2, <1>3, <1>4 DEF QueueSet
<1> QED BY <1>5 DEF r, g, n

LEMMA PushFits ==
  ASSUME NEW q, NEW F, Fits(q, F), Within(q), Served(q), NEW a \in Authors, NEW f \in Fetches,
         F[f].status = "unused", q.queued < MaxQueued, Len(q.group[a]) < MaxGroup,
         NEW G, \A g \in Fetches : g # f => G[g] = F[g],
         G[f].status = "queued", G[f].author = a
  PROVE  Fits(Push(q, a, f), G) /\ Within(Push(q, a, f)) /\ ServedBut(Push(q, a, f), a)
<1> DEFINE p == Push(q, a, f)
<1>0. q \in QueueSet
  BY DEF Fits
<1>1. /\ p.ring = IF q.group[a] = <<>> THEN Append(q.ring, a) ELSE q.ring
      /\ p.group = [q.group EXCEPT ![a] = Append(@, f)]
      /\ p.slots = q.slots /\ p.perAuthor = q.perAuthor
      /\ p.queued = q.queued + 1 /\ p.started = q.started /\ p \in QueueSet
  BY <1>0, PushFields
<1> HIDE DEF p
<1>2. /\ q.group \in [Authors -> Seq(Fetches)] /\ q.ring \in Seq(Authors)
      /\ q.perAuthor \in [Authors -> Nat] /\ q.slots \in Nat /\ q.queued \in Nat
  BY <1>0 DEF QueueSet
<1>3. /\ p.group[a] = Append(q.group[a], f)
      /\ \A b \in Authors : b # a => p.group[b] = q.group[b]
  BY <1>1, <1>2
<1>4. /\ IsFiniteSet(In(G, "running")) /\ p.slots = Cardinality(In(G, "running"))
      /\ IsFiniteSet(In(G, "queued")) /\ p.queued = Cardinality(In(G, "queued"))
  <2>1. In(G, "queued") = In(F, "queued") \cup {f} /\ f \notin In(F, "queued")
    BY DEF In
  <2>2. In(G, "running") = In(F, "running")
    BY DEF In
  <2>3. /\ IsFiniteSet(In(F, "running")) /\ q.slots = Cardinality(In(F, "running"))
        /\ IsFiniteSet(In(F, "queued")) /\ q.queued = Cardinality(In(F, "queued"))
    BY DEF Fits
  <2> QED BY <1>1, <2>1, <2>2, <2>3, FS_AddElement
<1>5. /\ Of(G, "queued", a) = Of(F, "queued", a) \cup {f}
      /\ \A b \in Authors : Of(G, "running", b) = Of(F, "running", b)
      /\ \A b \in Authors : b # a => Of(G, "queued", b) = Of(F, "queued", b)
      /\ f \notin Of(F, "queued", a)
  BY DEF Of, In
<1>6. /\ ToSet(p.group[a]) = Of(G, "queued", a) /\ IsInjective(p.group[a])
      /\ Len(p.group[a]) = Len(q.group[a]) + 1
  <2>1. q.group[a] \in Seq(Fetches) /\ ToSet(q.group[a]) = Of(F, "queued", a) /\ IsInjective(q.group[a])
    BY <1>2 DEF Fits
  <2>2. f \in Fetches \ ToSet(q.group[a])
    BY <1>5, <2>1
  <2>3. /\ ToSet(Append(q.group[a], f)) = ToSet(q.group[a]) \cup {f}
        /\ IsInjective(Append(q.group[a], f)) /\ Len(Append(q.group[a], f)) = Len(q.group[a]) + 1
    BY <2>1, <2>2, LineAppended
  <2> QED BY <1>3, <1>5, <2>1, <2>3
<1>7. \A b \in Authors : /\ p.perAuthor[b] = Cardinality(Of(G, "running", b))
                         /\ ToSet(p.group[b]) = Of(G, "queued", b) /\ IsInjective(p.group[b])
  BY <1>1, <1>3, <1>5, <1>6 DEF Fits
<1>8. \A b \in Authors : Len(q.group[b]) \in Nat /\ (q.group[b] = <<>> <=> Len(q.group[b]) = 0)
  BY <1>2, EmptyLine
<1>9. p.group[a] # <<>>
  BY <1>2, <1>3, AppendProperties
<1>10. IsInjective(p.ring) /\ ToSet(p.ring) = {b \in Authors : p.group[b] # <<>>}
  <2>1. IsInjective(q.ring) /\ ToSet(q.ring) = {b \in Authors : q.group[b] # <<>>}
    BY DEF Fits
  <2>2. CASE q.group[a] = <<>>
    <3>1. IsInjective(Append(q.ring, a)) /\ ToSet(Append(q.ring, a)) = ToSet(q.ring) \cup {a}
      BY <1>2, <2>1, <2>2, LineAppended
    <3> QED BY <1>1, <1>3, <1>9, <2>1, <2>2, <3>1
  <2>3. CASE q.group[a] # <<>>
    BY <1>1, <1>3, <1>9, <2>1, <2>3
  <2> QED BY <2>2, <2>3
<1>11. Within(p)
  <2>1. \A b \in Authors : p.perAuthor[b] <= MaxPerAuthor /\ Len(p.group[b]) <= MaxGroup
    BY <1>1, <1>3, <1>6, <1>8, PreviewAssumption DEF Within
  <2>2. p.slots <= MaxActive /\ p.queued <= MaxQueued
    BY <1>1, <1>2, PreviewAssumption DEF Within
  <2> QED BY <2>1, <2>2 DEF Within
<1>12. ServedBut(p, a)
  <2> SUFFICES ASSUME p.slots < MaxActive PROVE ServedBut(p, a)
    BY DEF ServedBut
  <2>1. \A b \in Authors : MayStart(p, b) => q.group[b] = <<>>
    BY <1>1 DEF Served, MayStart
  <2>2. MayStart(p, a) => Len(p.group[a]) <= 1
    BY <1>6, <1>8, <2>1
  <2> QED BY <1>3, <2>1, <2>2 DEF ServedBut
<1>13. Fits(p, G)
  BY <1>1, <1>4, <1>7, <1>10 DEF Fits
<1> QED BY <1>11, <1>12, <1>13 DEF p

LEMMA TakeFields ==
  ASSUME NEW q \in QueueSet, NEW a \in Authors, NEW f \in ToSet(q.group[a]), q.queued > 0,
         IsInjective(q.group[a]), IsInjective(q.ring), a \in ToSet(q.ring)
  PROVE  /\ Take(q, a, f).ring = IF RemoveFirst(q.group[a], f) = <<>> THEN RemoveFirst(q.ring, a)
                                 ELSE q.ring
         /\ Take(q, a, f).group = [q.group EXCEPT ![a] = RemoveFirst(q.group[a], f)]
         /\ Take(q, a, f).slots = q.slots /\ Take(q, a, f).perAuthor = q.perAuthor
         /\ Take(q, a, f).queued = q.queued - 1 /\ Take(q, a, f).started = q.started
         /\ Take(q, a, f) \in QueueSet
<1> DEFINE rest == RemoveFirst(q.group[a], f)
           r == IF rest = <<>> THEN RemoveFirst(q.ring, a) ELSE q.ring
           g == [q.group EXCEPT ![a] = rest]
           n == q.queued - 1
<1>1. r \in Seq(Authors)
  <2>1. q.ring \in Seq(Authors)
    BY DEF QueueSet
  <2> QED BY <2>1, LineWithout
<1>2. g \in [Authors -> Seq(Fetches)]
  <2>1. q.group \in [Authors -> Seq(Fetches)]
    BY DEF QueueSet
  <2>2. rest \in Seq(Fetches)
    BY <2>1, LineWithout
  <2> QED BY <2>1, <2>2
<1>3. n \in Nat
  BY DEF QueueSet
<1>4. Take(q, a, f) = [q EXCEPT !.ring = r, !.group = g, !.queued = n]
  BY DEF Take, QueueSet
<1> HIDE DEF r, g, n
<1>5. /\ Take(q, a, f) \in QueueSet /\ Take(q, a, f).ring = r /\ Take(q, a, f).group = g
      /\ Take(q, a, f).slots = q.slots /\ Take(q, a, f).perAuthor = q.perAuthor
      /\ Take(q, a, f).queued = n /\ Take(q, a, f).started = q.started
  BY <1>1, <1>2, <1>3, <1>4 DEF QueueSet
<1> QED BY <1>5 DEF r, g, n

LEMMA TakeFits ==
  ASSUME NEW q, NEW F, Fits(q, F), Within(q), Served(q), NEW f \in Fetches,
         F[f].status = "queued", NEW a \in Authors, F[f].author = a,
         NEW G, \A g \in Fetches : g # f => G[g] = F[g], G[f].status = "settled"
  PROVE  Fits(Take(q, a, f), G) /\ Within(Take(q, a, f)) /\ ServedBut(Take(q, a, f), a)
<1> DEFINE p == Take(q, a, f)
           rest == RemoveFirst(q.group[a], f)
<1>0. q \in QueueSet
  BY DEF Fits
<1>1. f \in Of(F, "queued", a) /\ f \in In(F, "queued")
  BY DEF Of, In
<1>2. /\ q.group \in [Authors -> Seq(Fetches)] /\ q.ring \in Seq(Authors)
      /\ q.perAuthor \in [Authors -> Nat] /\ q.slots \in Nat /\ q.queued \in Nat
  BY <1>0 DEF QueueSet
<1>3. \A b \in Authors : /\ q.group[b] \in Seq(Fetches) /\ Len(q.group[b]) \in Nat
                         /\ q.group[b] = <<>> <=> Len(q.group[b]) = 0
                         /\ q.group[b] = <<>> <=> ToSet(q.group[b]) = {}
  BY <1>2, EmptyLine
<1>4. /\ ToSet(q.group[a]) = Of(F, "queued", a) /\ IsInjective(q.group[a])
      /\ IsInjective(q.ring) /\ ToSet(q.ring) = {b \in Authors : q.group[b] # <<>>}
      /\ a \in ToSet(q.ring) /\ f \in ToSet(q.group[a])
  BY <1>1, <1>3 DEF Fits
<1>5. /\ IsFiniteSet(In(G, "running")) /\ q.slots = Cardinality(In(G, "running"))
      /\ IsFiniteSet(In(G, "queued")) /\ q.queued - 1 = Cardinality(In(G, "queued")) /\ q.queued > 0
  <2>1. In(G, "queued") = In(F, "queued") \ {f}
    BY DEF In
  <2>2. In(G, "running") = In(F, "running")
    BY DEF In
  <2>3. /\ IsFiniteSet(In(F, "running")) /\ q.slots = Cardinality(In(F, "running"))
        /\ IsFiniteSet(In(F, "queued")) /\ q.queued = Cardinality(In(F, "queued"))
    BY DEF Fits
  <2>4. Cardinality(In(F, "queued")) # 0
    BY <1>1, <2>3, FS_EmptySet
  <2> QED BY <1>1, <1>2, <2>1, <2>2, <2>3, <2>4, FS_RemoveElement
<1>6. /\ p.ring = IF rest = <<>> THEN RemoveFirst(q.ring, a) ELSE q.ring
      /\ p.group = [q.group EXCEPT ![a] = rest]
      /\ p.slots = q.slots /\ p.perAuthor = q.perAuthor
      /\ p.queued = q.queued - 1 /\ p.started = q.started /\ p \in QueueSet
  BY <1>0, <1>4, <1>5, TakeFields
<1> HIDE DEF p
<1>7. /\ rest \in Seq(Fetches) /\ ToSet(rest) = ToSet(q.group[a]) \ {f} /\ IsInjective(rest)
      /\ Len(rest) = Len(q.group[a]) - 1
  BY <1>3, <1>4, LineWithout
<1> HIDE DEF rest
<1>8. p.group[a] = rest /\ \A b \in Authors : b # a => p.group[b] = q.group[b]
  BY <1>2, <1>6
<1>9. /\ Of(G, "queued", a) = Of(F, "queued", a) \ {f}
      /\ \A b \in Authors : Of(G, "running", b) = Of(F, "running", b)
      /\ \A b \in Authors : b # a => Of(G, "queued", b) = Of(F, "queued", b)
  BY DEF Of, In
<1>10. \A b \in Authors : /\ p.perAuthor[b] = Cardinality(Of(G, "running", b))
                          /\ ToSet(p.group[b]) = Of(G, "queued", b) /\ IsInjective(p.group[b])
  <2> SUFFICES ASSUME NEW b \in Authors
               PROVE  /\ p.perAuthor[b] = Cardinality(Of(G, "running", b))
                      /\ ToSet(p.group[b]) = Of(G, "queued", b) /\ IsInjective(p.group[b])
    OBVIOUS
  <2>1. p.perAuthor[b] = Cardinality(Of(G, "running", b))
    BY <1>6, <1>9 DEF Fits
  <2>2. CASE b = a
    BY <1>4, <1>7, <1>8, <1>9, <2>1, <2>2
  <2>3. CASE b # a
    BY <1>8, <1>9, <2>1, <2>3 DEF Fits
  <2> QED BY <2>2, <2>3
<1>11. IsInjective(p.ring) /\ ToSet(p.ring) = {b \in Authors : p.group[b] # <<>>}
  <2>1. CASE rest = <<>>
    <3>1. IsInjective(RemoveFirst(q.ring, a)) /\ ToSet(RemoveFirst(q.ring, a)) = ToSet(q.ring) \ {a}
      BY SMTT(20), <1>2, <1>4, LineWithout
    <3> QED BY <1>4, <1>6, <1>8, <2>1, <3>1
  <2>2. CASE rest # <<>>
    BY <1>4, <1>6, <1>8, <2>2
  <2> QED BY <2>1, <2>2
<1>12. Within(p)
  <2>1. \A b \in Authors : p.perAuthor[b] <= MaxPerAuthor /\ Len(p.group[b]) <= MaxGroup
    BY <1>3, <1>6, <1>7, <1>8, PreviewAssumption DEF Within
  <2>2. p.slots <= MaxActive /\ p.queued <= MaxQueued
    BY <1>2, <1>6, PreviewAssumption DEF Within
  <2> QED BY <2>1, <2>2 DEF Within
<1>13. ServedBut(p, a)
  <2> SUFFICES ASSUME p.slots < MaxActive PROVE ServedBut(p, a)
    BY DEF ServedBut
  <2>1. \A b \in Authors : MayStart(p, b) => q.group[b] = <<>>
    BY <1>6 DEF Served, MayStart
  <2>2. ~MayStart(p, a)
    BY <1>3, <1>4, <2>1
  <2> QED BY <1>8, <2>1, <2>2 DEF ServedBut
<1>14. Fits(p, G)
  BY <1>5, <1>6, <1>10, <1>11 DEF Fits
<1> QED BY <1>12, <1>13, <1>14 DEF p

LEMMA GiveBackFields ==
  ASSUME NEW q \in QueueSet, NEW a \in Authors, q.slots > 0, q.perAuthor[a] > 0
  PROVE  /\ GiveSlotBack(q, a).ring = q.ring /\ GiveSlotBack(q, a).group = q.group
         /\ GiveSlotBack(q, a).slots = q.slots - 1
         /\ GiveSlotBack(q, a).perAuthor = [q.perAuthor EXCEPT ![a] = @ - 1]
         /\ GiveSlotBack(q, a).queued = q.queued /\ GiveSlotBack(q, a).started = q.started
         /\ GiveSlotBack(q, a) \in QueueSet
<1> DEFINE n == q.slots - 1
           g == [q.perAuthor EXCEPT ![a] = @ - 1]
<1>1. n \in Nat /\ g \in [Authors -> Nat]
  BY DEF QueueSet
<1>2. GiveSlotBack(q, a) = [q EXCEPT !.slots = n, !.perAuthor = g]
  BY DEF GiveSlotBack, QueueSet
<1> HIDE DEF n, g
<1>3. /\ GiveSlotBack(q, a).ring = q.ring /\ GiveSlotBack(q, a).group = q.group
      /\ GiveSlotBack(q, a).slots = n /\ GiveSlotBack(q, a).perAuthor = g
      /\ GiveSlotBack(q, a).queued = q.queued /\ GiveSlotBack(q, a).started = q.started
      /\ GiveSlotBack(q, a) \in QueueSet
  BY <1>1, <1>2 DEF QueueSet
<1> QED BY <1>3 DEF n, g

LEMMA GiveBackFits ==
  ASSUME NEW q, NEW F, Fits(q, F), Within(q), Served(q), NEW f \in Fetches,
         F[f].status = "running", NEW a \in Authors, F[f].author = a,
         NEW G, \A g \in Fetches : g # f => G[g] = F[g], G[f].status = "settled"
  PROVE  /\ Fits(GiveSlotBack(q, a), G) /\ Within(GiveSlotBack(q, a))
         /\ ServedBut(GiveSlotBack(q, a), a) \/ q.slots = MaxActive
<1> DEFINE p == GiveSlotBack(q, a)
<1>0. q \in QueueSet
  BY DEF Fits
<1>1. /\ f \in Of(F, "running", a) /\ f \in In(F, "running")
      /\ Of(F, "running", a) \subseteq In(F, "running")
  BY DEF Of, In
<1>2. /\ q.group \in [Authors -> Seq(Fetches)] /\ q.ring \in Seq(Authors)
      /\ q.perAuthor \in [Authors -> Nat] /\ q.slots \in Nat /\ q.queued \in Nat
  BY <1>0 DEF QueueSet
<1>3. /\ IsFiniteSet(In(F, "running")) /\ q.slots = Cardinality(In(F, "running"))
      /\ IsFiniteSet(In(F, "queued")) /\ q.queued = Cardinality(In(F, "queued"))
      /\ IsFiniteSet(Of(F, "running", a)) /\ q.perAuthor[a] = Cardinality(Of(F, "running", a))
  BY <1>1, FS_Subset DEF Fits
<1>4. q.slots > 0 /\ q.perAuthor[a] > 0
  <2>1. q.slots # 0 /\ q.perAuthor[a] # 0
    BY <1>1, <1>3, FS_EmptySet
  <2> QED BY <1>2, <2>1
<1>5. /\ p.ring = q.ring /\ p.group = q.group /\ p.slots = q.slots - 1
      /\ p.perAuthor = [q.perAuthor EXCEPT ![a] = @ - 1]
      /\ p.queued = q.queued /\ p.started = q.started /\ p \in QueueSet
  BY <1>0, <1>4, GiveBackFields
<1> HIDE DEF p
<1>6. /\ p.perAuthor[a] = q.perAuthor[a] - 1
      /\ \A b \in Authors : b # a => p.perAuthor[b] = q.perAuthor[b]
  BY <1>2, <1>5
<1>7. /\ In(G, "running") = In(F, "running") \ {f} /\ In(G, "queued") = In(F, "queued")
      /\ Of(G, "running", a) = Of(F, "running", a) \ {f}
      /\ \A b \in Authors : Of(G, "queued", b) = Of(F, "queued", b)
      /\ \A b \in Authors : b # a => Of(G, "running", b) = Of(F, "running", b)
  BY DEF Of, In
<1>8. /\ IsFiniteSet(In(G, "running")) /\ p.slots = Cardinality(In(G, "running"))
      /\ IsFiniteSet(In(G, "queued")) /\ p.queued = Cardinality(In(G, "queued"))
      /\ p.perAuthor[a] = Cardinality(Of(G, "running", a))
  BY <1>1, <1>3, <1>5, <1>6, <1>7, FS_RemoveElement
<1>9. Fits(p, G)
  BY <1>5, <1>6, <1>7, <1>8 DEF Fits
<1>10. Within(p)
  <2>1. \A b \in Authors : q.perAuthor[b] \in Nat
    BY <1>2
  <2>2. \A b \in Authors : p.perAuthor[b] <= MaxPerAuthor
    BY <1>6, <2>1, PreviewAssumption DEF Within
  <2>3. p.slots <= MaxActive
    BY <1>2, <1>5, PreviewAssumption DEF Within
  <2> QED BY <1>5, <2>2, <2>3 DEF Within
<1>11. ServedBut(p, a) \/ q.slots = MaxActive
  <2> SUFFICES ASSUME q.slots # MaxActive PROVE ServedBut(p, a)
    OBVIOUS
  <2>1. q.slots < MaxActive
    BY <1>2, PreviewAssumption DEF Within
  <2>2. \A b \in Authors : MayStart(q, b) => q.group[b] = <<>>
    BY <2>1 DEF Served
  <2>3. \A b \in Authors \ {a} : MayStart(p, b) => p.group[b] = <<>>
    BY <1>5, <1>6, <2>2 DEF MayStart
  <2>4. Len(p.group[a]) <= 1 \/ p.perAuthor[a] + 1 = MaxPerAuthor
    <3>1. CASE q.group[a] = <<>>
      BY <1>5, <3>1
    <3>2. CASE q.group[a] # <<>>
      <4>1. ~(q.perAuthor[a] < MaxPerAuthor) /\ q.perAuthor[a] <= MaxPerAuthor
        BY <2>2, <3>2 DEF MayStart, Within
      <4> QED BY <1>2, <1>6, <4>1, PreviewAssumption
    <3> QED BY <3>1, <3>2
  <2> QED BY <2>3, <2>4 DEF ServedBut
<1> QED BY <1>9, <1>10, <1>11 DEF p

\* One round of dispatch.
CanStart(q, i) ==
  LET a == q.ring[i]
      rest == Tail(q.group[a])
  IN [ring |-> RemoveAt(q.ring, i) \o (IF rest = <<>> THEN <<>> ELSE <<a>>),
      group |-> [q.group EXCEPT ![a] = rest],
      slots |-> q.slots + 1,
      perAuthor |-> [q.perAuthor EXCEPT ![a] = @ + 1],
      queued |-> q.queued - 1,
      started |-> {Head(q.group[a])}]

LEMMA DispatchStarts ==
  ASSUME NEW q \in QueueSet, ~(q.slots >= MaxActive), Startable(q) # {}
  PROVE  \E i \in Startable(q) : Dispatch(q) = CanStart(q, i)
<1>1. Startable(q) \in SUBSET Nat
  BY DEF Startable, QueueSet
<1> DEFINE i == CHOOSE i \in Startable(q) : \A j \in Startable(q) : i <= j
<1>2. i \in Startable(q)
  BY <1>1, LeastIsIn
<1>3. Dispatch(q) = CanStart(q, i)
  BY DEF Dispatch, CanStart
<1> HIDE DEF i
<1> QED BY <1>2, <1>3

LEMMA OneMoreOneLess ==
  \A n, k \in Nat : /\ n + 1 \in Nat /\ (n < k => n + 1 <= k) /\ (n <= k => n - 1 <= k)
                    /\ n > 0 => n - 1 \in Nat
OBVIOUS

FirstOf(q, i) == Head(q.group[q.ring[i]])

LEMMA StartFits ==
  ASSUME NEW q, NEW F, Fits(q, F), Within(q), NEW i \in Startable(q), q.slots < MaxActive,
         NEW G, \A g \in Fetches : g # FirstOf(q, i) => G[g] = F[g],
         G[FirstOf(q, i)].status = "running", G[FirstOf(q, i)].author = F[FirstOf(q, i)].author
  PROVE  F[FirstOf(q, i)].status = "queued" /\ Fits(CanStart(q, i), G) /\ Within(CanStart(q, i))
<1>a. PICK a : a = q.ring[i]
  OBVIOUS
<1>f. PICK f : f = FirstOf(q, i) /\ f = Head(q.group[a])
  BY <1>a DEF FirstOf
<1>g. /\ \A g \in Fetches : g # f => G[g] = F[g]
      /\ G[f].status = "running" /\ G[f].author = F[f].author
  BY Zenon, <1>f
<1> DEFINE p == CanStart(q, i)
           rest == Tail(q.group[a])
           ring1 == RemoveAt(q.ring, i)
           ring2 == ring1 \o (IF rest = <<>> THEN <<>> ELSE <<a>>)
           group1 == [q.group EXCEPT ![a] = rest]
           shares == [q.perAuthor EXCEPT ![a] = @ + 1]
<1>0. q \in QueueSet
  BY DEF Fits
<1>1. /\ q.group \in [Authors -> Seq(Fetches)] /\ q.ring \in Seq(Authors)
      /\ q.perAuthor \in [Authors -> Nat] /\ q.slots \in Nat /\ q.queued \in Nat
  BY <1>0 DEF QueueSet
<1>2. i \in DOMAIN q.ring /\ MayStart(q, a) /\ a \in Authors /\ a \in ToSet(q.ring)
  BY <1>a, <1>1 DEF Startable, ToSet
<1>3. /\ ToSet(q.group[a]) = Of(F, "queued", a) /\ IsInjective(q.group[a])
      /\ IsInjective(q.ring) /\ ToSet(q.ring) = {b \in Authors : q.group[b] # <<>>}
      /\ q.group[a] # <<>> /\ q.group[a] \in Seq(Fetches)
  BY <1>1, <1>2 DEF Fits
<1>4. /\ rest \in Seq(Fetches) /\ f \in Fetches /\ f \in Of(F, "queued", a)
      /\ ToSet(rest) = ToSet(q.group[a]) \ {f} /\ IsInjective(rest)
      /\ Len(rest) = Len(q.group[a]) - 1
  <2>1. q.group[a] \in Seq(Fetches) /\ q.group[a] # <<>> /\ IsInjective(q.group[a])
    BY <1>3
  <2>2. /\ rest \in Seq(Fetches) /\ Len(rest) = Len(q.group[a]) - 1
        /\ f \in Fetches /\ f \in ToSet(q.group[a])
        /\ ToSet(rest) = ToSet(q.group[a]) \ {f} /\ IsInjective(rest)
    BY <1>f, <2>1, LineCalled
  <2> QED BY <1>3, <2>2
<1>5. F[f].status = "queued" /\ F[f].author = a /\ f \in In(F, "queued")
  BY <1>4 DEF Of, In
<1> HIDE DEF rest
<1>6. ring2 \in Seq(Authors) /\ IsInjective(ring2)
      /\ ToSet(ring2) = IF rest = <<>> THEN ToSet(q.ring) \ {a} ELSE ToSet(q.ring)
  <2>1. ring1 \in Seq(Authors) /\ ToSet(ring1) = ToSet(q.ring) \ {a} /\ IsInjective(ring1)
    <3>1. q.ring \in Seq(Authors) /\ i \in DOMAIN q.ring /\ IsInjective(q.ring) /\ q.ring[i] = a
      BY <1>a, <1>1, <1>2, <1>3
    <3> QED BY <3>1, LineLeft
  <2> HIDE DEF ring1
  <2>2. CASE rest = <<>>
    <3>1. ring2 = ring1
      BY <2>1, <2>2
    <3> QED BY <2>1, <2>2, <3>1
  <2>3. CASE rest # <<>>
    <3>1. ring2 = Append(ring1, a)
      BY <1>2, <2>1, <2>3, AppendIsConcat
    <3>2. a \in Authors \ ToSet(ring1)
      BY <1>2, <2>1
    <3>3. /\ Append(ring1, a) \in Seq(Authors) /\ IsInjective(Append(ring1, a))
          /\ ToSet(Append(ring1, a)) = ToSet(ring1) \cup {a}
      BY <2>1, <3>2, LineAppended
    <3> QED BY <1>2, <2>1, <2>3, <3>1, <3>3
  <2> QED BY <2>2, <2>3
<1> HIDE DEF ring2
<1>7. group1 \in [Authors -> Seq(Fetches)] /\ shares \in [Authors -> Nat]
  <2>1. group1 \in [Authors -> Seq(Fetches)]
    BY <1>1, <1>4
  <2>2. shares \in [Authors -> Nat]
    <3>1. q.perAuthor[a] + 1 \in Nat /\ q.perAuthor \in [Authors -> Nat]
      BY SMTT(20), <1>1, <1>2
    <3> QED BY <3>1
  <2> QED BY <2>1, <2>2
<1>8. /\ group1[a] = rest /\ \A b \in Authors : b # a => group1[b] = q.group[b]
      /\ shares[a] = q.perAuthor[a] + 1 /\ \A b \in Authors : b # a => shares[b] = q.perAuthor[b]
  BY <1>1, <1>2
<1> HIDE DEF group1, shares
<1>9. /\ IsFiniteSet(In(F, "running")) /\ q.slots = Cardinality(In(F, "running"))
      /\ IsFiniteSet(In(F, "queued")) /\ q.queued = Cardinality(In(F, "queued"))
      /\ Of(F, "running", a) \subseteq In(F, "running")
      /\ IsFiniteSet(Of(F, "running", a)) /\ q.perAuthor[a] = Cardinality(Of(F, "running", a))
  <2>1. Of(F, "running", a) \subseteq In(F, "running")
    BY DEF Of
  <2> QED BY <1>2, <2>1, FS_Subset DEF Fits
<1>10. /\ In(G, "running") = In(F, "running") \cup {f} /\ f \notin In(F, "running")
       /\ In(G, "queued") = In(F, "queued") \ {f}
       /\ Of(G, "running", a) = Of(F, "running", a) \cup {f} /\ f \notin Of(F, "running", a)
       /\ Of(G, "queued", a) = Of(F, "queued", a) \ {f}
       /\ \A b \in Authors : b # a => /\ Of(G, "running", b) = Of(F, "running", b)
                                      /\ Of(G, "queued", b) = Of(F, "queued", b)
  BY <1>g, <1>4, <1>5 DEF Of, In
<1>11. /\ IsFiniteSet(In(G, "running")) /\ q.slots + 1 = Cardinality(In(G, "running"))
       /\ IsFiniteSet(In(G, "queued")) /\ q.queued - 1 = Cardinality(In(G, "queued"))
       /\ shares[a] = Cardinality(Of(G, "running", a))
  <2>1. IsFiniteSet(In(G, "running")) /\ q.slots + 1 = Cardinality(In(G, "running"))
    <3>1. /\ IsFiniteSet(In(F, "running") \cup {f})
          /\ Cardinality(In(F, "running") \cup {f}) = Cardinality(In(F, "running")) + 1
      <4>1. IsFiniteSet(In(F, "running")) /\ f \notin In(F, "running")
        BY <1>9, <1>10
      <4> QED BY <4>1, FS_AddElement
    <3>2. q.slots = Cardinality(In(F, "running")) /\ In(G, "running") = In(F, "running") \cup {f}
      BY <1>9, <1>10
    <3> QED BY <3>1, <3>2
  <2>2. IsFiniteSet(In(G, "queued")) /\ q.queued - 1 = Cardinality(In(G, "queued"))
    <3>1. /\ IsFiniteSet(In(F, "queued") \ {f})
          /\ Cardinality(In(F, "queued") \ {f}) = Cardinality(In(F, "queued")) - 1
      BY <1>5, <1>9, FS_RemoveElement
    <3> QED BY <1>9, <1>10, <3>1
  <2>3. shares[a] = Cardinality(Of(G, "running", a))
    <3>1. Cardinality(Of(F, "running", a) \cup {f}) = Cardinality(Of(F, "running", a)) + 1
      <4>1. IsFiniteSet(Of(F, "running", a)) /\ f \notin Of(F, "running", a)
        BY <1>9, <1>10
      <4> QED BY <4>1, FS_AddElement
    <3> QED BY <1>8, <1>9, <1>10, <3>1
  <2> QED BY <2>1, <2>2, <2>3
<1>12. q.queued > 0
  <2>1. q.queued # 0
    BY <1>5, <1>9, FS_EmptySet
  <2> QED BY <1>1, <2>1
<1>13. p = [ring |-> ring2, group |-> group1, slots |-> q.slots + 1, perAuthor |-> shares,
            queued |-> q.queued - 1, started |-> {f}]
  BY <1>a, <1>f DEF CanStart, ring2, ring1, group1, shares, rest
<1> HIDE DEF p
<1>14. /\ p \in QueueSet /\ p.ring = ring2 /\ p.group = group1 /\ p.slots = q.slots + 1
       /\ p.perAuthor = shares /\ p.queued = q.queued - 1 /\ p.started = {f}
  <2>1. q.slots + 1 \in Nat /\ q.queued - 1 \in Nat /\ {f} \in SUBSET Fetches
    <3>1. q.slots \in Nat /\ q.queued \in Nat /\ q.queued > 0 /\ f \in Fetches
      BY <1>1, <1>4, <1>12
    <3> QED BY Zenon, <3>1, OneMoreOneLess
  <2>2. /\ p.ring = ring2 /\ p.group = group1 /\ p.slots = q.slots + 1
        /\ p.perAuthor = shares /\ p.queued = q.queued - 1 /\ p.started = {f}
    BY <1>13
  <2>3. p \in QueueSet
    <3> DEFINE n == q.slots + 1
               m == q.queued - 1
    <3>1. n \in Nat /\ m \in Nat /\ {f} \in SUBSET Fetches
      BY <2>1
    <3>2. p = [ring |-> ring2, group |-> group1, slots |-> n, perAuthor |-> shares,
               queued |-> m, started |-> {f}]
      BY <1>13
    <3> HIDE DEF n, m
    <3>3. ring2 \in Seq(Authors) /\ group1 \in [Authors -> Seq(Fetches)] /\ shares \in [Authors -> Nat]
      BY <1>6, <1>7
    <3> QED BY <3>1, <3>2, <3>3 DEF QueueSet
  <2> QED BY <2>2, <2>3
<1>15. Fits(p, G)
  <2>1. \A b \in Authors : /\ p.perAuthor[b] = Cardinality(Of(G, "running", b))
                           /\ ToSet(p.group[b]) = Of(G, "queued", b) /\ IsInjective(p.group[b])
    <3> SUFFICES ASSUME NEW b \in Authors
                 PROVE  /\ shares[b] = Cardinality(Of(G, "running", b))
                        /\ ToSet(group1[b]) = Of(G, "queued", b) /\ IsInjective(group1[b])
      BY <1>14
    <3>1. CASE b = a
      BY <1>3, <1>4, <1>8, <1>10, <1>11, <3>1
    <3>2. CASE b # a
      <4>1. /\ q.perAuthor[b] = Cardinality(Of(F, "running", b))
            /\ ToSet(q.group[b]) = Of(F, "queued", b) /\ IsInjective(q.group[b])
        BY DEF Fits
      <4>2. shares[b] = q.perAuthor[b] /\ group1[b] = q.group[b]
        BY <1>8, <3>2
      <4>3. Of(G, "running", b) = Of(F, "running", b) /\ Of(G, "queued", b) = Of(F, "queued", b)
        BY <1>10, <3>2
      <4> QED BY <4>1, <4>2, <4>3
    <3> QED BY <3>1, <3>2
  <2>2. IsInjective(p.ring) /\ ToSet(p.ring) = {b \in Authors : p.group[b] # <<>>}
    BY ZenonT(30), <1>2, <1>3, <1>6, <1>8, <1>14
  <2>3. /\ p \in QueueSet /\ p.slots = Cardinality(In(G, "running"))
        /\ p.queued = Cardinality(In(G, "queued"))
    BY <1>11, <1>14
  <2>4. IsFiniteSet(In(G, "running")) /\ IsFiniteSet(In(G, "queued"))
    BY <1>11
  <2> QED BY <2>1, <2>2, <2>3, <2>4 DEF Fits
<1>16. Within(p)
  <2>1. \A b \in Authors : Len(p.group[b]) <= MaxGroup
    <3>1. Len(q.group[a]) \in Nat /\ Len(q.group[a]) <= MaxGroup
      BY <1>2, <1>3, EmptyLine DEF Within
    <3>2. \A b \in Authors : Len(q.group[b]) <= MaxGroup
      BY DEF Within
    <3>3. p.group = group1 /\ Len(group1[a]) = Len(q.group[a]) - 1
      BY <1>4, <1>8, <1>14
    <3>4. Len(group1[a]) <= MaxGroup
      <4>1. MaxGroup \in Nat
        BY PreviewAssumption
      <4> QED BY Zenon, <3>1, <3>3, <4>1, OneMoreOneLess
    <3> QED BY Zenon, <1>8, <3>2, <3>3, <3>4
  <2>2. \A b \in Authors : p.perAuthor[b] <= MaxPerAuthor
    <3>1. q.perAuthor[a] + 1 <= MaxPerAuthor
      BY <1>1, <1>2, PreviewAssumption DEF MayStart
    <3> QED BY <1>8, <1>14, <3>1 DEF Within
  <2>3. p.slots <= MaxActive /\ p.queued <= MaxQueued
    <3>1. q.slots \in Nat /\ q.queued \in Nat /\ MaxActive \in Nat /\ MaxQueued \in Nat
      BY <1>1, PreviewAssumption
    <3>2. q.slots < MaxActive /\ q.queued <= MaxQueued
      BY DEF Within
    <3>3. p.slots = q.slots + 1 /\ p.queued = q.queued - 1
      BY <1>14
    <3> QED BY Zenon, <3>1, <3>2, <3>3, OneMoreOneLess
  <2> QED BY <2>1, <2>2, <2>3 DEF Within
<1> QED BY <1>f, <1>5, <1>15, <1>16 DEF p

LEMMA DispatchFits ==
  ASSUME NEW q, NEW F \in [Fetches -> FetchSet], Fits(q, F), Within(q), q.started = {},
         NEW a \in Authors, ServedBut(q, a) \/ q.slots + 1 = MaxActive,
         NEW d, d = Dispatch(q), NEW G, G = Started(F, d)
  PROVE  /\ Fits(d, G) /\ Within(d) /\ Served(d) /\ G \in [Fetches -> FetchSet]
         /\ \A g \in Fetches :
              \/ G[g] = F[g]
              \/ F[g].status = "queued" /\ G[g] = [F[g] EXCEPT !.status = "running"]
<1>0. q \in QueueSet
  BY DEF Fits
<1>1. /\ q.group \in [Authors -> Seq(Fetches)] /\ q.ring \in Seq(Authors)
      /\ q.perAuthor \in [Authors -> Nat] /\ q.slots \in Nat
      /\ ToSet(q.ring) = {b \in Authors : q.group[b] # <<>>}
  BY <1>0 DEF QueueSet, Fits
<1>2. CASE q.slots >= MaxActive \/ Startable(q) = {}
  <2>1. d = q /\ G = F
    <3>1. d = q
      BY <1>2 DEF Dispatch
    <3> QED BY <3>1 DEF Started
  <2>2. Served(q)
    <3> SUFFICES ASSUME q.slots < MaxActive, NEW b \in Authors, MayStart(q, b), q.group[b] # <<>>
                 PROVE  FALSE
      BY DEF Served
    <3>1. Startable(q) = {}
      BY <1>1, <1>2, PreviewAssumption
    <3>2. PICK j \in DOMAIN q.ring : q.ring[j] = b
      BY <1>1 DEF ToSet
    <3> QED BY <3>1, <3>2 DEF Startable
  <2> QED BY <2>1, <2>2
<1>3. CASE ~(q.slots >= MaxActive) /\ Startable(q) # {}
  <2>1. PICK i \in Startable(q) : d = CanStart(q, i)
    BY <1>0, <1>3, DispatchStarts
  <2>2. PICK c : c = q.ring[i]
    OBVIOUS
  <2>3. c \in Authors /\ MayStart(q, c) /\ q.group[c] # <<>>
    <3>1. c \in ToSet(q.ring) /\ MayStart(q, c)
      BY <2>2 DEF Startable, ToSet
    <3> QED BY <1>1, <3>1
  <2>4. PICK f : f = Head(q.group[c])
    OBVIOUS
  <2>5. f \in Fetches /\ d.started = {f}
    <3>1. q.group[c] \in Seq(Fetches)
      BY <1>1, <2>3
    <3>2. Head(q.group[c]) \in Fetches
      BY <2>3, <3>1
    <3>3. CanStart(q, i).started = {f}
      BY <2>2, <2>4 DEF CanStart
    <3> QED BY <2>1, <2>4, <3>2, <3>3
  <2>6. /\ \A g \in Fetches : g # f => G[g] = F[g]
        /\ G[f] = [F[f] EXCEPT !.status = "running"] /\ G \in [Fetches -> FetchSet]
    BY <2>5 DEF Started, FetchSet
  <2>7. G[f].status = "running" /\ G[f].author = F[f].author
    BY <2>5, <2>6 DEF FetchSet
  <2>8. q.slots < MaxActive
    BY <1>1, <1>3, PreviewAssumption
  <2>9. /\ F[f].status = "queued" /\ Fits(d, G) /\ Within(d) /\ d.slots = q.slots + 1
        /\ d.group = [q.group EXCEPT ![c] = Tail(@)]
        /\ d.perAuthor = [q.perAuthor EXCEPT ![c] = @ + 1]
    <3>1. \A g \in Fetches : g # f => G[g] = F[g]
      BY <2>6
    <3>2. F[f].status = "queued" /\ Fits(CanStart(q, i), G) /\ Within(CanStart(q, i))
      <4>1. f = FirstOf(q, i)
        BY <2>2, <2>4 DEF FirstOf
      <4>2. /\ \A g \in Fetches : g # FirstOf(q, i) => G[g] = F[g]
            /\ G[FirstOf(q, i)].status = "running"
            /\ G[FirstOf(q, i)].author = F[FirstOf(q, i)].author
        BY Zenon, <2>7, <3>1, <4>1
      <4>3. F[FirstOf(q, i)].status = "queued" /\ Fits(CanStart(q, i), G) /\ Within(CanStart(q, i))
        BY <2>8, <4>2, StartFits
      <4> QED BY <4>1, <4>3
    <3>3. /\ CanStart(q, i).slots = q.slots + 1
          /\ CanStart(q, i).group = [q.group EXCEPT ![c] = Tail(@)]
          /\ CanStart(q, i).perAuthor = [q.perAuthor EXCEPT ![c] = @ + 1]
      BY <2>2 DEF CanStart
    <3> QED BY <2>1, <3>2, <3>3
  <2>10. Served(d)
    <3> SUFFICES ASSUME d.slots < MaxActive, NEW b \in Authors, MayStart(d, b)
                 PROVE  d.group[b] = <<>>
      BY DEF Served
    <3>1. ServedBut(q, a)
      BY <1>1, <2>9, PreviewAssumption
    <3>2. c = a
      BY <2>3, <2>8, <3>1 DEF ServedBut
    <3>3. CASE b # a
      BY <1>1, <2>8, <2>9, <3>1, <3>2, <3>3 DEF ServedBut, MayStart
    <3>4. CASE b = a
      <4>1. q.perAuthor[a] + 1 < MaxPerAuthor
        BY <1>1, <2>9, <3>2, <3>4 DEF MayStart
      <4>2. Len(q.group[a]) <= 1
        BY <1>1, <2>3, <2>8, <3>1, <3>2, <4>1, PreviewAssumption DEF ServedBut
      <4>3. q.group[a] \in Seq(Fetches) /\ q.group[a] # <<>>
        BY <1>1, <2>3, <3>2
      <4>4. Tail(q.group[a]) = <<>>
        BY <4>2, <4>3
      <4> QED BY <1>1, <2>9, <3>2, <3>4, <4>4
    <3> QED BY <3>3, <3>4
  <2> QED BY <2>6, <2>9, <2>10
<1> QED BY <1>2, <1>3

-----------------------------------------------------------------------------
(* Steps                                                                   *)

\* The rest of a handler after a fetch was added, taken out or ended.
LEMMA Round ==
  ASSUME NEW F \in [Fetches -> FetchSet], NEW q, NEW a \in Authors,
         Fits(q, F), Within(q), q.started = {}, ServedBut(q, a) \/ q.slots + 1 = MaxActive,
         NEW d, d = Dispatch(q), fetch' = Started(F, d), Becomes(d),
         Shares(F, inFlight', request'), inFlight' \in [Links -> Fetches \cup {NoFetch}],
         request' \in [Requests -> {"new", "waiting", "answered", "cancelled"}],
         cache' \in [Links -> {"unknown", "meta", "failed"}]
  PROVE  PreviewInv'
<1> DEFINE G == Started(F, d)
<1>1. /\ Fits(d, G) /\ Within(d) /\ Served(d) /\ G \in [Fetches -> FetchSet]
      /\ \A g \in Fetches :
           \/ G[g] = F[g]
           \/ F[g].status = "queued" /\ G[g] = [F[g] EXCEPT !.status = "running"]
  BY DispatchFits
<1> HIDE DEF G
<1>2. fetch' = G
  BY DEF G
<1>3. \A g \in Fetches : /\ Live(G, g) <=> Live(F, g)
                         /\ G[g].link = F[g].link /\ G[g].aborted = F[g].aborted
                         /\ G[g].consumers = F[g].consumers
  BY <1>1 DEF Live, FetchSet
<1>4. Shares(G, inFlight', request')
  BY <1>3 DEF Shares
<1>5. Queue' = [ring |-> d.ring, group |-> d.group, slots |-> d.slots,
                perAuthor |-> d.perAuthor, queued |-> d.queued, started |-> {}]
  BY DEF Queue, Becomes
<1>6. d \in QueueSet
  BY <1>1 DEF Fits
<1>7. PICK c : c = Queue'
  OBVIOUS
<1>8. /\ c \in QueueSet /\ c.ring = d.ring /\ c.group = d.group /\ c.slots = d.slots
      /\ c.perAuthor = d.perAuthor /\ c.queued = d.queued
  BY <1>5, <1>6, <1>7 DEF QueueSet
<1>9. Fits(c, G) /\ Within(c) /\ Served(c)
  BY <1>1, <1>8 DEF Fits, Within, Served, MayStart
<1>10. PreviewTypeOK'
  BY <1>1, <1>2, <1>6 DEF PreviewTypeOK, FetchSet, QueueSet, Becomes
<1> QED BY <1>2, <1>4, <1>7, <1>9, <1>10 DEF PreviewInv

\* A handler that leaves the queue alone.
LEMMA Aside ==
  ASSUME PreviewInv, QueueUnchanged,
         fetch' \in [Fetches -> FetchSet],
         \A f \in Fetches : fetch'[f].status = fetch[f].status /\ fetch'[f].author = fetch[f].author,
         Shares(fetch', inFlight', request'), inFlight' \in [Links -> Fetches \cup {NoFetch}],
         request' \in [Requests -> {"new", "waiting", "answered", "cancelled"}],
         cache' \in [Links -> {"unknown", "meta", "failed"}]
  PROVE  PreviewInv'
<1>1. PICK c : c = Queue
  OBVIOUS
<1>2. Queue' = c
  BY <1>1 DEF Queue, QueueUnchanged
<1>3. \A s : In(fetch', s) = In(fetch, s)
  BY DEF In
<1>4. \A s, a : Of(fetch', s, a) = Of(fetch, s, a)
  BY DEF In, Of
<1>5. Fits(c, fetch) /\ Within(c) /\ Served(c)
  BY <1>1 DEF PreviewInv
<1>6. Fits(c, fetch')
  BY <1>3, <1>4, <1>5 DEF Fits
<1>7. PreviewTypeOK'
  BY DEF PreviewInv, PreviewTypeOK, FetchSet, QueueUnchanged
<1> QED BY <1>2, <1>5, <1>6, <1>7 DEF PreviewInv

\* Nobody waits for the fetch any longer, and it leaves the table.
LEMMA Left ==
  ASSUME PreviewInv, NEW f \in Fetches, Live(fetch, f),
         NEW G, \A g \in Fetches : g # f => G[g] = fetch[g],
         G[f].consumers = {}, ~Live(G, f) \/ G[f].aborted,
         NEW R, \A r \in Requests :
                  R[r] = "waiting" <=> request[r] = "waiting" /\ r \notin fetch[f].consumers
  PROVE  /\ Shares(G, Forget(f), R)
         /\ Forget(f) \in [Links -> Fetches \cup {NoFetch}]
<1>0. Shares(fetch, inFlight, request) /\ PreviewTypeOK /\ fetch[f].link \in Links
  BY DEF PreviewInv, PreviewTypeOK
<1>1. inFlight \in [Links -> Fetches \cup {NoFetch}] /\ NoFetch \notin Fetches
  BY <1>0, PreviewAssumption DEF PreviewTypeOK
<1>2. Forget(f) \in [Links -> Fetches \cup {NoFetch}]
  BY <1>1 DEF Forget
<1>3. \A l \in Links : /\ Forget(f)[l] # f
                       /\ Forget(f)[l] \in {inFlight[l], NoFetch}
                       /\ inFlight[l] # f => Forget(f)[l] = inFlight[l]
  <2>1. \A l \in Links : inFlight[l] = f => fetch[f].link = l
    BY <1>1 DEF Shares, PreviewInv
  <2>2. f # NoFetch
    BY <1>1
  <2>3. CASE inFlight[fetch[f].link] = f
    <3>1. Forget(f) = [inFlight EXCEPT ![fetch[f].link] = NoFetch]
      BY <2>3 DEF Forget
    <3> QED BY <1>0, <1>1, <2>1, <2>2, <2>3, <3>1
  <2>4. CASE inFlight[fetch[f].link] # f
    <3>1. Forget(f) = inFlight
      BY <2>4 DEF Forget
    <3> QED BY <1>0, <1>1, <2>1, <2>4, <3>1
  <2> QED BY <2>3, <2>4
<1> DEFINE T == Forget(f)
<1> HIDE DEF T
<1>4. \A g \in Fetches : ~Live(G, g) => G[g].consumers = {}
  BY <1>0 DEF Shares, Live
<1>5. \A g, h \in Fetches : G[g].consumers \cap G[h].consumers # {} => g = h
  BY <1>0 DEF Shares
<1>6. \A l \in Links : T[l] # NoFetch => Live(G, T[l]) /\ G[T[l]].link = l
  <2> SUFFICES ASSUME NEW l \in Links, T[l] # NoFetch PROVE Live(G, T[l]) /\ G[T[l]].link = l
    OBVIOUS
  <2>1. T[l] = inFlight[l] /\ T[l] # f /\ T[l] \in Fetches
    BY <1>1, <1>3 DEF T
  <2> QED BY <1>0, <2>1 DEF Shares, Live
<1>7. \A g \in Fetches :
        Live(G, g) /\ ~G[g].aborted => T[G[g].link] = g /\ G[g].consumers # {}
  <2> SUFFICES ASSUME NEW g \in Fetches, Live(G, g), ~G[g].aborted
               PROVE  T[G[g].link] = g /\ G[g].consumers # {}
    OBVIOUS
  <2>1. g # f /\ G[g] = fetch[g] /\ Live(fetch, g)
    BY DEF Live
  <2>2. fetch[g].link \in Links
    BY <1>0 DEF PreviewTypeOK
  <2>3. inFlight[fetch[g].link] = g /\ fetch[g].consumers # {}
    BY <1>0, <2>1 DEF Shares
  <2> QED BY <1>3, <2>1, <2>2, <2>3 DEF T
<1>8. \A r \in Requests :
        R[r] = "waiting" <=> \E g \in Fetches : Live(G, g) /\ r \in G[g].consumers
  <2> SUFFICES ASSUME NEW r \in Requests
               PROVE  R[r] = "waiting" <=> \E g \in Fetches : Live(G, g) /\ r \in G[g].consumers
    OBVIOUS
  <2>1. request[r] = "waiting" <=> \E g \in Fetches : Live(fetch, g) /\ r \in fetch[g].consumers
    BY <1>0 DEF Shares
  <2>2. ASSUME NEW g \in Fetches, Live(fetch, g), r \in fetch[g].consumers, r \notin fetch[f].consumers
        PROVE  Live(G, g) /\ r \in G[g].consumers
    BY <2>2 DEF Live
  <2>3. ASSUME NEW g \in Fetches, Live(G, g), r \in G[g].consumers
        PROVE  Live(fetch, g) /\ r \in fetch[g].consumers /\ r \notin fetch[f].consumers
    <3>1. g # f
      BY <2>3
    <3>2. G[g] = fetch[g]
      BY <3>1
    <3> QED BY <1>0, <2>3, <3>1, <3>2 DEF Live, Shares
  <2> QED BY <2>1, <2>2, <2>3
<1> QED BY <1>2, <1>4, <1>5, <1>6, <1>7, <1>8 DEF Shares, T

LEMMA AnsweredStep ==
  ASSUME PreviewInv, NEW r \in Requests, request[r] = "new",
         request' = [request EXCEPT ![r] = "answered"],
         UNCHANGED <<fetch, inFlight, cache>>, QueueUnchanged
  PROVE  PreviewInv'
<1>1. PreviewTypeOK /\ Shares(fetch, inFlight, request)
  BY DEF PreviewInv
<1>2. /\ fetch' \in [Fetches -> FetchSet] /\ inFlight' \in [Links -> Fetches \cup {NoFetch}]
      /\ request' \in [Requests -> {"new", "waiting", "answered", "cancelled"}]
      /\ cache' \in [Links -> {"unknown", "meta", "failed"}]
  BY <1>1 DEF PreviewTypeOK, FetchSet
<1>3. \A s \in Requests : request'[s] = "waiting" <=> request[s] = "waiting"
  BY <1>1 DEF PreviewTypeOK
<1>4. Shares(fetch', inFlight', request')
  BY <1>1, <1>3 DEF Shares
<1> QED BY <1>2, <1>4, Aside

LEMMA AttachStep ==
  ASSUME PreviewInv, NEW r \in Requests, Attach(r)
  PROVE  PreviewInv'
<1>1. PreviewTypeOK /\ Shares(fetch, inFlight, request)
  BY DEF PreviewInv
<1>2. PICK f : f = inFlight[LinkOf[r]]
  OBVIOUS
<1>3. f \in Fetches /\ Live(fetch, f)
  BY <1>1, <1>2, PreviewAssumption DEF Attach, Shares, PreviewTypeOK
<1>4. /\ request[r] = "new" /\ request' = [request EXCEPT ![r] = "waiting"]
      /\ fetch' = [fetch EXCEPT ![f].consumers = @ \cup {r}]
      /\ UNCHANGED <<inFlight, cache>> /\ QueueUnchanged
  BY <1>2 DEF Attach
<1>5. /\ fetch' \in [Fetches -> FetchSet]
      /\ \A g \in Fetches : /\ fetch'[g].status = fetch[g].status
                            /\ fetch'[g].author = fetch[g].author
                            /\ fetch'[g].link = fetch[g].link
                            /\ fetch'[g].aborted = fetch[g].aborted
      /\ fetch'[f].consumers = fetch[f].consumers \cup {r}
      /\ \A g \in Fetches : g # f => fetch'[g] = fetch[g]
  BY <1>1, <1>3, <1>4 DEF PreviewTypeOK, FetchSet
<1>6. /\ inFlight' \in [Links -> Fetches \cup {NoFetch}]
      /\ request' \in [Requests -> {"new", "waiting", "answered", "cancelled"}]
      /\ cache' \in [Links -> {"unknown", "meta", "failed"}]
  BY <1>1, <1>4 DEF PreviewTypeOK
<1>7. \A s \in Requests : request'[s] = "waiting" <=> request[s] = "waiting" \/ s = r
  BY <1>1, <1>4 DEF PreviewTypeOK
<1>8. \A g \in Fetches : r \notin fetch[g].consumers
  BY <1>1, <1>4 DEF Shares
<1>9. Shares(fetch', inFlight', request')
  <2>1. \A g \in Fetches : Live(fetch', g) <=> Live(fetch, g)
    BY <1>5 DEF Live
  <2>2. \A g \in Fetches : ~Live(fetch', g) => fetch'[g].consumers = {}
    BY <1>1, <1>3, <1>5, <2>1 DEF Shares
  <2>3. \A g, h \in Fetches : fetch'[g].consumers \cap fetch'[h].consumers # {} => g = h
    <3> SUFFICES ASSUME NEW g \in Fetches, NEW h \in Fetches, NEW s,
                        s \in fetch'[g].consumers, s \in fetch'[h].consumers
                 PROVE  g = h
      OBVIOUS
    <3>1. CASE s = r
      BY <1>5, <1>8, <3>1
    <3>2. CASE s # r
      <4>1. s \in fetch[g].consumers /\ s \in fetch[h].consumers
        BY <1>5, <3>2
      <4> QED BY <1>1, <4>1 DEF Shares
    <3> QED BY <3>1, <3>2
  <2>4. \A l \in Links : inFlight'[l] # NoFetch =>
          Live(fetch', inFlight'[l]) /\ fetch'[inFlight'[l]].link = l
    <3> SUFFICES ASSUME NEW l \in Links, inFlight'[l] # NoFetch
                 PROVE  Live(fetch', inFlight'[l]) /\ fetch'[inFlight'[l]].link = l
      OBVIOUS
    <3>1. Live(fetch, inFlight[l]) /\ fetch[inFlight[l]].link = l /\ inFlight[l] \in Fetches
      BY <1>1, <1>4 DEF Shares, PreviewTypeOK
    <3>2. inFlight'[l] = inFlight[l]
      BY <1>4
    <3> QED BY <1>5, <2>1, <3>1, <3>2
  <2>5. \A g \in Fetches : Live(fetch', g) /\ ~fetch'[g].aborted =>
          inFlight'[fetch'[g].link] = g /\ fetch'[g].consumers # {}
    <3>1. fetch'[f].consumers # {}
      BY <1>5
    <3> QED BY <1>1, <1>4, <1>5, <2>1, <3>1 DEF Shares
  <2>6. \A s \in Requests : request'[s] = "waiting" <=>
          \E g \in Fetches : Live(fetch', g) /\ s \in fetch'[g].consumers
    <3> SUFFICES ASSUME NEW s \in Requests
                 PROVE  request'[s] = "waiting" <=>
                          \E g \in Fetches : Live(fetch', g) /\ s \in fetch'[g].consumers
      OBVIOUS
    <3>1. CASE s = r
      BY <1>3, <1>5, <1>7, <2>1, <3>1
    <3>2. CASE s # r
      <4>1. \A g \in Fetches : s \in fetch'[g].consumers <=> s \in fetch[g].consumers
        BY <1>5, <3>2
      <4> QED BY <1>1, <1>7, <2>1, <3>2, <4>1 DEF Shares
    <3> QED BY <3>1, <3>2
  <2> QED BY <2>2, <2>3, <2>4, <2>5, <2>6 DEF Shares
<1> QED BY <1>4, <1>5, <1>6, <1>9, Aside

LEMMA AskStep ==
  ASSUME PreviewInv, NEW r \in Requests, Ask(r)
  PROVE  PreviewInv'
<1>1. PreviewTypeOK /\ Shares(fetch, inFlight, request)
  BY DEF PreviewInv
<1>2. PICK l : l = LinkOf[r]
  OBVIOUS
<1>3. PICK a : a = AuthorOf[r]
  OBVIOUS
<1>4. l \in Links /\ a \in Authors
  BY <1>2, <1>3, PreviewAssumption
<1> DEFINE asked == [status |-> "queued", link |-> l, author |-> a, aborted |-> FALSE,
                     consumers |-> {r}]
           F(f) == [fetch EXCEPT ![f] = asked]
<1>5. PICK f \in Fetches :
        /\ fetch[f].status = "unused"
        /\ fetch' = Started(F(f), Dispatch(Push(Queue, a, f)))
        /\ inFlight' = [inFlight EXCEPT ![l] = f]
        /\ Becomes(Dispatch(Push(Queue, a, f)))
  BY <1>2, <1>3 DEF Ask
<1>6. /\ request[r] = "new" /\ inFlight[l] = NoFetch /\ Admits(a)
      /\ request' = [request EXCEPT ![r] = "waiting"] /\ cache' = cache
  BY <1>2, <1>3 DEF Ask
<1>7. PICK G : G = F(f)
  OBVIOUS
<1>8. /\ G \in [Fetches -> FetchSet] /\ G[f] = asked /\ \A g \in Fetches : g # f => G[g] = fetch[g]
  BY <1>1, <1>4, <1>7 DEF PreviewTypeOK, FetchSet
<1>9. /\ inFlight' \in [Links -> Fetches \cup {NoFetch}]
      /\ request' \in [Requests -> {"new", "waiting", "answered", "cancelled"}]
      /\ cache' \in [Links -> {"unknown", "meta", "failed"}]
  BY <1>1, <1>5, <1>6 DEF PreviewTypeOK
<1>10. /\ inFlight'[l] = f /\ \A k \in Links : k # l => inFlight'[k] = inFlight[k]
       /\ \A s \in Requests : request'[s] = "waiting" <=> request[s] = "waiting" \/ s = r
  BY <1>1, <1>4, <1>5, <1>6 DEF PreviewTypeOK
<1>11. G[f].status = "queued" /\ G[f].author = a /\ G[f].link = l /\ G[f].consumers = {r}
  BY <1>8
<1> HIDE DEF F, asked
<1>12. \A g \in Fetches : /\ r \notin fetch[g].consumers
                          /\ Live(fetch, g) /\ ~fetch[g].aborted => fetch[g].link # l
  <2> SUFFICES ASSUME NEW g \in Fetches
               PROVE  /\ r \notin fetch[g].consumers
                      /\ Live(fetch, g) /\ ~fetch[g].aborted => fetch[g].link # l
    OBVIOUS
  <2>1. r \notin fetch[g].consumers
    BY <1>1, <1>6 DEF Shares
  <2>2. g # NoFetch
    BY PreviewAssumption
  <2> QED BY <1>1, <1>6, <2>1, <2>2 DEF Shares
<1>13. \A g \in Fetches : g # f => (Live(G, g) <=> Live(fetch, g))
  BY <1>8 DEF Live
<1>14. Live(G, f) /\ ~Live(fetch, f) /\ fetch[f].consumers = {}
  BY <1>1, <1>5, <1>11 DEF Live, Shares
<1>15. Shares(G, inFlight', request')
  <2>1. \A g \in Fetches : ~Live(G, g) => G[g].consumers = {}
    BY <1>1, <1>8, <1>13, <1>14 DEF Shares
  <2>2. \A g, h \in Fetches : G[g].consumers \cap G[h].consumers # {} => g = h
    BY <1>1, <1>8, <1>11, <1>12 DEF Shares
  <2>3. \A k \in Links : inFlight'[k] # NoFetch =>
          Live(G, inFlight'[k]) /\ G[inFlight'[k]].link = k
    <3> SUFFICES ASSUME NEW k \in Links, inFlight'[k] # NoFetch, k # l
                 PROVE  Live(G, inFlight'[k]) /\ G[inFlight'[k]].link = k
      BY <1>10, <1>11, <1>14
    <3>1. Live(fetch, inFlight[k]) /\ fetch[inFlight[k]].link = k /\ inFlight[k] \in Fetches
      BY <1>1, <1>10 DEF Shares, PreviewTypeOK
    <3> QED BY <1>8, <1>10, <1>13, <1>14, <3>1
  <2>4. \A g \in Fetches : Live(G, g) /\ ~G[g].aborted =>
          inFlight'[G[g].link] = g /\ G[g].consumers # {}
    <3> SUFFICES ASSUME NEW g \in Fetches, Live(G, g), ~G[g].aborted, g # f
                 PROVE  inFlight'[G[g].link] = g /\ G[g].consumers # {}
      BY <1>10, <1>11
    <3>1. Live(fetch, g) /\ G[g] = fetch[g] /\ fetch[g].link \in Links
      BY <1>1, <1>8, <1>13 DEF PreviewTypeOK
    <3>2. inFlight[fetch[g].link] = g /\ fetch[g].consumers # {}
      BY <1>1, <3>1 DEF Shares
    <3> QED BY <1>10, <1>12, <3>1, <3>2
  <2>5. \A s \in Requests : request'[s] = "waiting" <=>
          \E g \in Fetches : Live(G, g) /\ s \in G[g].consumers
    <3> SUFFICES ASSUME NEW s \in Requests
                 PROVE  request'[s] = "waiting" <=>
                          \E g \in Fetches : Live(G, g) /\ s \in G[g].consumers
      OBVIOUS
    <3>1. CASE s = r
      BY <1>10, <1>11, <1>14, <3>1
    <3>2. CASE s # r
      <4>1. \A g \in Fetches : Live(G, g) /\ s \in G[g].consumers <=>
                               Live(fetch, g) /\ s \in fetch[g].consumers
        BY <1>8, <1>11, <1>13, <1>14, <3>2
      <4> QED BY <1>1, <1>10, <3>2, <4>1 DEF Shares
    <3> QED BY <3>1, <3>2
  <2> QED BY <2>1, <2>2, <2>3, <2>4, <2>5 DEF Shares
<1>16. PICK q : q = Queue
  OBVIOUS
<1>17. /\ Fits(q, fetch) /\ Within(q) /\ Served(q) /\ q.started = {}
       /\ q.queued < MaxQueued /\ Len(q.group[a]) < MaxGroup
  BY <1>6, <1>16 DEF PreviewInv, Admits, Queue
<1>18. PICK p : p = Push(q, a, f)
  OBVIOUS
<1>19. Fits(p, G) /\ Within(p) /\ ServedBut(p, a)
  <2>1. \A g \in Fetches : g # f => G[g] = fetch[g]
    BY <1>8
  <2> QED BY <1>4, <1>5, <1>11, <1>17, <1>18, <2>1, PushFits
<1>20. p.started = {}
  <2>1. q \in QueueSet
    BY <1>17 DEF Fits
  <2> QED BY ZenonT(30), <1>4, <1>17, <1>18, <2>1, PushFields
<1>21. fetch' = Started(G, Dispatch(p)) /\ Becomes(Dispatch(p))
  BY <1>5, <1>7, <1>16, <1>18
<1> QED BY <1>4, <1>8, <1>9, <1>15, <1>19, <1>20, <1>21, Round

LEMMA SettledFields ==
  ASSUME PreviewInv, NEW f \in Fetches
  PROVE  /\ Settled(f) \in [Fetches -> FetchSet]
         /\ Settled(f)[f].status = "settled" /\ Settled(f)[f].consumers = {}
         /\ \A g \in Fetches : g # f => Settled(f)[g] = fetch[g]
         /\ fetch[f].author \in Authors /\ fetch[f].consumers \subseteq Requests
<1>1. fetch \in [Fetches -> FetchSet]
  BY DEF PreviewInv, PreviewTypeOK, FetchSet
<1> QED BY <1>1 DEF Settled, FetchSet

\* The queue without a fetch that was queued.
LEMMA TakenOut ==
  ASSUME PreviewInv, NEW f \in Fetches, fetch[f].status = "queued",
         NEW p, p = Take(Queue, fetch[f].author, f)
  PROVE  /\ Fits(p, Settled(f)) /\ Within(p) /\ ServedBut(p, fetch[f].author) /\ p.started = {}
         /\ fetch[f].author \in Authors
<1>1. PICK q : q = Queue
  OBVIOUS
<1>2. PICK a : a = fetch[f].author
  OBVIOUS
<1>3. /\ Fits(q, fetch) /\ Within(q) /\ Served(q) /\ q.started = {} /\ a \in Authors
      /\ p = Take(q, a, f)
  BY <1>1, <1>2, SettledFields DEF PreviewInv, Queue
<1>4. PICK G : G = Settled(f)
  OBVIOUS
<1>5. Fits(p, G) /\ Within(p) /\ ServedBut(p, a)
  <2>1. G[f].status = "settled" /\ \A g \in Fetches : g # f => G[g] = fetch[g]
    BY <1>4, SettledFields
  <2> QED BY <1>2, <1>3, <2>1, TakeFits
<1>6. p.started = q.started
  BY <1>3 DEF Take, Fits, QueueSet
<1> QED BY <1>2, <1>3, <1>4, <1>5, <1>6

LEMMA QueueDeadlineStep ==
  ASSUME PreviewInv, NEW f \in Fetches, QueueDeadline(f)
  PROVE  PreviewInv'
<1>1. PreviewTypeOK /\ Live(fetch, f)
  BY DEF PreviewInv, QueueDeadline, Live
<1>2. PICK p : p = Take(Queue, fetch[f].author, f)
  OBVIOUS
<1>3. PICK G : G = Settled(f)
  OBVIOUS
<1>4. /\ fetch[f].status = "queued" /\ request' = AnswerAll(f) /\ inFlight' = Forget(f)
      /\ fetch' = Started(G, Dispatch(p)) /\ Becomes(Dispatch(p)) /\ cache' = cache
  BY <1>2, <1>3 DEF QueueDeadline
<1>5. /\ G \in [Fetches -> FetchSet] /\ G[f].status = "settled" /\ G[f].consumers = {}
      /\ \A g \in Fetches : g # f => G[g] = fetch[g]
  BY <1>3, SettledFields
<1>6. /\ \A r \in Requests :
           request'[r] = "waiting" <=> request[r] = "waiting" /\ r \notin fetch[f].consumers
      /\ request' \in [Requests -> {"new", "waiting", "answered", "cancelled"}]
      /\ cache' \in [Links -> {"unknown", "meta", "failed"}]
  BY <1>1, <1>4 DEF AnswerAll, PreviewTypeOK
<1>7. Shares(G, Forget(f), request') /\ Forget(f) \in [Links -> Fetches \cup {NoFetch}]
  <2>1. ~Live(G, f)
    BY <1>5 DEF Live
  <2> QED BY <1>1, <1>5, <1>6, <2>1, Left
<1>8. Fits(p, G) /\ Within(p) /\ ServedBut(p, fetch[f].author) /\ p.started = {}
      /\ fetch[f].author \in Authors
  BY <1>2, <1>3, <1>4, TakenOut
<1> QED BY <1>4, <1>5, <1>6, <1>7, <1>8, Round

LEMMA FetchEndsStep ==
  ASSUME PreviewInv, NEW f \in Fetches, NEW result \in {"meta", "failed"}, FetchEnds(f, result)
  PROVE  PreviewInv'
<1>1. PreviewTypeOK /\ Live(fetch, f)
  BY DEF PreviewInv, FetchEnds, Live
<1>2. PICK a : a = fetch[f].author
  OBVIOUS
<1>3. PICK q : q = Queue
  OBVIOUS
<1>4. PICK p : p = GiveSlotBack(q, a)
  OBVIOUS
<1>5. PICK G : G = Settled(f)
  OBVIOUS
<1>6. /\ fetch[f].status = "running" /\ request' = AnswerAll(f) /\ inFlight' = Forget(f)
      /\ fetch' = Started(G, Dispatch(p)) /\ Becomes(Dispatch(p))
      /\ cache' = IF fetch[f].aborted THEN cache ELSE [cache EXCEPT ![fetch[f].link] = result]
  BY <1>2, <1>3, <1>4, <1>5 DEF FetchEnds
<1>7. /\ G \in [Fetches -> FetchSet] /\ G[f].status = "settled" /\ G[f].consumers = {}
      /\ \A g \in Fetches : g # f => G[g] = fetch[g]
      /\ a \in Authors
  BY <1>2, <1>5, SettledFields
<1>8. /\ \A r \in Requests :
           request'[r] = "waiting" <=> request[r] = "waiting" /\ r \notin fetch[f].consumers
      /\ request' \in [Requests -> {"new", "waiting", "answered", "cancelled"}]
      /\ cache' \in [Links -> {"unknown", "meta", "failed"}]
  BY <1>1, <1>6 DEF AnswerAll, PreviewTypeOK
<1>9. Shares(G, Forget(f), request') /\ Forget(f) \in [Links -> Fetches \cup {NoFetch}]
  <2>1. ~Live(G, f)
    BY <1>7 DEF Live
  <2> QED BY <1>1, <1>7, <1>8, <2>1, Left
<1>10. Fits(q, fetch) /\ Within(q) /\ Served(q) /\ q.started = {} /\ q.slots \in Nat
  BY <1>1, <1>3 DEF PreviewInv, Queue, PreviewTypeOK
<1>11. Fits(p, G) /\ Within(p) /\ (ServedBut(p, a) \/ q.slots = MaxActive)
  BY <1>2, <1>4, <1>6, <1>7, <1>10, GiveBackFits
<1>12. p.started = {} /\ (q.slots = MaxActive => p.slots + 1 = MaxActive)
  <2>1. p.started = q.started /\ p.slots = q.slots - 1
    BY <1>4, <1>10 DEF GiveSlotBack, Fits, QueueSet
  <2> QED BY <1>10, <2>1
<1> QED BY <1>6, <1>7, <1>8, <1>9, <1>11, <1>12, Round

LEMMA FetchDeadlineStep ==
  ASSUME PreviewInv, NEW f \in Fetches, FetchDeadline(f)
  PROVE  PreviewInv'
<1>1. PreviewTypeOK /\ Shares(fetch, inFlight, request)
  BY DEF PreviewInv
<1>2. fetch' = [fetch EXCEPT ![f].aborted = TRUE] /\ UNCHANGED <<request, inFlight, cache>>
      /\ QueueUnchanged
  BY DEF FetchDeadline
<1>3. /\ fetch' \in [Fetches -> FetchSet]
      /\ \A g \in Fetches : /\ fetch'[g].status = fetch[g].status
                            /\ fetch'[g].author = fetch[g].author
                            /\ fetch'[g].link = fetch[g].link
                            /\ fetch'[g].consumers = fetch[g].consumers
                            /\ fetch[g].aborted => fetch'[g].aborted
  <2>1. fetch \in [Fetches -> FetchSet]
    BY <1>1 DEF PreviewTypeOK, FetchSet
  <2>2. fetch' \in [Fetches -> FetchSet]
    BY <1>2, <2>1 DEF FetchSet
  <2>3. /\ fetch'[f] = [fetch[f] EXCEPT !.aborted = TRUE]
        /\ \A g \in Fetches : g # f => fetch'[g] = fetch[g]
    BY <1>2, <2>1
  <2>4. /\ fetch'[f].status = fetch[f].status /\ fetch'[f].author = fetch[f].author
        /\ fetch'[f].link = fetch[f].link /\ fetch'[f].consumers = fetch[f].consumers
        /\ fetch'[f].aborted
    BY <2>1, <2>3 DEF FetchSet
  <2> QED BY <2>2, <2>3, <2>4
<1>4. /\ inFlight' = inFlight /\ inFlight' \in [Links -> Fetches \cup {NoFetch}]
      /\ request' = request /\ request' \in [Requests -> {"new", "waiting", "answered", "cancelled"}]
      /\ cache' \in [Links -> {"unknown", "meta", "failed"}]
  BY <1>1, <1>2 DEF PreviewTypeOK
<1>5. Shares(fetch', inFlight', request')
  <2>1. \A g \in Fetches : Live(fetch', g) <=> Live(fetch, g)
    BY <1>3 DEF Live
  <2>2. \A l \in Links : inFlight[l] # NoFetch =>
          Live(fetch', inFlight[l]) /\ fetch'[inFlight[l]].link = l
    <3> SUFFICES ASSUME NEW l \in Links, inFlight[l] # NoFetch
                 PROVE  Live(fetch', inFlight[l]) /\ fetch'[inFlight[l]].link = l
      OBVIOUS
    <3>1. Live(fetch, inFlight[l]) /\ fetch[inFlight[l]].link = l /\ inFlight[l] \in Fetches
      BY <1>1 DEF Shares, PreviewTypeOK
    <3> QED BY <1>3, <2>1, <3>1
  <2> QED BY <1>1, <1>3, <1>4, <2>1, <2>2 DEF Shares
<1> QED BY <1>2, <1>3, <1>4, <1>5, Aside

LEMMA OneOfMany ==
  ASSUME PreviewInv, NEW r \in Requests, NEW f \in Fetches, r \in fetch[f].consumers,
         fetch[f].consumers # {r}, request' = [request EXCEPT ![r] = "cancelled"],
         fetch' = [fetch EXCEPT ![f].consumers = @ \ {r}],
         UNCHANGED inFlight, QueueUnchanged, UNCHANGED cache
  PROVE  PreviewInv'
<1>1. PreviewTypeOK /\ Shares(fetch, inFlight, request)
  BY DEF PreviewInv
<1>2. /\ fetch' \in [Fetches -> FetchSet]
      /\ \A g \in Fetches : /\ fetch'[g].status = fetch[g].status
                            /\ fetch'[g].author = fetch[g].author
                            /\ fetch'[g].link = fetch[g].link
                            /\ fetch'[g].aborted = fetch[g].aborted
      /\ fetch'[f].consumers = fetch[f].consumers \ {r}
      /\ \A g \in Fetches : g # f => fetch'[g] = fetch[g]
  <2>1. fetch \in [Fetches -> FetchSet]
    BY <1>1 DEF PreviewTypeOK, FetchSet
  <2>2. fetch' \in [Fetches -> FetchSet]
    BY <2>1 DEF FetchSet
  <2>3. /\ fetch'[f] = [fetch[f] EXCEPT !.consumers = @ \ {r}]
        /\ \A g \in Fetches : g # f => fetch'[g] = fetch[g]
    BY <2>1
  <2>4. /\ fetch'[f].status = fetch[f].status /\ fetch'[f].author = fetch[f].author
        /\ fetch'[f].link = fetch[f].link /\ fetch'[f].aborted = fetch[f].aborted
        /\ fetch'[f].consumers = fetch[f].consumers \ {r}
    BY <2>1, <2>3 DEF FetchSet
  <2> QED BY <2>2, <2>3, <2>4
<1>3. /\ inFlight' = inFlight /\ inFlight' \in [Links -> Fetches \cup {NoFetch}]
      /\ request' \in [Requests -> {"new", "waiting", "answered", "cancelled"}]
      /\ cache' \in [Links -> {"unknown", "meta", "failed"}]
      /\ \A s \in Requests : request'[s] = "waiting" <=> request[s] = "waiting" /\ s # r
  BY <1>1 DEF PreviewTypeOK
<1>4. \A g \in Fetches : Live(fetch', g) <=> Live(fetch, g)
  BY <1>2 DEF Live
<1>5. \A g \in Fetches : fetch'[g].consumers = fetch[g].consumers \ {r}
  <2>1. \A g \in Fetches : g # f => r \notin fetch[g].consumers
    BY <1>1 DEF Shares
  <2> QED BY <1>2, <2>1
<1>6. \A g \in Fetches : fetch[g].consumers # {} => fetch'[g].consumers # {}
  <2>1. fetch[f].consumers \ {r} # {}
    OBVIOUS
  <2> QED BY <1>2, <2>1
<1>7. Shares(fetch', inFlight', request')
  <2>1. \A g \in Fetches : ~Live(fetch', g) => fetch'[g].consumers = {}
    BY <1>1, <1>4, <1>5 DEF Shares
  <2>2. \A g, h \in Fetches : fetch'[g].consumers \cap fetch'[h].consumers # {} => g = h
    BY <1>1, <1>5 DEF Shares
  <2>3. \A l \in Links : inFlight[l] # NoFetch =>
          Live(fetch', inFlight[l]) /\ fetch'[inFlight[l]].link = l
    <3> SUFFICES ASSUME NEW l \in Links, inFlight[l] # NoFetch
                 PROVE  Live(fetch', inFlight[l]) /\ fetch'[inFlight[l]].link = l
      OBVIOUS
    <3>1. Live(fetch, inFlight[l]) /\ fetch[inFlight[l]].link = l /\ inFlight[l] \in Fetches
      BY <1>1 DEF Shares, PreviewTypeOK
    <3> QED BY <1>2, <1>4, <3>1
  <2>4. \A g \in Fetches : Live(fetch', g) /\ ~fetch'[g].aborted =>
          inFlight[fetch'[g].link] = g /\ fetch'[g].consumers # {}
    BY <1>1, <1>2, <1>4, <1>6 DEF Shares
  <2>5. \A s \in Requests : request'[s] = "waiting" <=>
          \E g \in Fetches : Live(fetch', g) /\ s \in fetch'[g].consumers
    <3>1. \A s \in Requests, g \in Fetches : s \in fetch'[g].consumers <=>
                                             s \in fetch[g].consumers /\ s # r
      BY <1>5
    <3>2. \A s \in Requests : request[s] = "waiting" <=>
            \E g \in Fetches : Live(fetch, g) /\ s \in fetch[g].consumers
      BY <1>1 DEF Shares
    <3> QED BY <1>3, <1>4, <3>1, <3>2
  <2> QED BY ZenonT(30), <1>3, <2>1, <2>2, <2>3, <2>4, <2>5 DEF Shares
<1> QED BY <1>2, <1>3, <1>7, Aside

LEMMA CancelMessageStep ==
  ASSUME PreviewInv, NEW r \in Requests, CancelMessage(r)
  PROVE  PreviewInv'
<1>1. PreviewTypeOK /\ Shares(fetch, inFlight, request)
  BY DEF PreviewInv
<1>2. PICK f \in Fetches :
        LET q == Dispatch(Take(Queue, fetch[f].author, f)) IN
        /\ r \in fetch[f].consumers
        /\ request' = [request EXCEPT ![r] = "cancelled"]
        /\ \/ /\ fetch[f].consumers # {r}
              /\ fetch' = [fetch EXCEPT ![f].consumers = @ \ {r}]
              /\ UNCHANGED inFlight /\ QueueUnchanged
           \/ /\ fetch[f].consumers = {r} /\ fetch[f].status = "queued"
              /\ fetch' = Started(Settled(f), q)
              /\ inFlight' = Forget(f)
              /\ Becomes(q)
           \/ /\ fetch[f].consumers = {r} /\ fetch[f].status = "running"
              /\ fetch' = [fetch EXCEPT ![f].consumers = {}, ![f].aborted = TRUE]
              /\ inFlight' = Forget(f)
              /\ QueueUnchanged
        /\ UNCHANGED cache
  BY DEF CancelMessage
<1>3. PICK p : p = Take(Queue, fetch[f].author, f)
  OBVIOUS
<1>4. /\ request' \in [Requests -> {"new", "waiting", "answered", "cancelled"}]
      /\ cache' \in [Links -> {"unknown", "meta", "failed"}]
      /\ \A s \in Requests : request'[s] = "waiting" <=> request[s] = "waiting" /\ s # r
  BY <1>1, <1>2 DEF PreviewTypeOK
<1>5. CASE fetch[f].consumers # {r}
  BY <1>2, <1>5, OneOfMany
<1>6. CASE fetch[f].consumers = {r} /\ fetch[f].status = "queued"
  <2>1. PICK G : G = Settled(f)
    OBVIOUS
  <2>2. fetch' = Started(G, Dispatch(p)) /\ Becomes(Dispatch(p)) /\ inFlight' = Forget(f)
    BY <1>2, <1>3, <1>6, <2>1
  <2>3. /\ G \in [Fetches -> FetchSet] /\ G[f].status = "settled" /\ G[f].consumers = {}
        /\ \A g \in Fetches : g # f => G[g] = fetch[g]
    BY <2>1, SettledFields
  <2>4. Shares(G, Forget(f), request') /\ Forget(f) \in [Links -> Fetches \cup {NoFetch}]
    <3>1. Live(fetch, f) /\ ~Live(G, f)
      BY <1>6, <2>3 DEF Live
    <3>2. \A s \in Requests :
            request'[s] = "waiting" <=> request[s] = "waiting" /\ s \notin fetch[f].consumers
      BY <1>4, <1>6
    <3> QED BY <2>3, <3>1, <3>2, Left
  <2>5. Fits(p, G) /\ Within(p) /\ ServedBut(p, fetch[f].author) /\ p.started = {}
        /\ fetch[f].author \in Authors
    BY <1>3, <1>6, <2>1, TakenOut
  <2> QED BY <1>4, <2>2, <2>3, <2>4, <2>5, Round
<1>7. CASE fetch[f].consumers = {r} /\ fetch[f].status = "running"
  <2>1. PICK G : G = [fetch EXCEPT ![f].consumers = {}, ![f].aborted = TRUE]
    OBVIOUS
  <2>2. fetch' = G /\ QueueUnchanged /\ inFlight' = Forget(f)
    BY <1>2, <1>7, <2>1
  <2>3. /\ G \in [Fetches -> FetchSet] /\ G[f].consumers = {} /\ G[f].aborted
        /\ \A g \in Fetches : g # f => G[g] = fetch[g]
        /\ \A g \in Fetches : G[g].status = fetch[g].status /\ G[g].author = fetch[g].author
    <3>1. fetch \in [Fetches -> FetchSet]
      BY <1>1 DEF PreviewTypeOK, FetchSet
    <3>2. G \in [Fetches -> FetchSet]
      BY <2>1, <3>1 DEF FetchSet
    <3>3. /\ G[f] = [fetch[f] EXCEPT !.consumers = {}, !.aborted = TRUE]
          /\ \A g \in Fetches : g # f => G[g] = fetch[g]
      BY <2>1, <3>1
    <3>4. /\ G[f].consumers = {} /\ G[f].aborted
          /\ G[f].status = fetch[f].status /\ G[f].author = fetch[f].author
      BY <3>1, <3>3 DEF FetchSet
    <3> QED BY <3>2, <3>3, <3>4
  <2>4. Shares(G, Forget(f), request') /\ Forget(f) \in [Links -> Fetches \cup {NoFetch}]
    <3>1. Live(fetch, f)
      BY <1>7 DEF Live
    <3>2. \A s \in Requests :
            request'[s] = "waiting" <=> request[s] = "waiting" /\ s \notin fetch[f].consumers
      BY <1>4, <1>7
    <3> QED BY <2>3, <3>1, <3>2, Left
  <2> QED BY <1>4, <2>2, <2>3, <2>4, Aside
<1>8. fetch[f].status \in {"queued", "running"}
  BY <1>1, <1>2 DEF Shares, Live
<1> QED BY <1>5, <1>6, <1>7, <1>8

LEMMA CacheExpiresStep ==
  ASSUME PreviewInv, NEW l \in Links, CacheExpires(l)
  PROVE  PreviewInv'
<1>1. /\ fetch' \in [Fetches -> FetchSet] /\ inFlight' \in [Links -> Fetches \cup {NoFetch}]
      /\ request' \in [Requests -> {"new", "waiting", "answered", "cancelled"}]
      /\ cache' \in [Links -> {"unknown", "meta", "failed"}]
      /\ QueueUnchanged /\ fetch' = fetch
  BY DEF CacheExpires, PreviewInv, PreviewTypeOK, FetchSet
<1>2. Shares(fetch', inFlight', request')
  BY DEF CacheExpires, PreviewInv
<1> QED BY <1>1, <1>2, Aside

LEMMA PreviewStarts ==
  ASSUME PreviewInit
  PROVE  PreviewInv
<1>1. PreviewTypeOK
  <2>1. (CHOOSE l \in Links : TRUE) \in Links /\ (CHOOSE a \in Authors : TRUE) \in Authors
    BY PreviewAssumption
  <2>2. ring \in Seq(Authors) /\ \A a \in Authors : group[a] \in Seq(Fetches)
    BY DEF PreviewInit
  <2> QED BY <2>1, <2>2 DEF PreviewInit, PreviewTypeOK
<1>2. \A f \in Fetches : /\ fetch[f].status = "unused" /\ fetch[f].consumers = {}
                         /\ fetch[f].aborted = FALSE
  BY DEF PreviewInit
<1>3. /\ In(fetch, "running") = {} /\ In(fetch, "queued") = {}
      /\ \A a \in Authors : Of(fetch, "running", a) = {} /\ Of(fetch, "queued", a) = {}
  BY <1>2 DEF In, Of
<1>4. PICK q : q = Queue
  OBVIOUS
<1>5. /\ q \in QueueSet /\ q.ring = <<>> /\ q.slots = 0 /\ q.queued = 0
      /\ \A a \in Authors : q.group[a] = <<>> /\ q.perAuthor[a] = 0
  BY <1>1, <1>4 DEF Queue, QueueSet, PreviewInit, PreviewTypeOK
<1>6. ToSet(<<>>) = {} /\ IsInjective(<<>>) /\ Len(<<>>) = 0
  BY DEF ToSet, IsInjective
<1>7. Fits(q, fetch)
  BY <1>3, <1>5, <1>6, FS_EmptySet DEF Fits
<1>8. Within(q) /\ Served(q)
  <2>1. MaxActive >= 0 /\ MaxQueued >= 0 /\ MaxPerAuthor >= 0 /\ MaxGroup >= 0
    BY PreviewAssumption
  <2> QED BY <1>5, <1>6, <2>1 DEF Within, Served
<1>9. Shares(fetch, inFlight, request)
  BY <1>2 DEF Shares, Live, PreviewInit
<1> QED BY <1>1, <1>4, <1>7, <1>8, <1>9 DEF PreviewInv

LEMMA PreviewInvariant == PreviewSpec => []PreviewInv
<1>1. PreviewInit => PreviewInv
  BY PreviewStarts
<1>2. PreviewInv /\ [PreviewNext]_previewVars => PreviewInv'
  <2> SUFFICES ASSUME PreviewInv, [PreviewNext]_previewVars PROVE PreviewInv'
    OBVIOUS
  <2>1. ASSUME NEW r \in Requests, AskCached(r) \/ Refuse(r) PROVE PreviewInv'
    BY <2>1, AnsweredStep DEF AskCached, Refuse
  <2>2. ASSUME NEW r \in Requests, Attach(r) PROVE PreviewInv'
    BY <2>2, AttachStep
  <2>3. ASSUME NEW r \in Requests, Ask(r) PROVE PreviewInv'
    BY <2>3, AskStep
  <2>4. ASSUME NEW r \in Requests, CancelMessage(r) PROVE PreviewInv'
    BY <2>4, CancelMessageStep
  <2>5. ASSUME NEW f \in Fetches, QueueDeadline(f) PROVE PreviewInv'
    BY <2>5, QueueDeadlineStep
  <2>6. ASSUME NEW f \in Fetches, FetchDeadline(f) PROVE PreviewInv'
    BY <2>6, FetchDeadlineStep
  <2>7. ASSUME NEW f \in Fetches, NEW result \in {"meta", "failed"}, FetchEnds(f, result)
        PROVE  PreviewInv'
    BY <2>7, FetchEndsStep
  <2>8. ASSUME NEW l \in Links, CacheExpires(l) PROVE PreviewInv'
    BY <2>8, CacheExpiresStep
  <2>9. CASE UNCHANGED previewVars
    <3>1. QueueUnchanged /\ UNCHANGED <<request, fetch, inFlight, cache>>
      BY <2>9 DEF previewVars, QueueUnchanged
    <3>2. PreviewTypeOK /\ Shares(fetch, inFlight, request)
      BY DEF PreviewInv
    <3>3. /\ fetch' \in [Fetches -> FetchSet] /\ inFlight' \in [Links -> Fetches \cup {NoFetch}]
          /\ request' \in [Requests -> {"new", "waiting", "answered", "cancelled"}]
          /\ cache' \in [Links -> {"unknown", "meta", "failed"}]
      BY <3>1, <3>2 DEF PreviewTypeOK, FetchSet
    <3>4. Shares(fetch', inFlight', request') /\ fetch' = fetch
      BY <3>1, <3>2
    <3> QED BY <3>1, <3>3, <3>4, Aside
  <2> QED BY <2>1, <2>2, <2>3, <2>4, <2>5, <2>6, <2>7, <2>8, <2>9 DEF PreviewNext
<1> QED BY <1>1, <1>2, PTL DEF PreviewSpec

LEMMA LineCounts ==
  ASSUME NEW S, NEW s \in Seq(S), IsInjective(s)
  PROVE  /\ Len(s) = Cardinality(ToSet(s))
         /\ \A e \in S : Cardinality({i \in DOMAIN s : s[i] = e}) = IF e \in ToSet(s) THEN 1 ELSE 0
<1>1. DOMAIN s = 1..Len(s) /\ Len(s) \in Nat /\ s \in [1..Len(s) -> S]
  OBVIOUS
<1>2. s \in Bijection(1..Len(s), ToSet(s))
  <2>1. s \in [1..Len(s) -> ToSet(s)]
    BY <1>1 DEF ToSet
  <2>2. \A i, j \in 1..Len(s) : s[i] = s[j] => i = j
    BY <1>1 DEF IsInjective
  <2>3. \A t \in ToSet(s) : \E i \in 1..Len(s) : s[i] = t
    BY <1>1 DEF ToSet
  <2> QED BY <2>1, <2>2, <2>3, Fun_IsBij
<1>3. Cardinality(ToSet(s)) = Len(s)
  BY <1>1, <1>2, FS_CountingElements DEF ExistsBijection
<1>4. ASSUME NEW e \in S
      PROVE  Cardinality({i \in DOMAIN s : s[i] = e}) = IF e \in ToSet(s) THEN 1 ELSE 0
  <2>1. CASE e \in ToSet(s)
    <3>1. PICK k \in DOMAIN s : s[k] = e
      BY <2>1 DEF ToSet
    <3>2. {i \in DOMAIN s : s[i] = e} = {k}
      BY <1>1, <3>1 DEF IsInjective
    <3> QED BY <2>1, <3>2, FS_Singleton
  <2>2. CASE e \notin ToSet(s)
    <3>1. {i \in DOMAIN s : s[i] = e} = {}
      BY <1>1, <2>2 DEF ToSet
    <3> QED BY <2>2, <3>1, FS_EmptySet
  <2> QED BY <2>1, <2>2
<1> QED BY <1>3, <1>4

\* The counters of the preview queue are what they count and within their limits, no
\* slot is free while a fetch that may start waits, and every waiting request is a
\* consumer of the one fetch of its link (preview-work-queue.ts:15-81,
\* link-preview.service.ts:204-255).
THEOREM PreviewFetchesExact == PreviewSpec => []FetchesAreExact
<1>1. PreviewInv => FetchesAreExact
  <2> SUFFICES ASSUME PreviewInv PROVE QueueCountsExact /\ SharedFetch
    BY DEF FetchesAreExact
  <2>1. PICK q : q = Queue
    OBVIOUS
  <2>2. /\ q.ring = ring /\ q.group = group /\ q.slots = slots /\ q.perAuthor = perAuthor
        /\ q.queued = queued
    BY <2>1 DEF Queue
  <2>3. Fits(q, fetch) /\ Within(q) /\ Served(q) /\ Shares(fetch, inFlight, request)
    BY <2>1 DEF PreviewInv
  <2>4. /\ ring \in Seq(Authors) /\ \A a \in Authors : group[a] \in Seq(Fetches)
    BY DEF PreviewInv, PreviewTypeOK
  <2>5. /\ In(fetch, "running") = Running /\ In(fetch, "queued") = Queued
        /\ \A a \in Authors : /\ Of(fetch, "running", a) = {f \in Running : fetch[f].author = a}
                              /\ Of(fetch, "queued", a) = {f \in Queued : fetch[f].author = a}
    BY DEF In, Of, Running, Queued
  <2>6. \A a \in Authors :
          /\ Len(group[a]) = Cardinality(ToSet(group[a]))
          /\ Cardinality({i \in DOMAIN ring : ring[i] = a}) = IF group[a] = <<>> THEN 0 ELSE 1
    <3> SUFFICES ASSUME NEW a \in Authors
                 PROVE  /\ Len(group[a]) = Cardinality(ToSet(group[a]))
                        /\ Cardinality({i \in DOMAIN ring : ring[i] = a}) =
                             IF group[a] = <<>> THEN 0 ELSE 1
      OBVIOUS
    <3>1. IsInjective(group[a]) /\ IsInjective(ring) /\ (a \in ToSet(ring) <=> group[a] # <<>>)
      BY <2>2, <2>3 DEF Fits
    <3>2. Len(group[a]) = Cardinality(ToSet(group[a]))
      BY <2>4, <3>1, LineCounts
    <3>3. Cardinality({i \in DOMAIN ring : ring[i] = a}) = IF a \in ToSet(ring) THEN 1 ELSE 0
      BY <2>4, <3>1, LineCounts
    <3> QED BY <3>1, <3>2, <3>3
  <2>7. QueueCountsExact
    BY <2>2, <2>3, <2>5, <2>6 DEF QueueCountsExact, Fits, Within, Served, MayStart
  <2>8. SharedFetch
    BY <2>3 DEF Shares, Live, SharedFetch, Running, Queued
  <2> QED BY <2>7, <2>8
<1> QED BY <1>1, PreviewInvariant, PTL
=============================================================================
