---------------------------- MODULE ServicesProofs ----------------------------
(***************************************************************************)
(* The eight services in one instance are the eight services: what is      *)
(* proved of each alone holds of MCServices, whatever its constants are.   *)
(* The services share no variable, so a step of the one in focus stutters  *)
(* in the others.                                                          *)
(***************************************************************************)
EXTENDS MCServices, WorkProofs, ReadingProofs, GatewayProofs, SignInProofs

\* What ServicesNext does while one service is in focus.
LEMMA OneRuns ==
  ASSUME ServicesNext /\ UNCHANGED focus
  PROVE  /\ PresenceNext \/ UNCHANGED presenceVars
         /\ ActivityNext \/ UNCHANGED activityVars
         /\ PreviewNext \/ UNCHANGED previewVars
         /\ UploadNext \/ UNCHANGED uploadVars
         /\ ReadNext \/ UNCHANGED readVars
         /\ CatchUpNext \/ UNCHANGED catchUpVars
         /\ WatchNext \/ UNCHANGED watchVars
         /\ SignInNext \/ UNCHANGED signInVars
BY DEF ServicesNext

\* A behaviour of the instance is one of every service: the run that checks the services
\* together explores nothing that the code of one of them could not do by itself.
THEOREM ServicesAreServices ==
  ServicesSpec => /\ PresenceSpec /\ ActivitySpec /\ PreviewSpec /\ UploadSpec
                  /\ ReadSpec /\ CatchUpSpec /\ WatchSpec /\ SignInSpec
<1>1. ServicesInit => /\ PresenceInit /\ ActivityInit /\ PreviewInit /\ UploadInit
                      /\ ReadInit /\ CatchUpInit /\ WatchInit /\ SignInInit
  BY DEF ServicesInit
<1>2. [ServicesNext /\ UNCHANGED focus]_servicesVars
        => /\ [PresenceNext]_presenceVars /\ [ActivityNext]_activityVars
           /\ [PreviewNext]_previewVars /\ [UploadNext]_uploadVars
           /\ [ReadNext]_readVars /\ [CatchUpNext]_catchUpVars
           /\ [WatchNext]_watchVars /\ [SignInNext]_signInVars
  BY OneRuns DEF servicesVars
<1> QED
  BY <1>1, <1>2, PTL
  DEF ServicesSpec, PresenceSpec, ActivitySpec, PreviewSpec, UploadSpec, ReadSpec,
      CatchUpSpec, WatchSpec, SignInSpec

\* The service that runs keeps its types: no counter of connections, fetches or jobs
\* leaves the numbers, and no request, task or flow is at a place its code does not have.
THEOREM ServicesTyped == ServicesSpec => []ServicesTypeOK
<1>1. PresenceSpec => []PresenceTypeOK
  <2>1. PresenceInv => PresenceTypeOK
    BY DEF PresenceInv
  <2> QED BY <2>1, PresenceInvariant, PTL
<1>2. ActivitySpec => []ActivityTypeOK
  <2>1. ActivityInv => ActivityTypeOK
    BY DEF ActivityInv
  <2> QED BY <2>1, ActivityInvariant, PTL
<1>3. PreviewSpec => []PreviewTypeOK
  <2>1. PreviewInv => PreviewTypeOK
    BY DEF PreviewInv
  <2> QED BY <2>1, PreviewInvariant, PTL
<1>4. UploadSpec => []UploadTypeOK
  <2>1. UploadInv => UploadTypeOK
    BY DEF UploadInv
  <2> QED BY <2>1, UploadInvariant, PTL
<1>5. ReadSpec => []ReadTypeOK
  <2>1. ReadInv => ReadTypeOK
    BY DEF ReadInv
  <2> QED BY <2>1, ReadInvariant, PTL
<1>6. CatchUpSpec => []CatchUpTypeOK
  <2>1. CatchUpInv => CatchUpTypeOK
    BY DEF CatchUpInv
  <2> QED BY <2>1, CatchUpInvariant, PTL
<1>7. WatchSpec => []WatchTypeOK
  <2>1. WatchInv => WatchTypeOK
    BY DEF WatchInv
  <2> QED BY <2>1, WatchInvariant, PTL
<1>8. SignInSpec => []SignInTypeOK
  <2>1. SignInInv => SignInTypeOK
    BY DEF SignInInv
  <2> QED BY <2>1, SignInInvariant, PTL
<1>9. PresenceTypeOK /\ ActivityTypeOK /\ PreviewTypeOK /\ UploadTypeOK
        /\ ReadTypeOK /\ CatchUpTypeOK /\ WatchTypeOK /\ SignInTypeOK => ServicesTypeOK
  BY DEF ServicesTypeOK
<1> QED
  BY <1>1, <1>2, <1>3, <1>4, <1>5, <1>6, <1>7, <1>8, <1>9, ServicesAreServices, PTL

\* Every safety and action property that is checked of the services holds of the instance:
\* presence, privacy, the limits of work, what is unread, the catch-up session, the rooms
\* of a socket and the account of a window.
COROLLARY ServicesSafe ==
  ServicesSpec =>
    /\ [](CountIsExact /\ ConnectedIsOnline /\ ToldTheTruth /\ PrivacyHolds)
    /\ [](FetchesAreExact /\ LimitersExact /\ FilesAreKnown /\ UnreadIsKept)
    /\ [](OneDecisionPerClick /\ RoomsSettle /\ OneAccount)
    /\ ViewMovesForward /\ StaysSignedIn
BY ServicesAreServices, PresenceCountsExactly, PresenceConnectedIsOnline, PresenceToldTheTruth,
   ActivityIsPrivate, PreviewFetchesExact, UploadLimitersExact, UploadFilesAreKnown,
   UnreadStays, DecidesOnce, ViewsMoveForward, SubscriptionsSettle, OneAccountAtATime,
   OnlyUserSignsOut, PTL
===============================================================================
