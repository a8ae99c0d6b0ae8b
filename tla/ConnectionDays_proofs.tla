----------------------- MODULE ConnectionDays_proofs -----------------------
(***************************************************************************)
(* Proofs about ConnectionDays, for any number of connections, listings,   *)
(* items and handlers in progress, and for every schedule; and about       *)
(* Marketplace, in which its handlers run with those of ListingClaims.     *)
(***************************************************************************)
EXTENDS Marketplace, ListingClaims_proofs, FiniteSetTheorems, TLAPS

allVars == <<storeVars, daysVars>>

-----------------------------------------------------------------------------
(* What a handler in progress holds, by its kind. *)
LEMMA DayRequestShape ==
    ASSUME NEW r \in DayRequest
    PROVE  /\ r.op \in {"open", "prompt", "push", "clear"} => r \in PromptReq
           /\ r.op \in {"surplus", "noSurplus"} => r \in AnswerReq
           /\ r.op = "release" => r \in ReleaseReq
           /\ r.op \in {"target", "move"} => r \in MoveReq
           /\ r.op = "sweep" => r \in SweepReq
           /\ r.op = "close" => r \in CloseReq
           /\ r.op = "missed" => r \in MissedReq
           /\ r.op \in {"remind", "unremind", "tell"} => r \in RemindReq
BY DEF DayRequest, DayIdle, PromptReq, AnswerReq, ReleaseReq, MoveReq, SweepReq,
       CloseReq, MissedReq, RemindReq

LEMMA KgInt ==
    ASSUME NEW f
    PROVE  Kg(f) \in Int
BY DEF Kg

LEMMA DaysTypeInit == DaysInit => DaysTypeOK
<1>1. StoreInit => StoreTypeOK
  BY StoreAssumption DEF StoreInit, TablesInit, StoreTypeOK, NoListing, ListingRow, ItemRow,
     NoClaim, ClaimRow, NoPickup, PickupRow, NoDay, DayRow, ListingStatus, ListingTypes,
     ListingReleaseReason, ClaimStatus, DriverPickupStatus, ConnectionDayOutcome, Slots
<1>2. DaysInit => /\ StoreInit
                  /\ now \in Nat
                  /\ collecting \in [Days -> BOOLEAN]
                  /\ info \in [Days -> DayInfo]
                  /\ window \in [Listings -> Days \cup {Null}]
                  /\ creq \in [Slots -> DayRequest]
  BY DEF DaysInit, NoInfo, DayInfo, DayRequest
<1> QED
  BY <1>1, <1>2 DEF DaysTypeOK

-----------------------------------------------------------------------------
(* Steps of a handler that change no table. *)
LEMMA HandlerType ==
    ASSUME DaysTypeOK, OnlyHandler, NEW s \in Slots, NEW r \in DayRequest,
           creq' = [creq EXCEPT ![s] = r]
    PROVE  DaysTypeOK'
BY DEF DaysTypeOK, StoreTypeOK, OnlyHandler, storeVars

(* Steps of a handler that change connection_days. *)
LEMMA DaysOnlyType ==
    ASSUME DaysTypeOK, OnlyDays, NEW s \in Slots, NEW r \in DayRequest,
           creq' = [creq EXCEPT ![s] = r],
           day' \in [Days -> DayRow], info' \in [Days -> DayInfo]
    PROVE  DaysTypeOK'
BY DEF DaysTypeOK, StoreTypeOK, OnlyDays

(* Steps of a handler that change connection_days and food_listings. *)
LEMMA ListingOnlyType ==
    ASSUME DaysTypeOK, OnlyListing, NEW s \in Slots, NEW r \in DayRequest,
           creq' = [creq EXCEPT ![s] = r],
           listing' \in [Listings -> ListingRow],
           window' \in [Listings -> Days \cup {Null}],
           day' \in [Days -> DayRow], info' \in [Days -> DayInfo]
    PROVE  DaysTypeOK'
BY DEF DaysTypeOK, StoreTypeOK, OnlyListing

LEMMA IdleType == DayIdle \in DayRequest
BY DEF DayRequest

LEMMA MissedType ==
    ASSUME NEW days \in SUBSET Days
    PROVE  Missed(days) \in DayRequest
BY DEF Missed, DayRequest, MissedReq

LEMMA OpenRowType ==
    ASSUME DaysTypeOK, NEW d \in Days
    PROVE  OpenRow(d) \in [Days -> DayRow]
BY SMTT(60) DEF OpenRow, DaysTypeOK, StoreTypeOK, DayRow, ConnectionDayOutcome

(* Setting a flag or a column of a row keeps its type. *)
LEMMA InfoFlagType ==
    ASSUME DaysTypeOK, NEW d \in Days, NEW b \in BOOLEAN
    PROVE  /\ [info EXCEPT ![d].prompted = b] \in [Days -> DayInfo]
           /\ [info EXCEPT ![d].late = b] \in [Days -> DayInfo]
           /\ [info EXCEPT ![d].responded = b] \in [Days -> DayInfo]
           /\ [info EXCEPT ![d].told = b] \in [Days -> DayInfo]
           /\ [info EXCEPT ![d].responded = b, ![d].reminded = b] \in [Days -> DayInfo]
<1>1. info \in [Days -> DayInfo]
  BY DEF DaysTypeOK
<1>2. /\ [info[d] EXCEPT !.prompted = b] \in DayInfo
      /\ [info[d] EXCEPT !.late = b] \in DayInfo
      /\ [info[d] EXCEPT !.responded = b] \in DayInfo
      /\ [info[d] EXCEPT !.told = b] \in DayInfo
      /\ [info[d] EXCEPT !.responded = b, !.reminded = b] \in DayInfo
  BY <1>1 DEF DayInfo
<1> QED
  BY <1>1, <1>2

LEMMA ListingRowType ==
    ASSUME NEW row \in ListingRow, NEW b \in BOOLEAN, NEW o \in Orgs,
           NEW reason \in ListingReleaseReason
    PROVE  /\ [row EXCEPT !.released = reason, !.due = b] \in ListingRow
           /\ [row EXCEPT !.exclusiveTo = o, !.released = "NO", !.due = b] \in ListingRow
BY DEF ListingRow

LEMMA OutcomeType ==
    ASSUME DaysTypeOK, NEW d \in Days, NEW o \in ConnectionDayOutcome
    PROVE  [day EXCEPT ![d].outcome = o] \in [Days -> DayRow]
BY SMTT(60) DEF DaysTypeOK, StoreTypeOK, DayRow

-----------------------------------------------------------------------------
(* The clock and the connections. *)
LEMMA EnvironmentType ==
    ASSUME DaysTypeOK, Tick \/ \E d \in Days : ConnectionChanges(d)
    PROVE  DaysTypeOK'
<1>1. CASE Tick
  <2>1. listing' \in [Listings -> ListingRow]
    <3>1. \A l \in Listings : [listing[l] EXCEPT !.due = TRUE] \in ListingRow
      BY ZenonT(60) DEF DaysTypeOK, StoreTypeOK, ListingRow
    <3>2. \A l \in Listings : listing[l] \in ListingRow
      BY DEF DaysTypeOK, StoreTypeOK
    <3> QED
      BY <1>1, <3>1, <3>2 DEF Tick
  <2>2. now' \in Nat
    BY <1>1 DEF Tick, DaysTypeOK
  <2> QED
    BY <1>1, <2>1, <2>2 DEF Tick, DaysTypeOK, StoreTypeOK
<1>2. ASSUME NEW d \in Days, ConnectionChanges(d)
      PROVE  DaysTypeOK'
  BY <1>2 DEF ConnectionChanges, DaysTypeOK, StoreTypeOK, storeVars
<1> QED
  BY <1>1, <1>2

(* The prompt. *)
LEMMA PromptType ==
    ASSUME DaysTypeOK, NEW s \in Slots, NEW d \in Days,
           \/ PromptStart(s, d) \/ OpenDay(s) \/ ClaimPrompt(s)
           \/ PushPrompt(s) \/ ClearPrompt(s)
    PROVE  DaysTypeOK'
<1>a. /\ creq \in [Slots -> DayRequest] /\ info \in [Days -> DayInfo]
      /\ day \in [Days -> DayRow]
  BY DEF DaysTypeOK, StoreTypeOK
<1>b. \A e \in Days, op \in {"open", "prompt", "push", "clear"} :
        [op |-> op, day |-> e] \in DayRequest
  BY DEF DayRequest, PromptReq
<1>1. CASE PromptStart(s, d)
  BY <1>1, <1>b, HandlerType DEF PromptStart, Enter
<1>2. CASE OpenDay(s)
  <2>1. creq[s].day \in Days
    BY <1>2, <1>a, DayRequestShape DEF OpenDay, PromptReq
  <2> QED
    BY <1>2, <1>a, <1>b, <2>1, OpenRowType, DaysOnlyType DEF OpenDay, Go
<1>3. CASE ClaimPrompt(s)
  <2>1. creq[s].day \in Days
    BY <1>3, <1>a, DayRequestShape DEF ClaimPrompt, PromptReq
  <2>2. CASE MayPrompt(creq[s].day)
    <3>a. info' = [info EXCEPT ![creq[s].day].prompted = TRUE] /\ day' = day /\ OnlyDays
      BY <1>3, <2>2 DEF ClaimPrompt
    <3>1. info' \in [Days -> DayInfo] /\ day' \in [Days -> DayRow] /\ OnlyDays
      BY <1>a, <2>1, <3>a, InfoFlagType
    <3>2. creq' = [creq EXCEPT ![s] = [op |-> "push", day |-> creq[s].day]]
      BY <1>3, <2>2 DEF ClaimPrompt, Go
    <3> QED
      BY <1>b, <2>1, <3>1, <3>2, DaysOnlyType
  <2>3. CASE ~MayPrompt(creq[s].day)
    BY <1>3, <1>a, <2>3, IdleType, DaysOnlyType DEF ClaimPrompt, Go, Leave
  <2> QED
    BY <2>2, <2>3
<1>4. CASE PushPrompt(s)
  <2>1. creq[s].day \in Days
    BY <1>4, <1>a, DayRequestShape DEF PushPrompt, PromptReq
  <2>2. info' \in [Days -> DayInfo]
    BY <1>4, <1>a, <2>1 DEF PushPrompt, DayInfo
  <2> QED
    BY <1>4, <1>a, <1>b, <2>1, <2>2, IdleType, DaysOnlyType DEF PushPrompt, Go, Leave
<1>5. CASE ClearPrompt(s)
  <2>1. creq[s].day \in Days
    BY <1>5, <1>a, DayRequestShape DEF ClearPrompt, PromptReq
  <2>2. info' \in [Days -> DayInfo]
    BY <1>5, <2>1, InfoFlagType DEF ClearPrompt
  <2> QED
    BY <1>5, <1>a, <2>2, IdleType, DaysOnlyType DEF ClearPrompt, Go, Leave
<1> QED
  BY <1>1, <1>2, <1>3, <1>4, <1>5

LEMMA RecoverPushType ==
    ASSUME DaysTypeOK, NEW d \in Days, RecoverPush(d)
    PROVE  DaysTypeOK'
<1>1. info' \in [Days -> DayInfo]
  BY DEF RecoverPush, DayInfo, DaysTypeOK
<1> QED
  BY <1>1 DEF RecoverPush, DaysTypeOK, StoreTypeOK, OnlyDays

(* The answers of the business. *)
LEMMA AnswerReadType ==
    ASSUME DaysTypeOK, NEW s \in Slots, NEW d \in Days,
           SurplusRead(s, d) \/ NoSurplusRead(s, d)
    PROVE  DaysTypeOK'
<1>1. \A op \in {"surplus", "noSurplus"} : [op |-> op, day |-> d] \in DayRequest
  BY DEF DayRequest, AnswerReq
<1> QED
  BY <1>1, HandlerType DEF SurplusRead, NoSurplusRead, Enter

LEMMA SurplusWriteType ==
    ASSUME DaysTypeOK, NEW s \in Slots, NEW l \in Listings, NEW qty \in Surplus,
           SurplusWrite(s, l, qty)
    PROVE  DaysTypeOK'
<1>a. /\ creq \in [Slots -> DayRequest] /\ info \in [Days -> DayInfo]
      /\ day \in [Days -> DayRow] /\ now \in Nat
  BY DEF DaysTypeOK, StoreTypeOK
<1> DEFINE e == creq[s].day
<1>1. e \in Days
  BY <1>a, DayRequestShape DEF SurplusWrite, AnswerReq
<1>2. Receiver[e] \in Orgs /\ Donor \in Orgs /\ Schedule[e].end \in Nat
        /\ Schedule[e].cutoff \in Nat
  BY <1>1, DaysAssumption
<1>3. listing' \in [Listings -> ListingRow]
  <2> DEFINE row == [NoListing EXCEPT !.status = "ACTIVE", !.org = Donor,
                                      !.total = Kg(qty), !.remaining = Kg(qty),
                                      !.exclusiveTo = Receiver[e],
                                      !.due = now >= Schedule[e].end]
  <2>1. (now >= Schedule[e].end) \in BOOLEAN
    BY <1>a, <1>2
  <2>2. row \in ListingRow
    BY <1>2, <2>1, KgInt DEF NoListing, ListingRow, ListingStatus, ListingTypes
  <2> QED
    BY <2>2 DEF SurplusWrite, DaysTypeOK, StoreTypeOK
<1>4. stock' \in [Listings -> [Items -> ItemRow]]
  BY DaysAssumption DEF SurplusWrite, ItemRow, DaysTypeOK, StoreTypeOK
<1>5. day' \in [Days -> DayRow]
  BY <1>a, <1>1 DEF SurplusWrite, DayRow, ConnectionDayOutcome
<1>6. info' \in [Days -> DayInfo]
  <2>1. (now >= Schedule[e].cutoff) \in BOOLEAN
    BY <1>a, <1>2
  <2> QED
    BY <1>1, <2>1, InfoFlagType DEF SurplusWrite
<1>7. window' \in [Listings -> Days \cup {Null}]
  BY <1>1 DEF SurplusWrite, DaysTypeOK
<1>8. creq' \in [Slots -> DayRequest]
  BY <1>a, IdleType DEF SurplusWrite, Leave, Go
<1> QED
  BY <1>3, <1>4, <1>5, <1>6, <1>7, <1>8 DEF SurplusWrite, DaysTypeOK, StoreTypeOK

LEMMA NoSurplusWriteType ==
    ASSUME DaysTypeOK, NEW s \in Slots,
           NoSurplusWrite(s)
    PROVE  DaysTypeOK'
<1>a. /\ creq \in [Slots -> DayRequest] /\ info \in [Days -> DayInfo]
      /\ day \in [Days -> DayRow] /\ now \in Nat
  BY DEF DaysTypeOK, StoreTypeOK
<1>1. creq[s].day \in Days
  BY <1>a, DayRequestShape DEF NoSurplusWrite, AnswerReq
<1>2. day' \in [Days -> DayRow] /\ info' \in [Days -> DayInfo]
  BY <1>1, InfoFlagType, OutcomeType DEF NoSurplusWrite, ConnectionDayOutcome
<1> QED
  BY <1>2, IdleType, DaysOnlyType DEF NoSurplusWrite, Leave, Go

(* Release and reassignment. *)
LEMMA ReleaseReadType ==
    ASSUME DaysTypeOK, NEW s \in Slots, NEW d \in Days, NEW fresh \in BOOLEAN,
           NEW trigger \in {"CHARITY_DECLINED", "BUSINESS_RELEASED"},
           ReleaseRead(s, d, trigger, fresh)
    PROVE  DaysTypeOK'
<1>a. /\ creq \in [Slots -> DayRequest] /\ info \in [Days -> DayInfo]
      /\ day \in [Days -> DayRow] /\ listing \in [Listings -> ListingRow]
  BY DEF DaysTypeOK, StoreTypeOK
<1>1. day[d].listing \in Listings
  BY <1>a DEF ReleaseRead, DayRow
<1>2. [op |-> "release", day |-> d, listing |-> day[d].listing,
       trigger |-> trigger, fresh |-> fresh, todo |-> {}] \in DayRequest
  BY <1>1 DEF DayRequest, ReleaseReq, ListingReleaseReason
<1> QED
  BY <1>2, HandlerType DEF ReleaseRead, Enter

LEMMA ReleaseWriteType ==
    ASSUME DaysTypeOK, NEW s \in Slots,
           ReleaseWrite(s)
    PROVE  DaysTypeOK'
<1>a. /\ creq \in [Slots -> DayRequest] /\ info \in [Days -> DayInfo]
      /\ day \in [Days -> DayRow] /\ listing \in [Listings -> ListingRow]
  BY DEF DaysTypeOK, StoreTypeOK
<1> DEFINE r == creq[s]
<1>1. r \in ReleaseReq
  BY <1>a, DayRequestShape DEF ReleaseWrite
<1>2. listing' \in [Listings -> ListingRow]
  <2> DEFINE b == listing[r.listing].due /\ ~r.fresh
  <2>1. listing' = [listing EXCEPT ![r.listing] =
                      [listing[r.listing] EXCEPT !.released = r.trigger, !.due = b]]
    BY DEF ReleaseWrite
  <2>2. b \in BOOLEAN
    OBVIOUS
  <2> HIDE DEF b
  <2>3. [listing[r.listing] EXCEPT !.released = r.trigger, !.due = b] \in ListingRow
    BY <1>a, <1>1, <2>2, DaysAssumption, ListingRowType DEF ReleaseReq
  <2> QED
    BY <1>a, <2>1, <2>3
<1>3. window' \in [Listings -> Days \cup {Null}]
  BY <1>1 DEF ReleaseWrite, DaysTypeOK, ReleaseReq
<1>4. day' \in [Days -> DayRow] /\ info' \in [Days -> DayInfo]
  BY <1>1, InfoFlagType, OutcomeType DEF ReleaseWrite, ReleaseReq, ConnectionDayOutcome
<1>5. [op |-> "sweep", todo |-> r.todo] \in DayRequest
  BY <1>1 DEF ReleaseReq, DayRequest, SweepReq
<1>6. \/ creq' = [creq EXCEPT ![s] = [op |-> "sweep", todo |-> r.todo]]
      \/ creq' = [creq EXCEPT ![s] = DayIdle]
  BY DEF ReleaseWrite, Go, Leave
<1>7. OnlyListing
  BY DEF ReleaseWrite
<1> QED
  BY <1>2, <1>3, <1>4, <1>5, <1>6, <1>7, IdleType, ListingOnlyType

LEMMA MoveType ==
    ASSUME DaysTypeOK, NEW s \in Slots, NEW from \in Days, NEW to \in Days,
           MoveRead(s, from, to) \/ MoveTarget(s) \/ MoveWrite(s)
    PROVE  DaysTypeOK'
<1>a. /\ creq \in [Slots -> DayRequest] /\ info \in [Days -> DayInfo]
      /\ day \in [Days -> DayRow] /\ listing \in [Listings -> ListingRow] /\ now \in Nat
  BY DEF DaysTypeOK, StoreTypeOK
<1>1. CASE MoveRead(s, from, to)
  <2>1. day[from].listing \in Listings
    BY <1>1, <1>a DEF MoveRead, DayRow
  <2>2. [op |-> "target", from |-> from, to |-> to, listing |-> day[from].listing] \in DayRequest
    BY <2>1 DEF DayRequest, MoveReq
  <2> QED
    BY <1>1, <2>2, HandlerType DEF MoveRead, Enter
<1>2. CASE MoveTarget(s)
  <2>1. creq[s] \in MoveReq
    BY <1>2, <1>a, DayRequestShape DEF MoveTarget
  <2>2. [creq[s] EXCEPT !.op = "move"] \in DayRequest
    BY <2>1 DEF MoveReq, DayRequest
  <2>3. \/ creq' = [creq EXCEPT ![s] = [creq[s] EXCEPT !.op = "move"]]
        \/ creq' = [creq EXCEPT ![s] = DayIdle]
    BY <1>2 DEF MoveTarget, Go, Leave
  <2>4. day' \in [Days -> DayRow] /\ info' = info /\ OnlyDays
    BY <1>2, <2>1, OpenRowType DEF MoveTarget, MoveReq
  <2> QED
    BY <1>a, <2>2, <2>3, <2>4, IdleType, DaysOnlyType
<1>3. CASE MoveWrite(s)
  <2> DEFINE r == creq[s]
  <2>1. r \in MoveReq /\ r.from \in Days /\ r.to \in Days /\ r.listing \in Listings
    BY <1>3, <1>a, DayRequestShape DEF MoveWrite, MoveReq
  <2>2. /\ Receiver[r.to] \in Orgs
        /\ (now >= Schedule[r.to].end) \in BOOLEAN
        /\ (now >= Schedule[r.to].cutoff) \in BOOLEAN
    BY <1>a, <2>1, DaysAssumption
  <2>3. listing' \in [Listings -> ListingRow]
    <3> DEFINE b == now >= Schedule[r.to].end
    <3>1. listing' = [listing EXCEPT ![r.listing] =
                        [listing[r.listing] EXCEPT !.exclusiveTo = Receiver[r.to],
                                                   !.released = "NO", !.due = b]]
      BY <1>3 DEF MoveWrite
    <3>2. b \in BOOLEAN
      BY <2>2
    <3> HIDE DEF b
    <3>3. [listing[r.listing] EXCEPT !.exclusiveTo = Receiver[r.to],
                                     !.released = "NO", !.due = b] \in ListingRow
      BY <1>a, <2>1, <2>2, <3>2, ListingRowType DEF ListingReleaseReason
    <3> QED
      BY <1>a, <3>1, <3>3
  <2>4. window' \in [Listings -> Days \cup {Null}]
    BY <1>3, <2>1 DEF MoveWrite, DaysTypeOK
  <2>5. day' \in [Days -> DayRow]
    BY <1>3, <1>a, <2>1 DEF MoveWrite, DayRow, ConnectionDayOutcome
  <2>6. info' \in [Days -> DayInfo]
    <3>1. \A row \in DayInfo :
            /\ [row EXCEPT !.responded = TRUE] \in DayInfo
            /\ [row EXCEPT !.late = now >= Schedule[r.to].cutoff] \in DayInfo
      BY <2>2 DEF DayInfo
    <3> DEFINE i == [info EXCEPT ![r.from] = [@ EXCEPT !.responded = TRUE]]
    <3>2. i \in [Days -> DayInfo]
      BY <1>a, <2>1, <3>1
    <3>3. info' = [i EXCEPT ![r.to] = [i[r.to] EXCEPT !.late = now >= Schedule[r.to].cutoff]]
      BY <1>3, <1>a, <2>1 DEF MoveWrite
    <3>4. [i[r.to] EXCEPT !.late = now >= Schedule[r.to].cutoff] \in DayInfo
      BY <2>1, <3>1, <3>2
    <3> HIDE DEF i
    <3> QED
      BY <3>2, <3>3, <3>4
  <2>7. OnlyListing /\ creq' = [creq EXCEPT ![s] = DayIdle]
    BY <1>3 DEF MoveWrite, Leave, Go
  <2> QED
    BY <2>3, <2>4, <2>5, <2>6, <2>7, IdleType, ListingOnlyType
<1> QED
  BY <1>1, <1>2, <1>3

(* The cut-off sweep. *)
LEMMA SweepStartType ==
    ASSUME DaysTypeOK, NEW w \in Slots,
           SweepStart(w)
    PROVE  DaysTypeOK'
<1>a. /\ creq \in [Slots -> DayRequest] /\ info \in [Days -> DayInfo]
      /\ day \in [Days -> DayRow] /\ listing \in [Listings -> ListingRow]
  BY DEF DaysTypeOK, StoreTypeOK
<1>b. \A todo \in SUBSET Pending : [op |-> "sweep", todo |-> todo] \in DayRequest
  BY DEF DayRequest, SweepReq
<1>1. \A d \in Days : day[d].listing # Null =>
        [day |-> d, listing |-> day[d].listing,
         late |-> info[d].late, responded |-> info[d].responded] \in Pending
  BY <1>a DEF Pending, DayRow, DayInfo
<1>2. PublishedDays \in SUBSET Pending
  BY <1>1 DEF PublishedDays
<1> QED
  BY <1>b, <1>2, HandlerType DEF SweepStart, Enter

LEMMA SweepDayType ==
    ASSUME DaysTypeOK, NEW w \in Slots, NEW e \in Pending,
           SweepDay(w, e)
    PROVE  DaysTypeOK'
<1>a. /\ creq \in [Slots -> DayRequest] /\ info \in [Days -> DayInfo]
      /\ day \in [Days -> DayRow] /\ listing \in [Listings -> ListingRow]
  BY DEF DaysTypeOK, StoreTypeOK
<1>b. \A todo \in SUBSET Pending : [op |-> "sweep", todo |-> todo] \in DayRequest
  BY DEF DayRequest, SweepReq
<1> DEFINE rest == creq[w].todo \ {e}
<1>1. rest \in SUBSET Pending /\ e.day \in Days /\ e.listing \in Listings
  BY <1>a, DayRequestShape DEF SweepDay, SweepReq, Pending
<1>2. [op |-> "release", day |-> e.day, listing |-> e.listing, trigger |-> "AUTO_RELEASED",
       fresh |-> listing[e.listing].due, todo |-> rest] \in DayRequest
  BY <1>a, <1>1 DEF DayRequest, ReleaseReq, ListingReleaseReason, ListingRow
<1>3. [op |-> "close", day |-> e.day, todo |-> rest] \in DayRequest
  BY <1>1 DEF DayRequest, CloseReq
<1>4. \E r \in DayRequest : creq' = [creq EXCEPT ![w] = r]
  BY <1>b, <1>1, <1>2, <1>3 DEF SweepDay, Go
<1>5. info' \in [Days -> DayInfo]
  <2>1. \/ info' = info
        \/ info' = [info EXCEPT ![e.day].responded = TRUE, ![e.day].reminded = TRUE]
    BY DEF SweepDay
  <2>2. [info EXCEPT ![e.day].responded = TRUE, ![e.day].reminded = TRUE] \in [Days -> DayInfo]
    BY <1>1, InfoFlagType
  <2> QED
    BY <1>a, <2>1, <2>2
<1>6. day' = day /\ OnlyDays
  BY DEF SweepDay
<1> QED
  BY <1>a, <1>4, <1>5, <1>6, DaysOnlyType

LEMMA CloseDayType ==
    ASSUME DaysTypeOK, NEW w \in Slots,
           CloseDay(w)
    PROVE  DaysTypeOK'
<1>a. /\ creq \in [Slots -> DayRequest] /\ info \in [Days -> DayInfo]
      /\ day \in [Days -> DayRow] /\ listing \in [Listings -> ListingRow]
  BY DEF DaysTypeOK, StoreTypeOK
<1>b. \A todo \in SUBSET Pending : [op |-> "sweep", todo |-> todo] \in DayRequest
  BY DEF DayRequest, SweepReq
<1>1. creq[w].day \in Days /\ creq[w].todo \in SUBSET Pending
  BY <1>a, DayRequestShape DEF CloseDay, CloseReq
<1>2. day' \in [Days -> DayRow] /\ info' \in [Days -> DayInfo]
  BY <1>1, InfoFlagType, OutcomeType DEF CloseDay, ConnectionDayOutcome
<1> QED
  BY <1>b, <1>1, <1>2, DaysOnlyType DEF CloseDay, Go

LEMMA MissedStartType ==
    ASSUME DaysTypeOK, NEW w \in Slots,
           MissedStart(w)
    PROVE  DaysTypeOK'
<1>1. SilentDays \in SUBSET Days
  BY DEF SilentDays
<1> QED
  BY <1>1, MissedType, HandlerType DEF MissedStart, Go

LEMMA MissedStepType ==
    ASSUME DaysTypeOK, NEW w \in Slots, NEW d \in Days,
           MarkSilent(w, d) \/ Remind(w) \/ Unremind(w) \/ TellCharity(w)
    PROVE  DaysTypeOK'
<1>a. /\ creq \in [Slots -> DayRequest] /\ info \in [Days -> DayInfo]
      /\ day \in [Days -> DayRow]
  BY DEF DaysTypeOK, StoreTypeOK
<1>1. CASE MarkSilent(w, d)
  <2>1. creq[w].days \ {d} \in SUBSET Days
    BY <1>1, <1>a, DayRequestShape DEF MarkSilent, MissedReq
  <2>2. [op |-> "remind", day |-> d, days |-> creq[w].days \ {d}] \in DayRequest
    BY <2>1 DEF DayRequest, RemindReq
  <2>3. \E r \in DayRequest : creq' = [creq EXCEPT ![w] = r]
    BY <1>1, <2>1, <2>2, MissedType DEF MarkSilent, Go
  <2>4. day' \in [Days -> DayRow]
    BY <1>1, <1>a, OutcomeType, ZenonT(60) DEF MarkSilent, Silent, ConnectionDayOutcome
  <2>5. info' \in [Days -> DayInfo]
    <3>1. info' = info \/ info' = [info EXCEPT ![d].responded = TRUE]
      BY <1>1 DEF MarkSilent
    <3>2. [info EXCEPT ![d].responded = TRUE] \in [Days -> DayInfo]
      BY InfoFlagType
    <3> QED
      BY <1>a, <3>1, <3>2
  <2>6. OnlyDays
    BY <1>1 DEF MarkSilent
  <2> QED
    BY <2>3, <2>4, <2>5, <2>6, DaysOnlyType
<1>2. CASE Remind(w)
  <2>1. creq[w] \in RemindReq
    BY <1>2, <1>a, DayRequestShape DEF Remind
  <2>2. \A op \in {"tell", "unremind"} : [creq[w] EXCEPT !.op = op] \in DayRequest
    BY <2>1 DEF RemindReq, DayRequest
  <2> QED
    BY <1>2, <2>2, HandlerType DEF Remind, Go
<1>3. CASE Unremind(w)
  <2>1. creq[w].day \in Days /\ creq[w].days \in SUBSET Days
    BY <1>3, <1>a, DayRequestShape DEF Unremind, RemindReq
  <2>a. \/ day' = day /\ info' = info
        \/ /\ day' = [day EXCEPT ![creq[w].day].outcome = "PROMPTED"]
           /\ info' = [info EXCEPT ![creq[w].day].responded = FALSE]
    BY <1>3 DEF Unremind
  <2>2. day' \in [Days -> DayRow]
    <3>1. [day EXCEPT ![creq[w].day].outcome = "PROMPTED"] \in [Days -> DayRow]
      BY <2>1, OutcomeType DEF ConnectionDayOutcome
    <3> QED
      BY <1>a, <2>a, <3>1
  <2>3. info' \in [Days -> DayInfo]
    <3>1. [info EXCEPT ![creq[w].day].responded = FALSE] \in [Days -> DayInfo]
      BY <2>1, InfoFlagType
    <3> QED
      BY <1>a, <2>a, <3>1
  <2>4. OnlyDays /\ creq' = [creq EXCEPT ![w] = Missed(creq[w].days)]
    BY <1>3 DEF Unremind, Go
  <2> QED
    BY <2>1, <2>2, <2>3, <2>4, MissedType, DaysOnlyType
<1>4. CASE TellCharity(w)
  <2>1. creq[w].day \in Days /\ creq[w].days \in SUBSET Days
    BY <1>4, <1>a, DayRequestShape DEF TellCharity, RemindReq
  <2>2. info' \in [Days -> DayInfo]
    BY <1>4, <2>1, InfoFlagType DEF TellCharity
  <2> QED
    BY <1>4, <1>a, <2>1, <2>2, MissedType, DaysOnlyType DEF TellCharity, Go
<1> QED
  BY <1>1, <1>2, <1>3, <1>4

LEMMA DieType ==
    ASSUME DaysTypeOK, NEW s \in Slots, Die(s)
    PROVE  DaysTypeOK'
BY IdleType, HandlerType DEF Die, Leave, Go

-----------------------------------------------------------------------------
LEMMA DaysTypeNext == DaysTypeOK /\ [DaysNext]_allVars => DaysTypeOK'
<1> SUFFICES ASSUME DaysTypeOK, [DaysNext]_allVars PROVE DaysTypeOK'
  OBVIOUS
<1>a. \A s \in Slots : creq[s] \in DayRequest
  BY DEF DaysTypeOK
<1>1. ASSUME NEW s \in Slots, RequestStep(s)
      PROVE  DaysTypeOK'
  <2>1. ASSUME NEW l \in Listings, NEW qty \in Surplus, SurplusWrite(s, l, qty)
        PROVE  DaysTypeOK'
    BY <2>1, SurplusWriteType
  <2>2. CASE OpenDay(s) \/ ClaimPrompt(s) \/ PushPrompt(s) \/ ClearPrompt(s)
    <3>1. creq[s].day \in Days
      BY <1>a, <2>2, DayRequestShape DEF OpenDay, ClaimPrompt, PushPrompt, ClearPrompt, PromptReq
    <3> QED
      BY <2>2, <3>1, PromptType
  <2>3. CASE NoSurplusWrite(s)
    BY <2>3, NoSurplusWriteType
  <2>4. CASE ReleaseWrite(s)
    BY <2>4, ReleaseWriteType
  <2>5. CASE MoveTarget(s) \/ MoveWrite(s)
    <3>1. creq[s].from \in Days /\ creq[s].to \in Days
      BY <1>a, <2>5, DayRequestShape DEF MoveTarget, MoveWrite, MoveReq
    <3> QED
      BY <2>5, <3>1, MoveType, SMTT(60)
  <2> QED
    BY <1>1, <2>1, <2>2, <2>3, <2>4, <2>5 DEF RequestStep
<1>2. ASSUME NEW w \in Slots, SweepStep(w)
      PROVE  DaysTypeOK'
  <2>1. CASE CloseDay(w)
    BY <2>1, CloseDayType
  <2>2. CASE MissedStart(w)
    BY <2>2, MissedStartType
  <2>3. CASE Remind(w) \/ Unremind(w) \/ TellCharity(w)
    <3>1. creq[w].day \in Days
      BY <1>a, <2>3, DayRequestShape DEF Remind, Unremind, TellCharity, RemindReq
    <3> QED
      BY <2>3, <3>1, MissedStepType
  <2> QED
    BY <1>2, <2>1, <2>2, <2>3, SweepDayType, MissedStepType DEF SweepStep
<1>3. ASSUME NEW s \in Slots, NEW d \in Days,
             \/ PromptStart(s, d) \/ SurplusRead(s, d) \/ NoSurplusRead(s, d)
             \/ \E to \in Days : MoveRead(s, d, to)
             \/ \E trigger \in {"CHARITY_DECLINED", "BUSINESS_RELEASED"}, fresh \in BOOLEAN :
                    ReleaseRead(s, d, trigger, fresh)
      PROVE  DaysTypeOK'
  BY <1>3, PromptType, AnswerReadType, ReleaseReadType, MoveType
<1>4. CASE Tick \/ \E d \in Pausable : ConnectionChanges(d)
  BY <1>4, EnvironmentType, DaysAssumption
<1>5. CASE \E d \in Days : RecoverPush(d)
  BY <1>5, RecoverPushType
<1>6. ASSUME NEW s \in Slots, Die(s) \/ SweepStart(s)
      PROVE  DaysTypeOK'
  BY <1>6, DieType, SweepStartType
<1>7. CASE UNCHANGED allVars
  BY <1>7 DEF allVars, daysVars, storeVars, DaysTypeOK, StoreTypeOK
<1> QED
  BY <1>1, <1>2, <1>3, <1>4, <1>5, <1>6, <1>7 DEF DaysNext, Slots

(***************************************************************************)
(* Type correctness: outcomes keep to their enum, and what a handler or a  *)
(* sweep remembers refers to rows that exist.                              *)
(***************************************************************************)
THEOREM DaysTypeCorrect == DaysSpec => []DaysTypeOK
BY DaysTypeInit, DaysTypeNext, PTL DEF DaysSpec, allVars
-----------------------------------------------------------------------------
(* What a step does to the outcome of a day. *)
Waiting == {"NONE", "PROMPTED", "NO_RESPONSE"}

OutcomeMoves ==
    \A d \in Days :
        \/ day'[d].outcome = day[d].outcome
        \/ day[d].outcome \in Waiting
        \/ day'[d].outcome \notin Waiting

LEMMA OpenRowMoves ==
    ASSUME DaysTypeOK, NEW e \in Days, day' = OpenRow(e)
    PROVE  OutcomeMoves
BY DEF OpenRow, OutcomeMoves, Waiting, DaysTypeOK, StoreTypeOK, DayRow

LEMMA RequestMoves ==
    ASSUME DaysTypeOK, NEW s \in Slots, RequestStep(s)
    PROVE  OutcomeMoves
<1>a. creq[s] \in DayRequest /\ day \in [Days -> DayRow]
  BY DEF DaysTypeOK, StoreTypeOK
<1>1. CASE OpenDay(s)
  <2>1. creq[s].day \in Days /\ day' = OpenRow(creq[s].day)
    BY <1>1, <1>a, DayRequestShape DEF OpenDay, PromptReq
  <2> QED
    BY <2>1, OpenRowMoves
<1>2. CASE MoveTarget(s)
  <2>1. creq[s].to \in Days /\ day' = OpenRow(creq[s].to)
    BY <1>2, <1>a, DayRequestShape DEF MoveTarget, MoveReq
  <2> QED
    BY <2>1, OpenRowMoves
<1>3. CASE ClaimPrompt(s) \/ PushPrompt(s) \/ ClearPrompt(s)
  BY <1>3 DEF ClaimPrompt, PushPrompt, ClearPrompt, OutcomeMoves
<1>4. ASSUME NEW l \in Listings, NEW qty \in Surplus, SurplusWrite(s, l, qty)
      PROVE  OutcomeMoves
  BY <1>4, <1>a DEF SurplusWrite, OutcomeMoves, Waiting, DayRow
<1>5. CASE NoSurplusWrite(s)
  BY <1>5, <1>a DEF NoSurplusWrite, OutcomeMoves, Waiting, DayRow
<1>6. CASE ReleaseWrite(s)
  <2>1. day' = [day EXCEPT ![creq[s].day].outcome = "RELEASED"]
    BY <1>6 DEF ReleaseWrite
  <2> QED
    BY <2>1, <1>a DEF OutcomeMoves, Waiting, DayRow
<1>7. CASE MoveWrite(s)
  <2>1. day' = [day EXCEPT ![creq[s].from] = [outcome |-> "RELEASED", listing |-> Null],
                           ![creq[s].to] = [outcome |-> "PUBLISHED", listing |-> creq[s].listing]]
    BY <1>7 DEF MoveWrite
  <2> QED
    BY <2>1, <1>a, SMTT(60) DEF OutcomeMoves, Waiting
<1> QED
  BY <1>1, <1>2, <1>3, <1>4, <1>5, <1>6, <1>7 DEF RequestStep

LEMMA SweepMoves ==
    ASSUME DaysTypeOK, NEW w \in Slots, SweepStep(w)
    PROVE  OutcomeMoves
<1>a. day \in [Days -> DayRow]
  BY DEF DaysTypeOK, StoreTypeOK
<1>1. CASE CloseDay(w)
  BY <1>1, <1>a DEF CloseDay, OutcomeMoves, Waiting, DayRow
<1>2. ASSUME NEW d \in Days, MarkSilent(w, d)
      PROVE  OutcomeMoves
  <2>1. \/ day' = day
        \/ day[d].outcome = "PROMPTED" /\ day' = [day EXCEPT ![d].outcome = "NO_RESPONSE"]
    BY <1>2 DEF MarkSilent, Silent
  <2> QED
    BY <2>1, <1>a DEF OutcomeMoves, Waiting, DayRow
<1>3. CASE Unremind(w)
  <2> DEFINE d == creq[w].day
  <2>1. \/ day' = day
        \/ day[d].outcome = "NO_RESPONSE" /\ day' = [day EXCEPT ![d].outcome = "PROMPTED"]
    BY <1>3 DEF Unremind
  <2> QED
    BY <2>1, <1>a DEF OutcomeMoves, Waiting, DayRow
<1>4. ASSUME NEW e, SweepDay(w, e) \/ MissedStart(w) \/ Remind(w) \/ TellCharity(w)
      PROVE  day' = day
  BY <1>4 DEF SweepDay, MissedStart, Remind, TellCharity, OnlyHandler, storeVars
<1> QED
  BY <1>1, <1>2, <1>3, <1>4 DEF SweepStep, OutcomeMoves

LEMMA DaysMoves == DaysTypeOK /\ [DaysNext]_allVars => OutcomeMoves
<1> SUFFICES ASSUME DaysTypeOK, [DaysNext]_allVars PROVE OutcomeMoves
  OBVIOUS
<1>1. ASSUME NEW s, NEW d, NEW to, NEW trigger, NEW fresh,
             \/ Tick \/ ConnectionChanges(d) \/ RecoverPush(d) \/ PromptStart(s, d)
             \/ SurplusRead(s, d) \/ NoSurplusRead(s, d) \/ ReleaseRead(s, d, trigger, fresh)
             \/ MoveRead(s, d, to) \/ SweepStart(s) \/ Die(s)
      PROVE  day' = day
  BY <1>1 DEF Tick, ConnectionChanges, RecoverPush, PromptStart, SurplusRead, NoSurplusRead,
     ReleaseRead, MoveRead, SweepStart, Die, OnlyHandler, storeVars
<1>2. CASE UNCHANGED allVars
  BY <1>2 DEF allVars, storeVars, OutcomeMoves
<1> QED
  BY <1>1, <1>2, RequestMoves, SweepMoves DEF DaysNext, OutcomeMoves

(***************************************************************************)
(* An answered day never goes back to waiting, however requests, sweeps    *)
(* and deaths of the process interleave: every update that takes a day     *)
(* back to PROMPTED or NO_RESPONSE is conditional on the outcome.          *)
(***************************************************************************)
THEOREM AnswersStandHolds == DaysSpec => AnswersStand
<1> DEFINE A == \A d \in Days :
                  day[d].outcome \notin {"NONE", "PROMPTED", "NO_RESPONSE"}
                    => day'[d].outcome \notin {"NONE", "PROMPTED", "NO_RESPONSE"}
<1>1. DaysTypeOK /\ [DaysNext]_allVars => [A]_allVars
  BY DaysMoves DEF OutcomeMoves, Waiting
<1> QED
  BY <1>1, DaysTypeInit, DaysTypeNext, PTL DEF DaysSpec, AnswersStand, allVars
-----------------------------------------------------------------------------
(***************************************************************************)
(* Why the prompt is sent once: whoever sends it has set promptedAt, which *)
(* was not set, and it stays set unless nothing was sent.                  *)
(***************************************************************************)
Sending(s, d) == creq[s].op \in {"push", "clear"} /\ creq[s].day = d

PromptInv ==
    \A d \in Days :
        /\ info[d].stuck = 0
        /\ info[d].pushed \in {0, 1}
        /\ info[d].pushed = 1 => info[d].prompted
        /\ \A s \in Slots :
              Sending(s, d)
                => /\ info[d].prompted
                   /\ info[d].pushed = 0
                   /\ \A t \in Slots : Sending(t, d) => s = t

LEMMA PromptInit == DaysInit => PromptInv
BY DEF DaysInit, PromptInv, NoInfo, Sending, DayIdle

(* Steps that neither send a prompt nor begin or end one. *)
LEMMA PromptFrame ==
    ASSUME PromptInv,
           \A d \in Days : /\ info'[d].stuck = info[d].stuck
                           /\ info'[d].pushed = info[d].pushed
                           /\ info'[d].prompted = info[d].prompted,
           \A s \in Slots : creq'[s].op \in {"push", "clear"} => creq'[s] = creq[s]
    PROVE  PromptInv'
BY DEF PromptInv, Sending

(* The same, by the form of the step: one slot goes on to something else. *)
LEMMA OtherStep ==
    ASSUME DaysTypeOK, PromptInv, NEW s \in Slots, NEW r, r.op \notin {"push", "clear"},
           creq' = [creq EXCEPT ![s] = r],
           \A d \in Days : /\ info'[d].stuck = info[d].stuck
                           /\ info'[d].pushed = info[d].pushed
                           /\ info'[d].prompted = info[d].prompted
    PROVE  PromptInv'
<1>1. \A t \in Slots : creq'[t].op \in {"push", "clear"} => creq'[t] = creq[t]
  BY DEF DaysTypeOK
<1> QED
  BY <1>1, PromptFrame

LEMMA ClaimPromptOnce ==
    ASSUME DaysTypeOK, PromptInv, NEW s \in Slots, ClaimPrompt(s)
    PROVE  PromptInv'
<1>a. creq \in [Slots -> DayRequest] /\ info \in [Days -> DayInfo]
  BY DEF DaysTypeOK
<1>d. PICK d \in Days : d = creq[s].day
  BY <1>a, DayRequestShape DEF ClaimPrompt, PromptReq
<1>1. CASE MayPrompt(d)
  <2>1. /\ info' = [info EXCEPT ![d].prompted = TRUE]
        /\ creq' = [creq EXCEPT ![s] = [op |-> "push", day |-> d]]
    BY <1>1, <1>d DEF ClaimPrompt, Go
  <2>2. ~info[d].prompted
    BY <1>1, <1>d DEF MayPrompt
  <2>3. info[d].pushed = 0 /\ \A t \in Slots : ~Sending(t, d)
    BY <1>a, <1>d, <2>2 DEF PromptInv
  <2>4. \A e \in Days : /\ info'[e].stuck = info[e].stuck
                        /\ info'[e].pushed = info[e].pushed
                        /\ info'[e].prompted = IF e = d THEN TRUE ELSE info[e].prompted
    BY <1>a, <1>d, <2>1 DEF DayInfo
  <2>5. \A t \in Slots, e \in Days :
          Sending(t, e)' <=> (t = s /\ e = d) \/ (t # s /\ Sending(t, e))
    BY <1>a, <1>d, <2>1 DEF Sending
  <2> SUFFICES ASSUME NEW e \in Days
               PROVE  /\ info'[e].stuck = 0
                      /\ info'[e].pushed \in {0, 1}
                      /\ info'[e].pushed = 1 => info'[e].prompted
                      /\ \A u \in Slots :
                            Sending(u, e)'
                              => /\ info'[e].prompted
                                 /\ info'[e].pushed = 0
                                 /\ \A t \in Slots : Sending(t, e)' => u = t
    BY DEF PromptInv
  <2>7. CASE e = d
    BY <2>3, <2>4, <2>5, <2>7 DEF PromptInv
  <2>8. CASE e # d
    <3>1. \A t \in Slots : Sending(t, e)' => Sending(t, e)
      BY <2>5, <2>8
    <3>2. /\ info'[e].stuck = info[e].stuck
          /\ info'[e].pushed = info[e].pushed
          /\ info'[e].prompted = info[e].prompted
      BY <2>4, <2>8
    <3> QED
      BY <3>1, <3>2 DEF PromptInv
  <2> QED
    BY <2>7, <2>8
<1>2. CASE ~MayPrompt(d)
  <2>1. info' = info /\ creq' = [creq EXCEPT ![s] = DayIdle]
    BY <1>2, <1>d DEF ClaimPrompt, Leave, Go
  <2> QED
    BY <2>1, OtherStep DEF DayIdle
<1> QED
  BY <1>1, <1>2

LEMMA PushPromptOnce ==
    ASSUME "after" \notin PushFailures,
           DaysTypeOK, PromptInv, NEW s \in Slots, PushPrompt(s)
    PROVE  PromptInv'
<1>a. creq \in [Slots -> DayRequest] /\ info \in [Days -> DayInfo]
  BY DEF DaysTypeOK
<1>d. PICK d \in Days : d = creq[s].day
  BY <1>a, DayRequestShape DEF PushPrompt, PromptReq
<1>b. Sending(s, d)
  BY <1>d DEF PushPrompt, Sending
<1>c. info[d].prompted /\ info[d].pushed = 0 /\ \A t \in Slots : Sending(t, d) => s = t
  BY <1>a, <1>d, <1>b DEF PromptInv
<1>1. CASE info' = [info EXCEPT ![d].pushed = @ + 1] /\ creq' = [creq EXCEPT ![s] = DayIdle]
  <2>1. \A e \in Days : /\ info'[e].stuck = info[e].stuck
                        /\ info'[e].pushed = IF e = d THEN 1 ELSE info[e].pushed
                        /\ info'[e].prompted = info[e].prompted
    BY <1>a, <1>d, <1>c, <1>1 DEF DayInfo
  <2>2. \A t \in Slots, e \in Days : Sending(t, e)' <=> t # s /\ Sending(t, e)
    BY <1>a, <1>d, <1>1 DEF Sending, DayIdle
  <2>3. \A t \in Slots : ~Sending(t, d)'
    BY <1>a, <1>d, <1>c, <2>2
  <2> QED
    BY <1>a, <1>d, <1>c, <2>1, <2>2, <2>3 DEF PromptInv
<1>2. CASE info' = info /\ creq' = [creq EXCEPT ![s] = [op |-> "clear", day |-> d]]
  <2>1. \A t \in Slots, e \in Days : Sending(t, e)' <=> Sending(t, e)
    BY <1>a, <1>d, <1>b, <1>2 DEF Sending
  <2> QED
    BY <1>2, <2>1 DEF PromptInv
<1> QED
  BY <1>1, <1>2, <1>d DEF PushPrompt, Go, Leave

LEMMA ClearPromptOnce ==
    ASSUME DaysTypeOK, PromptInv, NEW s \in Slots, ClearPrompt(s)
    PROVE  PromptInv'
<1>a. creq \in [Slots -> DayRequest] /\ info \in [Days -> DayInfo]
  BY DEF DaysTypeOK
<1>d. PICK d \in Days : d = creq[s].day
  BY <1>a, DayRequestShape DEF ClearPrompt, PromptReq
<1>b. Sending(s, d)
  BY <1>d DEF ClearPrompt, Sending
<1>c. info[d].pushed = 0 /\ \A t \in Slots : Sending(t, d) => s = t
  BY <1>a, <1>d, <1>b DEF PromptInv
<1>1. \A e \in Days : /\ info'[e].stuck = info[e].stuck
                      /\ info'[e].pushed = info[e].pushed
                      /\ e # d => info'[e].prompted = info[e].prompted
  BY <1>a, <1>d DEF ClearPrompt, DayInfo
<1>2. \A t \in Slots, e \in Days : Sending(t, e)' <=> t # s /\ Sending(t, e)
  BY <1>a, <1>d DEF ClearPrompt, Leave, Go, Sending, DayIdle
<1>3. \A t \in Slots : ~Sending(t, d)'
  BY <1>a, <1>d, <1>c, <1>2
<1> QED
  BY <1>a, <1>d, <1>c, <1>1, <1>2, <1>3 DEF PromptInv

LEMMA RequestOnce ==
    ASSUME "after" \notin PushFailures,
           DaysTypeOK, PromptInv, NEW s \in Slots, RequestStep(s)
    PROVE  PromptInv'
<1>a. creq[s] \in DayRequest /\ info \in [Days -> DayInfo]
  BY DEF DaysTypeOK
<1>1. CASE OpenDay(s)
  <2>1. info' = info /\ creq' = [creq EXCEPT ![s] = [op |-> "prompt", day |-> creq[s].day]]
    BY <1>1 DEF OpenDay, Go
  <2> QED
    BY <2>1, OtherStep
<1>2. ASSUME NEW l \in Listings, NEW qty \in Surplus, SurplusWrite(s, l, qty)
      PROVE  PromptInv'
  <2>1. creq' = [creq EXCEPT ![s] = DayIdle]
    BY <1>2 DEF SurplusWrite, Leave, Go
  <2>2. info' = [info EXCEPT ![creq[s].day].late = now >= Schedule[creq[s].day].cutoff]
    BY <1>2 DEF SurplusWrite
  <2>3. \A d \in Days : /\ info'[d].stuck = info[d].stuck
                        /\ info'[d].pushed = info[d].pushed
                        /\ info'[d].prompted = info[d].prompted
    BY <2>2, <1>a DEF DayInfo
  <2> QED
    BY <2>1, <2>3, OtherStep DEF DayIdle
<1>3. CASE NoSurplusWrite(s)
  <2>1. creq' = [creq EXCEPT ![s] = DayIdle]
    BY <1>3 DEF NoSurplusWrite, Leave, Go
  <2>2. \A d \in Days : /\ info'[d].stuck = info[d].stuck
                        /\ info'[d].pushed = info[d].pushed
                        /\ info'[d].prompted = info[d].prompted
    BY <1>3, <1>a DEF NoSurplusWrite, DayInfo
  <2> QED
    BY <2>1, <2>2, OtherStep DEF DayIdle
<1>4. CASE ReleaseWrite(s)
  <2>1. \/ creq' = [creq EXCEPT ![s] = DayIdle]
        \/ creq' = [creq EXCEPT ![s] = [op |-> "sweep", todo |-> creq[s].todo]]
    BY <1>4 DEF ReleaseWrite, Leave, Go
  <2>2. info' = [info EXCEPT ![creq[s].day].responded = TRUE]
    BY <1>4 DEF ReleaseWrite
  <2>3. \A d \in Days : /\ info'[d].stuck = info[d].stuck
                        /\ info'[d].pushed = info[d].pushed
                        /\ info'[d].prompted = info[d].prompted
    BY <2>2, <1>a DEF DayInfo
  <2> QED
    BY <2>1, <2>3, OtherStep DEF DayIdle
<1>5. CASE MoveTarget(s)
  <2>1. creq[s] \in MoveReq
    BY <1>5, <1>a, DayRequestShape DEF MoveTarget
  <2>2. [creq[s] EXCEPT !.op = "move"].op = "move"
    BY <2>1 DEF MoveReq
  <2>3. /\ info' = info
        /\ \/ creq' = [creq EXCEPT ![s] = DayIdle]
           \/ creq' = [creq EXCEPT ![s] = [creq[s] EXCEPT !.op = "move"]]
    BY <1>5, SMTT(60) DEF MoveTarget, Leave, Go
  <2> QED
    BY <2>2, <2>3, OtherStep DEF DayIdle
<1>6. CASE MoveWrite(s)
  <2>1. creq' = [creq EXCEPT ![s] = DayIdle]
    BY <1>6, SMTT(60) DEF MoveWrite, Leave, Go
  <2>2. info' = [info EXCEPT ![creq[s].from].responded = TRUE,
                             ![creq[s].to].late = now >= Schedule[creq[s].to].cutoff]
    BY <1>6 DEF MoveWrite
  <2>3. \A d \in Days : /\ info'[d].stuck = info[d].stuck
                        /\ info'[d].pushed = info[d].pushed
                        /\ info'[d].prompted = info[d].prompted
    BY <2>2, <1>a DEF DayInfo
  <2> QED
    BY <2>1, <2>3, OtherStep DEF DayIdle
<1> QED
  BY <1>1, <1>2, <1>3, <1>4, <1>5, <1>6, ClaimPromptOnce, PushPromptOnce, ClearPromptOnce
     DEF RequestStep
LEMMA SweepOnce ==
    ASSUME DaysTypeOK, PromptInv, NEW w \in Slots, SweepStep(w)
    PROVE  PromptInv'
<1>a. creq[w] \in DayRequest /\ info \in [Days -> DayInfo]
  BY DEF DaysTypeOK
<1>b. \A days : Missed(days).op \notin {"push", "clear"}
  BY DEF Missed, DayIdle
<1>1. ASSUME NEW e \in Pending, SweepDay(w, e)
      PROVE  PromptInv'
  <2>1. \E r : r.op \notin {"push", "clear"} /\ creq' = [creq EXCEPT ![w] = r]
    BY <1>1 DEF SweepDay, Go
  <2>2. \/ info' = info
        \/ info' = [info EXCEPT ![e.day].responded = TRUE, ![e.day].reminded = TRUE]
    BY <1>1 DEF SweepDay
  <2>3. \A d \in Days : /\ info'[d].stuck = info[d].stuck
                        /\ info'[d].pushed = info[d].pushed
                        /\ info'[d].prompted = info[d].prompted
    BY <2>2, <1>a DEF DayInfo
  <2> QED
    BY <2>1, <2>3, OtherStep
<1>2. CASE CloseDay(w)
  <2>1. creq' = [creq EXCEPT ![w] = [op |-> "sweep", todo |-> creq[w].todo]]
    BY <1>2 DEF CloseDay, Go
  <2>2. \A d \in Days : /\ info'[d].stuck = info[d].stuck
                        /\ info'[d].pushed = info[d].pushed
                        /\ info'[d].prompted = info[d].prompted
    BY <1>2, <1>a DEF CloseDay, DayInfo
  <2> QED
    BY <2>1, <2>2, OtherStep
<1>3. CASE MissedStart(w)
  <2>1. info' = info /\ creq' = [creq EXCEPT ![w] = Missed(SilentDays)]
    BY <1>3 DEF MissedStart, Go, OnlyHandler
  <2> QED
    BY <1>b, <2>1, OtherStep
<1>4. ASSUME NEW d \in Days, MarkSilent(w, d)
      PROVE  PromptInv'
  <2>1. \E r : r.op \notin {"push", "clear"} /\ creq' = [creq EXCEPT ![w] = r]
    <3>1. \/ creq' = [creq EXCEPT ![w] =
                 [op |-> "remind", day |-> d, days |-> creq[w].days \ {d}]]
          \/ creq' = [creq EXCEPT ![w] = Missed(creq[w].days \ {d})]
      BY <1>4 DEF MarkSilent, Go
    <3> QED
      BY <1>b, <3>1
  <2>2. info' = info \/ info' = [info EXCEPT ![d].responded = TRUE]
    BY <1>4 DEF MarkSilent
  <2>3. \A e \in Days : /\ info'[e].stuck = info[e].stuck
                        /\ info'[e].pushed = info[e].pushed
                        /\ info'[e].prompted = info[e].prompted
    BY <2>2, <1>a DEF DayInfo
  <2> QED
    BY <2>1, <2>3, OtherStep
<1>5. CASE Remind(w)
  <2>1. creq[w] \in RemindReq
    BY <1>5, <1>a, DayRequestShape DEF Remind
  <2>2. \A op : [creq[w] EXCEPT !.op = op].op = op
    BY <2>1 DEF RemindReq
  <2>3. /\ info' = info
        /\ \/ creq' = [creq EXCEPT ![w] = [creq[w] EXCEPT !.op = "tell"]]
           \/ creq' = [creq EXCEPT ![w] = [creq[w] EXCEPT !.op = "unremind"]]
    BY <1>5 DEF Remind, Go, OnlyHandler
  <2> QED
    BY <2>2, <2>3, OtherStep
<1>6. CASE Unremind(w)
  <2>1. creq' = [creq EXCEPT ![w] = Missed(creq[w].days)]
    BY <1>6 DEF Unremind, Go
  <2>2. info' = info \/ info' = [info EXCEPT ![creq[w].day].responded = FALSE]
    BY <1>6 DEF Unremind
  <2>3. \A e \in Days : /\ info'[e].stuck = info[e].stuck
                        /\ info'[e].pushed = info[e].pushed
                        /\ info'[e].prompted = info[e].prompted
    BY <2>2, <1>a DEF DayInfo
  <2> QED
    BY <1>b, <2>1, <2>3, OtherStep
<1>7. CASE TellCharity(w)
  <2>1. creq' = [creq EXCEPT ![w] = Missed(creq[w].days)]
    BY <1>7 DEF TellCharity, Go
  <2>2. info' = [info EXCEPT ![creq[w].day].told = TRUE]
    BY <1>7 DEF TellCharity
  <2>3. \A e \in Days : /\ info'[e].stuck = info[e].stuck
                        /\ info'[e].pushed = info[e].pushed
                        /\ info'[e].prompted = info[e].prompted
    BY <2>2, <1>a DEF DayInfo
  <2> QED
    BY <1>b, <2>1, <2>3, OtherStep
<1> QED
  BY <1>1, <1>2, <1>3, <1>4, <1>5, <1>6, <1>7 DEF SweepStep

LEMMA PromptOnceNext ==
    ASSUME "after" \notin PushFailures
    PROVE  DaysTypeOK /\ PromptInv /\ [DaysNext]_allVars => PromptInv'
<1> SUFFICES ASSUME DaysTypeOK, PromptInv, [DaysNext]_allVars PROVE PromptInv'
  OBVIOUS
<1>1. ASSUME NEW s \in Slots, NEW d, NEW to, NEW trigger, NEW fresh,
             \/ PromptStart(s, d) \/ SurplusRead(s, d) \/ NoSurplusRead(s, d)
             \/ ReleaseRead(s, d, trigger, fresh) \/ MoveRead(s, d, to)
             \/ SweepStart(s) \/ Die(s)
      PROVE  PromptInv'
  <2>1. info' = info
    BY <1>1 DEF PromptStart, SurplusRead, NoSurplusRead, ReleaseRead, MoveRead, SweepStart, Die,
       OnlyHandler
  <2>2. \E r : r.op \notin {"push", "clear"} /\ creq' = [creq EXCEPT ![s] = r]
    BY <1>1 DEF PromptStart, SurplusRead, NoSurplusRead, ReleaseRead, MoveRead, SweepStart, Die,
       Enter, Leave, Go, DayIdle
  <2> QED
    BY <2>1, <2>2, OtherStep
<1>2. ASSUME NEW d, Tick \/ ConnectionChanges(d) \/ UNCHANGED allVars
      PROVE  PromptInv'
  <2>1. info' = info /\ creq' = creq
    BY <1>2 DEF Tick, ConnectionChanges, allVars, daysVars
  <2> QED
    BY <2>1, PromptFrame
<1>3. ASSUME NEW d \in Days, RecoverPush(d)
      PROVE  PromptInv'
  BY <1>3 DEF RecoverPush, PromptInv
<1>4. ASSUME NEW s \in Slots, RequestStep(s) \/ SweepStep(s)
      PROVE  PromptInv'
  BY <1>4, RequestOnce, SweepOnce
<1> QED
  BY <1>1, <1>2, <1>3, <1>4 DEF DaysNext, Slots

(***************************************************************************)
(* The prompt of a day is sent at most once, however the sweeps, the       *)
(* screens that open the day and retries interleave and die, as long as a  *)
(* push that fails leaves no notification record behind.                   *)
(***************************************************************************)
THEOREM PromptedAtMostOnce ==
    ASSUME "after" \notin PushFailures
    PROVE  DaysSpec => []PromptAtMostOnce
<1>1. DaysTypeOK /\ PromptInv /\ [DaysNext]_allVars => PromptInv'
  BY PromptOnceNext
<1>2. PromptInv => PromptAtMostOnce
  BY DEF PromptInv, PromptAtMostOnce
<1> QED
  BY <1>1, <1>2, PromptInit, DaysTypeInit, DaysTypeNext, PTL DEF DaysSpec, allVars
-----------------------------------------------------------------------------
(***************************************************************************)
(* Handlers that overlap, but are not overtaken: between the read of a     *)
(* handler and its write no other makes untrue what it has checked.        *)
(***************************************************************************)
Published(d) == day[d].outcome = "PUBLISHED"

\* Day d has published listing l.
Holds(d, l) == Published(d) /\ day[d].listing = l

Asked(d) == day[d].outcome \in {"PROMPTED", "NO_RESPONSE"}

\* The tables of listings and days agree.
TablesAgree ==
    /\ \A d \in Days : Published(d) =>
          /\ day[d].listing # Null
          /\ listing[day[d].listing].status # "NONE"
          /\ listing[day[d].listing].released = "NO"
          /\ listing[day[d].listing].exclusiveTo = Receiver[d]
    /\ \A d, e \in Days : Published(d) /\ Holds(e, day[d].listing) => d = e
    /\ \A l \in Listings :
          OpenListing(l) /\ isExclusive(listing[l]) => \E d \in Days : Holds(d, l)
    /\ \A l \in Listings : listing[l].status = "NONE" => listing[l].released = "NO"

\* What a sweep has still to look at.
StillPublished(todo) ==
    /\ \A e \in todo : Holds(e.day, e.listing)
    /\ \A e, f \in todo : e.day = f.day => e = f

\* What a handler has checked still holds when it writes.
StillTrue(r) ==
    /\ r.op \in {"surplus", "noSurplus"} => Asked(r.day)
    /\ r.op \in {"release", "sweep", "close"} => StillPublished(r.todo)
    /\ r.op = "release" => Holds(r.day, r.listing)
    /\ r.op = "close" => Published(r.day) /\ ~OpenListing(day[r.day].listing)
    /\ r.op \in {"release", "close"} => \A e \in r.todo : e.day # r.day
    /\ r.op \in {"target", "move"} => Holds(r.from, r.listing) /\ r.from # r.to
    /\ r.op = "move" => Asked(r.to)

Stands(s) == StillTrue(creq[s])

(***************************************************************************)
(* Nobody overtakes: a step leaves true what every other handler has       *)
(* checked and not written yet.  Any number of them may be in progress.    *)
(* The code does not promise it; section 6 of the README has the runs that *)
(* show what breaks when an answer or a release falls in between.          *)
(***************************************************************************)
NotOvertaken == \A s \in Slots : creq'[s] = creq[s] /\ Stands(s) => Stands(s)'

StandInv ==
    /\ TablesAgree
    /\ \A s \in Slots : Stands(s)

LEMMA StandInit == DaysInit => StandInv
<1>1. DaysInit => /\ \A s \in Slots : creq[s] = DayIdle
                  /\ \A d \in Days : day[d].outcome = "NONE"
                  /\ \A l \in Listings : listing[l].status = "NONE" /\ listing[l].released = "NO"
  BY DEF DaysInit, StoreInit, TablesInit, NoDay, NoListing
<1>2. StillTrue(DayIdle)
  BY DEF StillTrue, DayIdle
<1> QED
  BY <1>1, <1>2 DEF StandInv, Stands, TablesAgree, Holds, Published, OpenListing

(* A step of one handler: what it goes on with has to be true. *)
LEMMA HandlerStep ==
    ASSUME DaysTypeOK, StandInv, NotOvertaken, NEW s \in Slots, NEW r,
           Go(s, r), StillTrue(r)', TablesAgree'
    PROVE  StandInv'
<1>1. creq \in [Slots -> DayRequest]
  BY DEF DaysTypeOK
<1>2. creq'[s] = r /\ \A t \in Slots : t # s => creq'[t] = creq[t]
  BY <1>1 DEF Go
<1>3. ASSUME NEW t \in Slots PROVE Stands(t)'
  <2>1. CASE t = s
    <3>1. creq'[t] = r
      BY <1>2, <2>1
    <3> QED
      BY <3>1, Zenon DEF Stands
  <2>2. CASE t # s
    BY <1>2, <2>2 DEF StandInv, NotOvertaken
  <2> QED
    BY <2>1, <2>2
<1> QED
  BY <1>3 DEF StandInv

(* Steps that publish nothing and end no publication. *)
LEMMA SameAgreement ==
    ASSUME DaysTypeOK, TablesAgree,
           \A d \in Days : /\ Published(d)' <=> Published(d)
                           /\ Published(d) => day'[d].listing = day[d].listing,
           \A l \in Listings : /\ listing'[l].status = listing[l].status
                               /\ listing'[l].released = listing[l].released
                               /\ listing'[l].exclusiveTo = listing[l].exclusiveTo
    PROVE  TablesAgree'
<1>1. \A d \in Days : day[d].listing \in Listings \cup {Null}
  BY DEF DaysTypeOK, StoreTypeOK, DayRow
<1>2. \A d \in Days : Published(d) =>
        /\ day'[d].listing # Null
        /\ listing'[day'[d].listing].status # "NONE"
        /\ listing'[day'[d].listing].released = "NO"
        /\ listing'[day'[d].listing].exclusiveTo = Receiver[d]
  BY <1>1 DEF TablesAgree
<1>3. \A d, e \in Days : Published(d)' /\ Holds(e, day[d].listing)' => d = e
  BY DEF TablesAgree, Holds
<1>4. \A l \in Listings : OpenListing(l)' /\ isExclusive(listing[l])'
        => \E d \in Days : Holds(d, l)'
  BY DEF TablesAgree, Holds, OpenListing, isExclusive
<1>5. \A l \in Listings : listing'[l].status = "NONE" => listing'[l].released = "NO"
  BY DEF TablesAgree
<1> QED
  BY <1>2, <1>3, <1>4, <1>5 DEF TablesAgree
(* A handler goes on to a step that relies on nothing it has read. *)
LEMMA QuietStep ==
    ASSUME DaysTypeOK, StandInv, NotOvertaken, NEW s \in Slots, creq[s] # DayIdle, NEW r,
           r.op \in {"idle", "open", "prompt", "push", "clear", "missed",
                     "remind", "unremind", "tell"},
           Go(s, r),
           listing' = listing,
           \A d \in Days :
              /\ day'[d].outcome = "PUBLISHED" <=> day[d].outcome = "PUBLISHED"
              /\ day[d].outcome = "PUBLISHED" => day'[d].listing = day[d].listing
    PROVE  StandInv'
<1>1. StillTrue(r)'
  BY DEF StillTrue
<1>2. TablesAgree'
  BY SameAgreement DEF StandInv, Published
<1> QED
  BY <1>1, <1>2, HandlerStep

LEMMA QuietStands ==
    ASSUME DaysTypeOK, StandInv, NotOvertaken, NEW s \in Slots,
           \/ OpenDay(s) \/ ClaimPrompt(s) \/ PushPrompt(s) \/ ClearPrompt(s)
           \/ MissedStart(s) \/ (\E d \in Days : MarkSilent(s, d))
           \/ Remind(s) \/ Unremind(s) \/ TellCharity(s) \/ NoSurplusWrite(s) \/ Die(s)
    PROVE  StandInv'
<1>a. creq[s] \in DayRequest /\ day \in [Days -> DayRow]
  BY DEF DaysTypeOK, StoreTypeOK
<1>b. \A days : Missed(days).op \in {"idle", "missed"}
  BY DEF Missed, DayIdle
<1>c. creq[s] # DayIdle
  <2>1. \/ creq[s].op \in {"open", "prompt", "push", "clear", "sweep", "missed", "remind",
                          "unremind", "tell", "noSurplus"}
        \/ creq[s] # DayIdle
    BY DEF OpenDay, ClaimPrompt, PushPrompt, ClearPrompt, MissedStart, MarkSilent, Remind,
       Unremind, TellCharity, NoSurplusWrite, Die
  <2> QED
    BY <2>1, SMTT(60) DEF DayIdle
<1>d. listing' = listing
  BY DEF OpenDay, ClaimPrompt, PushPrompt, ClearPrompt, MissedStart, MarkSilent, Remind,
     Unremind, TellCharity, NoSurplusWrite, Die, OnlyDays, OnlyHandler, storeVars
<1> DEFINE Plain == {"idle", "open", "prompt", "push", "clear", "missed",
                     "remind", "unremind", "tell"}
           Kept == \A d \in Days :
              /\ day'[d].outcome = "PUBLISHED" <=> day[d].outcome = "PUBLISHED"
              /\ day[d].outcome = "PUBLISHED" => day'[d].listing = day[d].listing
<1>1. \E r : r.op \in Plain /\ Go(s, r)
  <2>1. CASE OpenDay(s)
    <3> DEFINE r == [op |-> "prompt", day |-> creq[s].day]
    <3>1. r.op \in Plain /\ Go(s, r)
      BY <2>1 DEF OpenDay
    <3> HIDE DEF r
    <3> QED
      BY <3>1
  <2>2. CASE ClaimPrompt(s) \/ PushPrompt(s) \/ ClearPrompt(s)
    <3> DEFINE r(op) == [op |-> op, day |-> creq[s].day]
    <3>1. Go(s, DayIdle) \/ Go(s, r("push")) \/ Go(s, r("clear"))
      BY <2>2 DEF ClaimPrompt, PushPrompt, ClearPrompt, Leave
    <3>2. r("push").op = "push" /\ r("clear").op = "clear" /\ DayIdle.op = "idle"
      BY DEF DayIdle
    <3> HIDE DEF r
    <3> QED
      BY <3>1, <3>2
  <2>3. CASE MissedStart(s) \/ Unremind(s) \/ TellCharity(s)
    <3>1. \E days : Go(s, Missed(days))
      BY <2>3 DEF MissedStart, Unremind, TellCharity
    <3> QED
      BY <1>b, <3>1
  <2>4. ASSUME NEW d \in Days, MarkSilent(s, d)
        PROVE  \E r : r.op \in Plain /\ Go(s, r)
    <3> DEFINE r == [op |-> "remind", day |-> d, days |-> creq[s].days \ {d}]
    <3>1. Go(s, r) \/ Go(s, Missed(creq[s].days \ {d}))
      BY <2>4 DEF MarkSilent
    <3>2. r.op = "remind"
      OBVIOUS
    <3> HIDE DEF r
    <3> QED
      BY <1>b, <3>1, <3>2
  <2>5. CASE Remind(s)
    <3>1. creq[s] \in RemindReq
      BY <2>5, <1>a, DayRequestShape DEF Remind
    <3> DEFINE r(op) == [creq[s] EXCEPT !.op = op]
    <3>2. r("tell").op = "tell" /\ r("unremind").op = "unremind"
      BY <3>1 DEF RemindReq
    <3>3. Go(s, r("tell")) \/ Go(s, r("unremind"))
      BY <2>5 DEF Remind
    <3> HIDE DEF r
    <3> QED
      BY <3>2, <3>3
  <2>6. CASE NoSurplusWrite(s) \/ Die(s)
    <3>1. Go(s, DayIdle) /\ DayIdle.op = "idle"
      BY <2>6 DEF NoSurplusWrite, Die, Leave, DayIdle
    <3> QED
      BY <3>1
  <2> QED
    BY <2>1, <2>2, <2>3, <2>4, <2>5, <2>6
<1>2. Kept
  <2>1. CASE OpenDay(s)
    <3>1. creq[s].day \in Days
      BY <2>1, <1>a, DayRequestShape DEF OpenDay, PromptReq
    <3> QED
      BY <2>1, <3>1, <1>a DEF OpenDay, OpenRow, Published, DayRow
  <2>2. CASE ClaimPrompt(s) \/ PushPrompt(s) \/ ClearPrompt(s) \/ MissedStart(s)
               \/ Remind(s) \/ TellCharity(s) \/ Die(s)
    BY <2>2 DEF ClaimPrompt, PushPrompt, ClearPrompt, MissedStart, Remind, TellCharity, Die,
       OnlyHandler, storeVars, Published
  <2>3. ASSUME NEW d \in Days, MarkSilent(s, d)
        PROVE  Kept
    <3>1. \/ day' = day
          \/ day[d].outcome = "PROMPTED" /\ day' = [day EXCEPT ![d].outcome = "NO_RESPONSE"]
      BY <2>3 DEF MarkSilent, Silent
    <3> QED
      BY <3>1, <1>a DEF Published, DayRow
  <2>4. CASE Unremind(s)
    <3> DEFINE d == creq[s].day
    <3>1. \/ day' = day
          \/ day[d].outcome = "NO_RESPONSE" /\ day' = [day EXCEPT ![d].outcome = "PROMPTED"]
      BY <2>4 DEF Unremind
    <3> QED
      BY <3>1, <1>a DEF Published, DayRow
  <2>5. CASE NoSurplusWrite(s)
    <3>1. Asked(creq[s].day)
      BY <2>5 DEF StandInv, Stands, StillTrue, NoSurplusWrite
    <3>2. day' = [day EXCEPT ![creq[s].day].outcome = "NO_SURPLUS"]
      BY <2>5 DEF NoSurplusWrite
    <3> QED
      BY <3>1, <3>2, <1>a DEF Published, DayRow, Asked
  <2> QED
    BY <2>1, <2>2, <2>3, <2>4, <2>5
<1>3. PICK r : r.op \in Plain /\ Go(s, r)
  BY <1>1
<1>4. r.op \in {"idle", "open", "prompt", "push", "clear", "missed",
                 "remind", "unremind", "tell"}
  BY <1>3
<1> QED
  BY <1>c, <1>d, <1>2, <1>3, <1>4, QuietStep
(* What is true of the tables stays true while they do not change. *)
LEMMA StillTrueKept ==
    ASSUME UNCHANGED <<day, listing>>, NEW r, StillTrue(r)
    PROVE  StillTrue(r)'
BY DEF StillTrue, StillPublished, Holds, Published, Asked, OpenListing

(* A handler begins with what it has read, which is true. *)
LEMMA EnterStep ==
    ASSUME DaysTypeOK, StandInv, NotOvertaken, NEW s \in Slots, NEW r,
           Enter(s, r), OnlyHandler, StillTrue(r)
    PROVE  StandInv'
<1>1. day' = day /\ listing' = listing
  BY DEF OnlyHandler, storeVars
<1>2. StillTrue(r)'
  BY <1>1, StillTrueKept
<1>3. TablesAgree'
  BY <1>1, SameAgreement DEF StandInv, Published
<1>4. Go(s, r)
  BY DEF Enter, Go
<1> QED
  BY <1>2, <1>3, <1>4, HandlerStep

LEMMA ReadStands ==
    ASSUME DaysTypeOK, StandInv, NotOvertaken, NEW s \in Slots, NEW d \in Days,
           NEW to \in Days, NEW trigger, NEW fresh,
           \/ PromptStart(s, d) \/ SurplusRead(s, d) \/ NoSurplusRead(s, d)
           \/ ReleaseRead(s, d, trigger, fresh) \/ MoveRead(s, d, to)
    PROVE  StandInv'
<1>1. CASE PromptStart(s, d)
  <2> DEFINE r == [op |-> "open", day |-> d]
  <2>1. StillTrue(r)
    BY DEF StillTrue
  <2>2. Enter(s, r) /\ OnlyHandler
    BY <1>1 DEF PromptStart
  <2> QED
    BY <2>1, <2>2, EnterStep
<1>2. CASE SurplusRead(s, d) \/ NoSurplusRead(s, d)
  <2> DEFINE r(op) == [op |-> op, day |-> d]
  <2>1. Asked(d)
    BY <1>2 DEF SurplusRead, NoSurplusRead, Answerable, Asked
  <2>2. StillTrue(r("surplus")) /\ StillTrue(r("noSurplus"))
    BY <2>1 DEF StillTrue
  <2>3. OnlyHandler /\ (Enter(s, r("surplus")) \/ Enter(s, r("noSurplus")))
    BY <1>2 DEF SurplusRead, NoSurplusRead
  <2> HIDE DEF r
  <2> QED
    BY <2>2, <2>3, EnterStep
<1>3. CASE ReleaseRead(s, d, trigger, fresh)
  <2> DEFINE r == [op |-> "release", day |-> d, listing |-> day[d].listing,
                   trigger |-> trigger, fresh |-> fresh, todo |-> {}]
  <2>1. Holds(d, day[d].listing)
    BY <1>3 DEF ReleaseRead, Holds, Published
  <2>2. StillTrue(r)
    BY <2>1 DEF StillTrue, StillPublished
  <2>3. Enter(s, r) /\ OnlyHandler
    BY <1>3 DEF ReleaseRead
  <2> HIDE DEF r
  <2> QED
    BY <2>2, <2>3, EnterStep
<1>4. CASE MoveRead(s, d, to)
  <2> DEFINE r == [op |-> "target", from |-> d, to |-> to, listing |-> day[d].listing]
  <2>1. Holds(d, day[d].listing) /\ d # to
    BY <1>4 DEF MoveRead, Holds, Published
  <2>2. StillTrue(r)
    BY <2>1 DEF StillTrue
  <2>3. Enter(s, r) /\ OnlyHandler
    BY <1>4 DEF MoveRead
  <2> HIDE DEF r
  <2> QED
    BY <2>2, <2>3, EnterStep
<1> QED
  BY <1>1, <1>2, <1>3, <1>4

LEMMA SweepStartStands ==
    ASSUME DaysTypeOK, StandInv, NotOvertaken, NEW s \in Slots, SweepStart(s)
    PROVE  StandInv'
<1> DEFINE r == [op |-> "sweep", todo |-> PublishedDays]
<1>1. \A e \in PublishedDays :
        \E x \in Days : /\ day[x].outcome = "PUBLISHED"
                       /\ e = [day |-> x, listing |-> day[x].listing,
                              late |-> info[x].late, responded |-> info[x].responded]
  BY DEF PublishedDays
<1>2. StillPublished(PublishedDays)
  BY <1>1 DEF StillPublished, Holds, Published
<1>3. StillTrue(r)
  BY <1>2 DEF StillTrue
<1>4. Enter(s, r) /\ OnlyHandler
  BY DEF SweepStart
<1> HIDE DEF r
<1> QED
  BY <1>3, <1>4, EnterStep

(* The clock, the connections and the recovery of pushes. *)
LEMMA EnvironmentStands ==
    ASSUME DaysTypeOK, StandInv, NEW d,
           Tick \/ ConnectionChanges(d) \/ RecoverPush(d) \/ UNCHANGED allVars
    PROVE  StandInv'
<1>1. creq' = creq /\ day' = day
  BY DEF Tick, ConnectionChanges, RecoverPush, storeVars, daysVars, allVars
<1>2. \A l \in Listings : /\ listing'[l].status = listing[l].status
                          /\ listing'[l].released = listing[l].released
                          /\ listing'[l].exclusiveTo = listing[l].exclusiveTo
  <2>1. CASE Tick
    <3>1. \A l \in Listings : \/ listing'[l] = [listing[l] EXCEPT !.due = TRUE]
                              \/ listing'[l] = listing[l]
      BY <2>1 DEF Tick
    <3>2. \A l \in Listings : listing[l] \in ListingRow
      BY DEF DaysTypeOK, StoreTypeOK
    <3> QED
      BY <3>1, <3>2 DEF ListingRow
  <2>2. CASE ~Tick
    BY <2>2 DEF ConnectionChanges, RecoverPush, OnlyDays, storeVars, allVars
  <2> QED
    BY <2>1, <2>2
<1>3. TablesAgree'
  BY <1>1, <1>2, SameAgreement DEF StandInv, Published
<1>4. \A s \in Slots : Stands(s)'
  <2>1. ASSUME NEW s \in Slots
        PROVE  Stands(s)'
    <3>1. PICK r : r = creq[s]
      OBVIOUS
    <3>2. StillTrue(r) /\ r \in DayRequest
      BY <3>1 DEF StandInv, Stands, DaysTypeOK
    <3>3. r.op = "close" => OpenListing(day[r.day].listing)' = OpenListing(day[r.day].listing)
      <4>1. r.op = "close" => r.day \in Days /\ Published(r.day)
        BY <3>2, DayRequestShape DEF StillTrue, CloseReq
      <4>2. r.op = "close" => day[r.day].listing \in Listings
        BY <4>1 DEF StandInv, TablesAgree, DaysTypeOK, StoreTypeOK, DayRow
      <4> QED
        BY <1>1, <1>2, <4>2 DEF OpenListing
    <3>4. StillTrue(r)'
      BY <1>1, <3>2, <3>3 DEF StillTrue, StillPublished, Holds, Published, Asked
    <3>5. r = creq[s]'
      BY <1>1, <3>1
    <3> QED
      BY <3>4, <3>5, Zenon DEF Stands
  <2> QED
    BY <2>1
<1> QED
  BY <1>3, <1>4 DEF StandInv
(* The cut-off sweep. *)
LEMMA SweepDayStands ==
    ASSUME DaysTypeOK, StandInv, NotOvertaken, NEW w \in Slots, NEW e \in Pending, SweepDay(w, e)
    PROVE  StandInv'
<1> DEFINE rest == creq[w].todo \ {e}
           sweep == [op |-> "sweep", todo |-> rest]
           close == [op |-> "close", day |-> e.day, todo |-> rest]
           release == [op |-> "release", day |-> e.day, listing |-> e.listing,
                       trigger |-> "AUTO_RELEASED", fresh |-> listing[e.listing].due,
                       todo |-> rest]
<1>a. creq[w].op = "sweep" /\ e \in creq[w].todo /\ day' = day /\ listing' = listing
  BY DEF SweepDay, OnlyDays
<1>1. StillPublished(creq[w].todo)
  BY <1>a DEF StandInv, Stands, StillTrue
<1>2. /\ Holds(e.day, e.listing)
      /\ StillPublished(rest)
      /\ \A f \in rest : f.day # e.day
  BY <1>1, <1>a DEF StillPublished
<1>3. StillTrue(sweep)
  BY <1>2 DEF StillTrue
<1>4. StillTrue(release)
  BY <1>2 DEF StillTrue
<1>5. ~OpenListing(e.listing) => StillTrue(close)
  BY <1>2 DEF StillTrue, Holds
<1>6. \/ Go(w, sweep)
      \/ Go(w, release)
      \/ Go(w, close) /\ listing[e.listing].status \in {"EXPIRED", "CANCELLED"}
  BY DEF SweepDay
<1>7. PICK r : Go(w, r) /\ StillTrue(r)
  <2> HIDE DEF sweep, close, release
  <2> QED
    BY <1>3, <1>4, <1>5, <1>6 DEF OpenListing
<1>8. StillTrue(r)'
  BY <1>a, <1>7, StillTrueKept
<1>9. TablesAgree'
  BY <1>a, SameAgreement DEF StandInv, Published
<1>10. creq[w] # DayIdle
  BY <1>a DEF DayIdle
<1> QED
  BY <1>7, <1>8, <1>9, <1>10, HandlerStep

(* A day stops being PUBLISHED; what a sweep has still to look at are others. *)
LEMMA StopPublishing ==
    ASSUME DaysTypeOK, TablesAgree, NEW d \in Days, Published(d),
           NEW o \in ConnectionDayOutcome, o # "PUBLISHED",
           day' = [day EXCEPT ![d].outcome = o],
           \A l \in Listings :
              /\ listing'[l].status = listing[l].status
              /\ listing'[l].exclusiveTo = listing[l].exclusiveTo
              /\ l # day[d].listing => listing'[l].released = listing[l].released,
           \/ ~OpenListing(day[d].listing)
           \/ listing'[day[d].listing].released # "NO"
    PROVE  /\ TablesAgree'
           /\ \A todo : StillPublished(todo) /\ (\A e \in todo : e.day # d) /\ todo \subseteq Pending
                 => StillPublished(todo)'
<1>a. day \in [Days -> DayRow] /\ \A e \in Days : day[e].listing \in Listings \cup {Null}
  BY DEF DaysTypeOK, StoreTypeOK, DayRow
<1>1. \A e \in Days : /\ day'[e].listing = day[e].listing
                      /\ day'[e].outcome = IF e = d THEN o ELSE day[e].outcome
  BY <1>a DEF DayRow
<1>2. \A e \in Days : Published(e)' <=> Published(e) /\ e # d
  BY <1>1 DEF Published
<1>3. \A e \in Days : \A l : Holds(e, l)' <=> Holds(e, l) /\ e # d
  BY <1>1, <1>2 DEF Holds
<1>4. ASSUME NEW e \in Days, Published(e)'
      PROVE  /\ day'[e].listing # Null
             /\ listing'[day'[e].listing].status # "NONE"
             /\ listing'[day'[e].listing].released = "NO"
             /\ listing'[day'[e].listing].exclusiveTo = Receiver[e]
  <2>1. Published(e) /\ e # d
    BY <1>2, <1>4
  <2>2. day[e].listing \in Listings /\ day[e].listing # day[d].listing
    BY <1>a, <2>1 DEF TablesAgree, Holds
  <2>3. /\ listing[day[e].listing].status # "NONE"
        /\ listing[day[e].listing].released = "NO"
        /\ listing[day[e].listing].exclusiveTo = Receiver[e]
    BY <2>1 DEF TablesAgree
  <2> QED
    BY <1>1, <1>a, <2>2, <2>3, StoreAssumption
<1>5. ASSUME NEW e \in Days, NEW f \in Days, Published(e)', Holds(f, day[e].listing)'
      PROVE  e = f
  <2>1. Holds(f, day[e].listing) /\ Published(e)
    BY <1>1, <1>2, <1>5 DEF Holds
  <2> QED
    BY <2>1 DEF TablesAgree
<1>6. ASSUME NEW l \in Listings, OpenListing(l)', isExclusive(listing[l])'
      PROVE  \E e \in Days : Holds(e, l)'
  <2>1. OpenListing(l) /\ l # day[d].listing
    BY <1>6 DEF OpenListing, isExclusive
  <2>2. isExclusive(listing[l])
    BY <2>1, <1>6 DEF isExclusive
  <2>3. PICK e \in Days : Holds(e, l)
    BY <2>1, <2>2 DEF TablesAgree
  <2>4. e # d
    BY <2>1, <2>3 DEF Holds
  <2> QED
    BY <1>3, <2>3, <2>4
<1>7. ASSUME NEW l \in Listings, listing'[l].status = "NONE"
      PROVE  listing'[l].released = "NO"
  <2>1. listing[l].status = "NONE" /\ listing[l].released = "NO"
    BY <1>7 DEF TablesAgree
  <2>2. l # day[d].listing
    BY <2>1 DEF TablesAgree
  <2> QED
    BY <2>1, <2>2
<1>8. TablesAgree'
  BY <1>4, <1>5, <1>6, <1>7 DEF TablesAgree
<1>9. ASSUME NEW todo, StillPublished(todo), \A e \in todo : e.day # d, todo \subseteq Pending
      PROVE  StillPublished(todo)'
  <2>1. \A e \in todo : e.day \in Days
    BY <1>9 DEF Pending
  <2> QED
    BY <1>3, <1>9, <2>1 DEF StillPublished
<1> QED
  BY <1>8, <1>9

LEMMA CloseDayStands ==
    ASSUME DaysTypeOK, StandInv, NotOvertaken, NEW w \in Slots, CloseDay(w)
    PROVE  StandInv'
<1> DEFINE d == creq[w].day
           r == [op |-> "sweep", todo |-> creq[w].todo]
<1>1. creq[w] \in CloseReq /\ creq[w] \in DayRequest
  BY DayRequestShape DEF CloseDay, DaysTypeOK
<1>2. d \in Days /\ creq[w].todo \subseteq Pending
  BY <1>1 DEF CloseReq
<1>3. StillTrue(creq[w]) /\ creq[w].op = "close"
  BY DEF StandInv, Stands, CloseDay
<1>4. /\ Published(d) /\ ~OpenListing(day[d].listing)
      /\ StillPublished(creq[w].todo)
      /\ \A e \in creq[w].todo : e.day # d
  BY <1>3 DEF StillTrue
<1>5. day' = [day EXCEPT ![d].outcome = "MISSED"] /\ listing' = listing /\ Go(w, r)
  BY DEF CloseDay, OnlyDays
<1>6. PICK todo : todo = creq[w].todo
  OBVIOUS
<1>7. TablesAgree' /\ StillPublished(todo)'
  <2> HIDE DEF d, r
  <2> QED
    BY <1>2, <1>4, <1>5, <1>6, StopPublishing DEF StandInv, ConnectionDayOutcome
<1> DEFINE q == [op |-> "sweep", todo |-> todo]
<1>8. StillTrue(q)'
  BY <1>7 DEF StillTrue
<1>9. Go(w, q) /\ creq[w] # DayIdle
  BY <1>3, <1>5, <1>6 DEF DayIdle
<1> HIDE DEF q
<1> QED
  BY <1>7, <1>8, <1>9, HandlerStep
(* Release. *)
LEMMA ReleaseStands ==
    ASSUME DaysTypeOK, StandInv, NotOvertaken, NEW s \in Slots, ReleaseWrite(s)
    PROVE  StandInv'
<1>1. creq[s] \in ReleaseReq
  BY DayRequestShape DEF ReleaseWrite, DaysTypeOK
<1>2. PICK d \in Days, l \in Listings, trigger \in ListingReleaseReason, fresh \in BOOLEAN,
           todo \in SUBSET Pending :
        creq[s] = [op |-> "release", day |-> d, listing |-> l, trigger |-> trigger,
                   fresh |-> fresh, todo |-> todo]
  BY <1>1 DEF ReleaseReq
<1>3. Holds(d, l) /\ StillPublished(todo) /\ \A e \in todo : e.day # d
  <2>1. StillTrue(creq[s])
    BY DEF StandInv, Stands
  <2> QED
    BY <1>2, <2>1 DEF StillTrue
<1>4. /\ listing' = [listing EXCEPT ![l].released = trigger, ![l].due = @ /\ ~fresh]
      /\ day' = [day EXCEPT ![d].outcome = "RELEASED"]
  BY <1>2 DEF ReleaseWrite
<1>5. \A k \in Listings : /\ listing'[k].status = listing[k].status
                          /\ listing'[k].exclusiveTo = listing[k].exclusiveTo
                          /\ listing'[k].released = IF k = l THEN trigger ELSE listing[k].released
  BY <1>4 DEF DaysTypeOK, StoreTypeOK, ListingRow
<1>6. TablesAgree' /\ StillPublished(todo)'
  <2>1. Published(d) /\ day[d].listing = l /\ trigger # "NO"
    BY <1>3 DEF Holds, ListingReleaseReason
  <2>2. TablesAgree
    BY DEF StandInv
  <2>3. \A k \in Listings :
          /\ listing'[k].status = listing[k].status
          /\ listing'[k].exclusiveTo = listing[k].exclusiveTo
          /\ k # day[d].listing => listing'[k].released = listing[k].released
    BY <1>5, <2>1
  <2>4. listing'[day[d].listing].released # "NO"
    BY <1>5, <2>1
  <2>5. "RELEASED" \in ConnectionDayOutcome /\ "RELEASED" # "PUBLISHED"
    BY DEF ConnectionDayOutcome
  <2> QED
    BY <1>3, <1>4, <2>1, <2>2, <2>3, <2>4, <2>5, StopPublishing
<1> DEFINE q == [op |-> "sweep", todo |-> todo]
<1>7. StillTrue(q)' /\ StillTrue(DayIdle)'
  BY <1>6 DEF StillTrue, DayIdle
<1>8. Go(s, q) \/ Go(s, DayIdle)
  BY <1>2 DEF ReleaseWrite, Leave
<1>9. creq[s] # DayIdle
  BY <1>2 DEF DayIdle
<1> HIDE DEF q
<1> QED
  BY <1>6, <1>7, <1>8, <1>9, HandlerStep

(* Reassignment: the row of the other connection ... *)
LEMMA MoveTargetStands ==
    ASSUME DaysTypeOK, StandInv, NotOvertaken, NEW s \in Slots, MoveTarget(s)
    PROVE  StandInv'
<1>1. creq[s] \in MoveReq
  BY DayRequestShape DEF MoveTarget, DaysTypeOK
<1>2. PICK from \in Days, to \in Days, l \in Listings :
        creq[s] = [op |-> "target", from |-> from, to |-> to, listing |-> l]
  BY <1>1 DEF MoveReq, MoveTarget
<1>3. Holds(from, l) /\ from # to
  <2>1. StillTrue(creq[s])
    BY DEF StandInv, Stands
  <2> QED
    BY <1>2, <2>1 DEF StillTrue
<1> DEFINE q == [op |-> "move", from |-> from, to |-> to, listing |-> l]
<1>4. /\ day' = OpenRow(to) /\ listing' = listing
      /\ \/ Go(s, DayIdle)
         \/ Go(s, q) /\ day'[to].outcome \in {"PROMPTED", "NO_RESPONSE"}
  <2> DEFINE x == [creq[s] EXCEPT !.op = "move"]
  <2>1. x = q
    BY <1>2
  <2>2. creq[s].to = to
    BY <1>2
  <2>3. day' = OpenRow(creq[s].to) /\ listing' = listing
    BY DEF MoveTarget, OnlyDays
  <2>4. \/ Go(s, DayIdle)
        \/ /\ Go(s, x)
           /\ day'[creq[s].to].outcome \in {"PROMPTED", "NO_RESPONSE"}
    BY DEF MoveTarget, Leave
  <2> HIDE DEF q, x
  <2>5. day' = OpenRow(to) /\ listing' = listing
    BY <2>2, <2>3 DEF OpenRow
  <2> QED
    BY <2>1, <2>2, <2>4, <2>5 DEF Go
<1>5. \A d \in Days : /\ day'[d].outcome = "PUBLISHED" <=> day[d].outcome = "PUBLISHED"
                      /\ day'[d].listing = day[d].listing
  BY <1>4 DEF OpenRow, DaysTypeOK, StoreTypeOK, DayRow
<1>6. TablesAgree'
  BY <1>4, <1>5, SameAgreement DEF StandInv, Published
<1>7. StillTrue(DayIdle)'
  BY DEF StillTrue, DayIdle
<1>8. day'[to].outcome \in {"PROMPTED", "NO_RESPONSE"} => StillTrue(q)'
  BY <1>3, <1>5 DEF StillTrue, Holds, Published, Asked
<1>9. creq[s] # DayIdle
  BY <1>2 DEF DayIdle
<1> HIDE DEF q
<1> QED
  BY <1>4, <1>6, <1>7, <1>8, <1>9, HandlerStep

(* ... and its three updates. *)
LEMMA MoveWriteStands ==
    ASSUME DaysTypeOK, StandInv, NotOvertaken, NEW s \in Slots, MoveWrite(s)
    PROVE  /\ StandInv'
           /\ \A l \in Listings : listing[l].released # "NO" => listing'[l].released # "NO"
<1>a. /\ day \in [Days -> DayRow] /\ listing \in [Listings -> ListingRow]
      /\ \A e \in Days : day[e].listing \in Listings \cup {Null}
  BY DEF DaysTypeOK, StoreTypeOK, DayRow
<1>b. TablesAgree
  BY DEF StandInv
<1>1. creq[s] \in MoveReq
  BY DayRequestShape, SMTT(60) DEF MoveWrite, DaysTypeOK
<1>2. PICK from \in Days, to \in Days, m \in Listings :
        creq[s] = [op |-> "move", from |-> from, to |-> to, listing |-> m]
  BY <1>1 DEF MoveReq, MoveWrite
<1>3. Holds(from, m) /\ from # to /\ Asked(to)
  <2>1. StillTrue(creq[s])
    BY DEF StandInv, Stands
  <2> QED
    BY <1>2, <2>1 DEF StillTrue
<1>4. /\ day' = [day EXCEPT ![from] = [outcome |-> "RELEASED", listing |-> Null],
                            ![to] = [outcome |-> "PUBLISHED", listing |-> m]]
      /\ listing' = [listing EXCEPT ![m].exclusiveTo = Receiver[to],
                                    ![m].released = "NO",
                                    ![m].due = now >= Schedule[to].end]
      /\ Go(s, DayIdle)
  BY <1>2 DEF MoveWrite, Leave
<1>5. \A e \in Days : day'[e] = IF e = to THEN [outcome |-> "PUBLISHED", listing |-> m]
                                 ELSE IF e = from THEN [outcome |-> "RELEASED", listing |-> Null]
                                 ELSE day[e]
  BY <1>4, <1>a, <1>3
<1>6. \A k \in Listings :
        /\ listing'[k].status = listing[k].status
        /\ listing'[k].released = IF k = m THEN "NO" ELSE listing[k].released
        /\ listing'[k].exclusiveTo = IF k = m THEN Receiver[to] ELSE listing[k].exclusiveTo
  BY <1>4, <1>a DEF ListingRow
<1>7. listing[m].status # "NONE" /\ listing[m].released = "NO"
  BY <1>3, <1>b DEF TablesAgree, Holds
<1>8. \A e \in Days : \A k :
        Holds(e, k)' <=> \/ e = to /\ k = m
                         \/ e # to /\ e # from /\ Holds(e, k)
  BY <1>5 DEF Holds, Published
<1>9. ASSUME NEW e \in Days, Published(e)'
      PROVE  /\ day'[e].listing # Null
             /\ listing'[day'[e].listing].status # "NONE"
             /\ listing'[day'[e].listing].released = "NO"
             /\ listing'[day'[e].listing].exclusiveTo = Receiver[e]
  <2>1. CASE e = to
    BY <1>5, <1>6, <1>7, <2>1, StoreAssumption
  <2>2. CASE e # to
    <3>1. Published(e) /\ e # from /\ day'[e] = day[e]
      BY <1>5, <1>9, <2>2 DEF Published
    <3>2. /\ day[e].listing \in Listings
          /\ day[e].listing # m
      BY <1>a, <1>b, <1>3, <3>1 DEF TablesAgree, Holds
    <3>3. /\ listing[day[e].listing].status # "NONE"
          /\ listing[day[e].listing].released = "NO"
          /\ listing[day[e].listing].exclusiveTo = Receiver[e]
      BY <1>b, <3>1 DEF TablesAgree
    <3> QED
      BY <1>6, <3>1, <3>2, <3>3, StoreAssumption
  <2> QED
    BY <2>1, <2>2
<1>10. ASSUME NEW e \in Days, NEW f \in Days, Published(e)', Holds(f, day[e].listing)'
       PROVE  e = f
  <2>1. \A x, y \in Days : \A k : Holds(x, k) /\ Holds(y, k) => x = y
    BY <1>b DEF TablesAgree, Holds
  <2>2. Holds(e, day[e].listing)'
    BY <1>10 DEF Holds
  <2>3. PICK k : k = day'[e].listing
    OBVIOUS
  <2>4. Holds(e, k)' /\ Holds(f, k)'
    BY <2>2, <2>3, <1>10 DEF Holds
  <2> QED
    BY <1>3, <1>8, <2>1, <2>4
<1>11. ASSUME NEW l \in Listings, OpenListing(l)', isExclusive(listing[l])'
       PROVE  \E e \in Days : Holds(e, l)'
  <2>1. CASE l = m
    BY <1>8, <2>1
  <2>2. CASE l # m
    <3>1. OpenListing(l) /\ isExclusive(listing[l])
      BY <1>6, <1>11, <2>2 DEF OpenListing, isExclusive
    <3>2. PICK e \in Days : Holds(e, l)
      BY <1>b, <3>1 DEF TablesAgree
    <3>3. e # to /\ e # from
      BY <1>3, <3>2, <2>2 DEF Holds, Asked, Published
    <3> QED
      BY <1>8, <3>2, <3>3
  <2> QED
    BY <2>1, <2>2
<1>12. ASSUME NEW l \in Listings, listing'[l].status = "NONE"
       PROVE  listing'[l].released = "NO"
  BY <1>6, <1>12, <1>b DEF TablesAgree
<1>13. TablesAgree'
  BY <1>9, <1>10, <1>11, <1>12 DEF TablesAgree
<1>14. StillTrue(DayIdle)' /\ creq[s] # DayIdle
  BY <1>2 DEF StillTrue, DayIdle
<1>15. StandInv'
  BY <1>4, <1>13, <1>14, HandlerStep
<1> QED
  BY <1>6, <1>7, <1>15
(* The surplus of a day. *)
LEMMA SurplusStands ==
    ASSUME DaysTypeOK, StandInv, NotOvertaken, NEW s \in Slots, NEW m \in Listings, NEW qty \in Surplus,
           SurplusWrite(s, m, qty)
    PROVE  /\ StandInv'
           /\ \A l \in Listings : listing[l].released # "NO" => listing'[l].released # "NO"
<1>a. /\ day \in [Days -> DayRow] /\ listing \in [Listings -> ListingRow]
      /\ \A e \in Days : day[e].listing \in Listings \cup {Null}
  BY DEF DaysTypeOK, StoreTypeOK, DayRow
<1>b. TablesAgree
  BY DEF StandInv
<1>1. creq[s] \in AnswerReq /\ creq[s].op = "surplus"
  BY DayRequestShape DEF SurplusWrite, DaysTypeOK
<1>2. PICK d \in Days : creq[s] = [op |-> "surplus", day |-> d]
  BY <1>1 DEF AnswerReq
<1>3. Asked(d)
  <2>1. StillTrue(creq[s])
    BY DEF StandInv, Stands
  <2> QED
    BY <1>2, <2>1 DEF StillTrue
<1>4. /\ day' = [day EXCEPT ![d].outcome = "PUBLISHED", ![d].listing = m]
      /\ listing' = [listing EXCEPT ![m] =
            [NoListing EXCEPT !.status = "ACTIVE", !.org = Donor,
                              !.total = Kg(qty), !.remaining = Kg(qty),
                              !.exclusiveTo = Receiver[d],
                              !.due = now >= Schedule[d].end]]
      /\ listing[m].status = "NONE"
      /\ Go(s, DayIdle)
  BY <1>2 DEF SurplusWrite, Leave
<1>5. \A e \in Days : /\ day'[e].outcome = IF e = d THEN "PUBLISHED" ELSE day[e].outcome
                      /\ day'[e].listing = IF e = d THEN m ELSE day[e].listing
  BY <1>4, <1>a DEF DayRow
<1>6. \A k \in Listings :
        IF k = m THEN /\ listing'[k].status = "ACTIVE"
                      /\ listing'[k].released = "NO"
                      /\ listing'[k].exclusiveTo = Receiver[d]
                 ELSE listing'[k] = listing[k]
  BY <1>4, <1>a DEF NoListing
<1>7. listing[m].released = "NO" /\ \A e \in Days : ~Holds(e, m)
  BY <1>b, <1>4 DEF TablesAgree, Holds
<1>8. \A e \in Days : \A k :
        Holds(e, k)' <=> \/ e = d /\ k = m
                         \/ e # d /\ Holds(e, k)
  BY <1>5 DEF Holds, Published
<1>9. ASSUME NEW e \in Days, Published(e)'
      PROVE  /\ day'[e].listing # Null
             /\ listing'[day'[e].listing].status # "NONE"
             /\ listing'[day'[e].listing].released = "NO"
             /\ listing'[day'[e].listing].exclusiveTo = Receiver[e]
  <2>1. CASE e = d
    BY <1>5, <1>6, <2>1, StoreAssumption
  <2>2. CASE e # d
    <3>1. Published(e) /\ day'[e].listing = day[e].listing
      BY <1>5, <1>9, <2>2 DEF Published
    <3>2. day[e].listing \in Listings /\ day[e].listing # m
      BY <1>a, <1>b, <1>7, <3>1 DEF TablesAgree, Holds
    <3>3. /\ listing[day[e].listing].status # "NONE"
          /\ listing[day[e].listing].released = "NO"
          /\ listing[day[e].listing].exclusiveTo = Receiver[e]
      BY <1>b, <3>1 DEF TablesAgree
    <3> QED
      BY <1>6, <3>1, <3>2, <3>3, StoreAssumption
  <2> QED
    BY <2>1, <2>2
<1>10. ASSUME NEW e \in Days, NEW f \in Days, Published(e)', Holds(f, day[e].listing)'
       PROVE  e = f
  <2>1. \A x, y \in Days : \A k : Holds(x, k) /\ Holds(y, k) => x = y
    BY <1>b DEF TablesAgree, Holds
  <2>2. Holds(e, day[e].listing)'
    BY <1>10 DEF Holds
  <2>3. PICK k : k = day'[e].listing
    OBVIOUS
  <2>4. Holds(e, k)' /\ Holds(f, k)'
    BY <2>2, <2>3, <1>10 DEF Holds
  <2> QED
    BY <1>7, <1>8, <2>1, <2>4
<1>11. ASSUME NEW l \in Listings, OpenListing(l)', isExclusive(listing[l])'
       PROVE  \E e \in Days : Holds(e, l)'
  <2>1. CASE l = m
    BY <1>8, <2>1
  <2>2. CASE l # m
    <3>1. OpenListing(l) /\ isExclusive(listing[l])
      BY <1>6, <1>11, <2>2 DEF OpenListing, isExclusive
    <3>2. PICK e \in Days : Holds(e, l)
      BY <1>b, <3>1 DEF TablesAgree
    <3>3. e # d
      BY <1>3, <3>2 DEF Holds, Asked, Published
    <3> QED
      BY <1>8, <3>2, <3>3
  <2> QED
    BY <2>1, <2>2
<1>12. ASSUME NEW l \in Listings, listing'[l].status = "NONE"
       PROVE  listing'[l].released = "NO"
  BY <1>6, <1>12, <1>b DEF TablesAgree
<1>13. TablesAgree'
  BY <1>9, <1>10, <1>11, <1>12 DEF TablesAgree
<1>14. StillTrue(DayIdle)' /\ creq[s] # DayIdle
  BY <1>2 DEF StillTrue, DayIdle
<1>15. StandInv'
  BY <1>4, <1>13, <1>14, HandlerStep
<1> QED
  BY <1>6, <1>7, <1>15

(* No step takes back a release. *)
LEMMA ReleaseStays ==
    ASSUME DaysTypeOK, StandInv, [DaysNext /\ NotOvertaken]_allVars
    PROVE  \A l \in Listings : listing[l].released # "NO" => listing'[l].released # "NO"
<1> DEFINE Stays == \A l \in Listings : listing[l].released # "NO" => listing'[l].released # "NO"
<1>1. CASE Tick
  <2>1. \A l \in Listings : \/ listing'[l] = [listing[l] EXCEPT !.due = TRUE]
                            \/ listing'[l] = listing[l]
    BY <1>1 DEF Tick
  <2>2. \A l \in Listings : listing[l] \in ListingRow
    BY DEF DaysTypeOK, StoreTypeOK
  <2> QED
    BY <2>1, <2>2 DEF ListingRow
<1>2. ASSUME NEW s \in Slots, ReleaseWrite(s)
      PROVE  Stays
  <2>1. creq[s] \in ReleaseReq
    BY <1>2, DayRequestShape DEF ReleaseWrite, DaysTypeOK
  <2>2. creq[s].trigger # "NO" /\ creq[s].listing \in Listings
    BY <2>1 DEF ReleaseReq, ListingReleaseReason
  <2>3. listing' = [listing EXCEPT ![creq[s].listing].released = creq[s].trigger,
                                   ![creq[s].listing].due = @ /\ ~creq[s].fresh]
    BY <1>2 DEF ReleaseWrite
  <2> QED
    BY <2>2, <2>3 DEF DaysTypeOK, StoreTypeOK, ListingRow
<1>3. ASSUME NEW s \in Slots, RequestStep(s), NotOvertaken
      PROVE  Stays
  <2>1. CASE OpenDay(s) \/ ClaimPrompt(s) \/ PushPrompt(s) \/ ClearPrompt(s)
               \/ NoSurplusWrite(s) \/ MoveTarget(s)
    BY <2>1, SMTT(60) DEF OpenDay, ClaimPrompt, PushPrompt, ClearPrompt, NoSurplusWrite, MoveTarget, OnlyDays
  <2> QED
    BY <1>2, <1>3, <2>1, SurplusStands, MoveWriteStands DEF RequestStep
<1>4. ASSUME NEW s, NEW d, NEW to, NEW trigger, NEW fresh,
             \/ ConnectionChanges(d) \/ RecoverPush(d) \/ PromptStart(s, d)
             \/ SurplusRead(s, d) \/ NoSurplusRead(s, d) \/ ReleaseRead(s, d, trigger, fresh)
             \/ MoveRead(s, d, to) \/ SweepStart(s) \/ Die(s) \/ SweepStep(s)
             \/ UNCHANGED allVars
      PROVE  listing' = listing
  BY <1>4 DEF ConnectionChanges, RecoverPush, PromptStart, SurplusRead, NoSurplusRead,
     ReleaseRead, MoveRead, SweepStart, Die, SweepStep, SweepDay, CloseDay, MissedStart,
     MarkSilent, Remind, Unremind, TellCharity, OnlyHandler, OnlyDays, storeVars, allVars
<1> QED
  BY <1>1, <1>3, <1>4 DEF DaysNext

LEMMA StandNext ==
    DaysTypeOK /\ StandInv /\ [DaysNext /\ NotOvertaken]_allVars => StandInv'
<1> SUFFICES ASSUME DaysTypeOK, StandInv, [DaysNext /\ NotOvertaken]_allVars PROVE StandInv'
  OBVIOUS
<1>1. ASSUME NEW d, Tick \/ ConnectionChanges(d) \/ RecoverPush(d) \/ UNCHANGED allVars
      PROVE  StandInv'
  BY <1>1, EnvironmentStands
<1>2. ASSUME NEW s \in Slots, NEW d \in Days, NEW to \in Days, NEW trigger, NEW fresh,
             NotOvertaken,
             \/ PromptStart(s, d) \/ SurplusRead(s, d) \/ NoSurplusRead(s, d)
             \/ ReleaseRead(s, d, trigger, fresh) \/ MoveRead(s, d, to)
      PROVE  StandInv'
  BY <1>2, ReadStands
<1>3. ASSUME NEW s \in Slots, SweepStart(s), NotOvertaken
      PROVE  StandInv'
  BY <1>3, SweepStartStands
<1>4. ASSUME NEW s \in Slots, RequestStep(s) \/ SweepStep(s) \/ Die(s), NotOvertaken
      PROVE  StandInv'
  BY <1>4, QuietStands, SweepDayStands, CloseDayStands, SurplusStands, ReleaseStands,
     MoveTargetStands, MoveWriteStands DEF RequestStep, SweepStep
<1> QED
  BY <1>1, <1>2, <1>3, <1>4 DEF DaysNext, Slots

(***************************************************************************)
(* Whatever overlaps and whatever dies in the middle, as long as no        *)
(* handler is overtaken: a listing that is on offer and reserved is the    *)
(* listing of exactly one published day, whose charity it is reserved for. *)
(* The sweeps start from the days, so that food reserved otherwise would   *)
(* never be released.                                                      *)
(***************************************************************************)
THEOREM ReservationsKnownUnlessOvertaken ==
    DaysSpec /\ [][NotOvertaken]_allVars => []ReservationsKnown
<1>1. DaysTypeOK /\ StandInv /\ [DaysNext]_allVars /\ [NotOvertaken]_allVars => StandInv'
  BY StandNext
<1>2. StandInv => ReservationsKnown
  <2> SUFFICES ASSUME StandInv, NEW l \in Listings, OpenListing(l), isExclusive(listing[l])
               PROVE  \E d \in Days :
                        /\ {e \in Days : day[e].outcome = "PUBLISHED" /\ day[e].listing = l} = {d}
                        /\ listing[l].exclusiveTo = Receiver[d]
    BY DEF ReservationsKnown
  <2>1. PICK d \in Days : Holds(d, l)
    BY DEF StandInv, TablesAgree
  <2>2. \A e \in Days : Holds(e, l) => e = d
    BY <2>1 DEF StandInv, TablesAgree, Holds
  <2>3. listing[l].exclusiveTo = Receiver[d]
    BY <2>1 DEF StandInv, TablesAgree, Holds
  <2> QED
    BY <2>1, <2>2, <2>3 DEF Holds, Published
<1> QED
  BY <1>1, <1>2, StandInit, DaysTypeInit, DaysTypeNext, PTL DEF DaysSpec, allVars

(***************************************************************************)
(* Released food stays public, as long as no handler is overtaken:         *)
(* reassigning a day, the one update that reserves a listing again, is     *)
(* only reached with a listing that was never released.                    *)
(***************************************************************************)
THEOREM ReleasedForGoodUnlessOvertaken ==
    DaysSpec /\ [][NotOvertaken]_allVars => ReleasedForGood
<1> DEFINE A == \A l \in Listings : listing[l].released # "NO" => listing'[l].released # "NO"
<1>1. DaysTypeOK /\ StandInv /\ [DaysNext]_allVars /\ [NotOvertaken]_allVars => StandInv'
  BY StandNext
<1>2. DaysTypeOK /\ StandInv /\ [DaysNext]_allVars /\ [NotOvertaken]_allVars => [A]_allVars
  BY ReleaseStays
<1> QED
  BY <1>1, <1>2, StandInit, DaysTypeInit, DaysTypeNext, PTL
     DEF DaysSpec, ReleasedForGood, allVars

-----------------------------------------------------------------------------
(***************************************************************************)
(* Reserved food on the market, where the handlers of ListingClaims run    *)
(* against the same listings.  What a claim found under the row lock stays *)
(* true, because a release and a reassignment wait for the lock; and a     *)
(* listing that has been claimed is never on offer again.                  *)
(***************************************************************************)
Granted ==
    \A s \in Slots :
        req[s].op = "claim" => assertCanClaim(listing[req[s].listing], req[s].org)

ClaimedIsTaken ==
    \A l \in Listings : listing[l].status = "CLAIMED" => listing[l].remaining <= 0

MarketInv == TypeInv /\ DaysTypeOK /\ LockInv /\ Granted /\ ClaimedIsTaken

\* Nothing is left of l, and nothing will be offered of it.
Spent(l) ==
    listing[l].status \in {"CLAIMED", "EXPIRED", "CANCELLED"} /\ listing[l].remaining <= 0

\* A collection in progress that found its listing claimed.
CollectionsSpent ==
    \A s \in Slots :
        req[s].op = "collect" /\ req[s].listingStatus = "CLAIMED"
          => Spent(claim[req[s].claim].listing)

LEMMA MarketInit == Init \/ PromptedInit => MarketInv /\ CollectionsSpent
<1> SUFFICES ASSUME Init \/ PromptedInit PROVE MarketInv /\ CollectionsSpent
  OBVIOUS
<1>1. TablesInit /\ \A s \in Slots : req[s] = Idle
  BY DEF Init, PromptedInit, ClaimsInit, DaysInit, StoreInit
<1>2. req \in [Slots -> Request]
  BY DEF Init, PromptedInit, ClaimsInit, Request
<1>3. day \in [Days -> DayRow]
  <2>1. NoDay \in DayRow /\ [NoDay EXCEPT !.outcome = "PROMPTED"] \in DayRow
    BY DEF NoDay, DayRow, ConnectionDayOutcome
  <2> QED
    BY <2>1 DEF Init, PromptedInit, DaysInit, StoreInit
<1>4. StoreTypeOK
  BY <1>1, <1>3, StoreAssumption DEF TablesInit, StoreTypeOK, NoListing, ListingRow, ItemRow, NoClaim,
     ClaimRow, NoPickup, PickupRow, ListingStatus, ListingTypes, ListingReleaseReason, ClaimStatus,
     DriverPickupStatus, Slots
<1>5. DaysTypeOK
  <2>1. NoInfo \in DayInfo /\ [NoInfo EXCEPT !.prompted = TRUE, !.pushed = 1] \in DayInfo
    BY DEF NoInfo, DayInfo
  <2>2. /\ now = 0 /\ collecting = [d \in Days |-> TRUE] /\ window = [l \in Listings |-> Null]
        /\ creq = [s \in Slots |-> DayIdle]
    BY DEF Init, PromptedInit, DaysInit
  <2>3. info \in [Days -> DayInfo]
    BY <2>1 DEF Init, PromptedInit, DaysInit
  <2> QED
    BY <1>4, <2>2, <2>3, IdleType DEF DaysTypeOK
<1>6. TypeInv
  BY <1>1, <1>2, <1>4 DEF TypeInv, ClaimsTypeOK, ClaimLinks, RequestLinks, TablesInit, NoClaim, Idle,
     OnClaim, OnListing
<1>7. LockInv /\ Granted /\ CollectionsSpent
  BY <1>1 DEF LockInv, Granted, CollectionsSpent, Idle
<1>8. ClaimedIsTaken
  BY <1>1 DEF ClaimedIsTaken, TablesInit, NoListing
<1> QED
  BY <1>5, <1>6, <1>7, <1>8 DEF MarketInv

(* A handler of the claims leaves reservations alone, and ends an offer    *)
(* only by taking all of it or by closing it.                              *)
LEMMA ClaimsOnListings ==
    ASSUME TypeInv, LockInv, [ClaimsNext]_claimsVars, NEW l \in Listings
    PROVE  /\ listing[l].status # "NONE" =>
                /\ listing'[l].exclusiveTo = listing[l].exclusiveTo
                /\ listing'[l].released = listing[l].released
           /\ listing'[l].status = "CLAIMED" =>
                \/ listing[l].status = "CLAIMED" /\ listing'[l].remaining = listing[l].remaining
                \/ listing'[l].remaining <= 0
           /\ ~LockQueryResolves /\ Spent(l) => Spent(l)'
<1>a. listing \in [Listings -> ListingRow]
  BY DEF TypeInv, ClaimsTypeOK, StoreTypeOK
<1> DEFINE Same(k) == /\ listing'[k].exclusiveTo = listing[k].exclusiveTo
                      /\ listing'[k].released = listing[k].released
           Goal == /\ listing[l].status # "NONE" => Same(l)
                   /\ listing'[l].status = "CLAIMED" =>
                        \/ listing[l].status = "CLAIMED" /\ listing'[l].remaining = listing[l].remaining
                        \/ listing'[l].remaining <= 0
                   /\ ~LockQueryResolves /\ Spent(l) => Spent(l)'
<1>1. CASE listing'[l] = listing[l]
  BY <1>1 DEF Spent
<1>2. ASSUME NEW o, NEW k \in Listings, NEW type, NEW qty, CreateListing(o, k, type, qty)
      PROVE  Goal
  <2>1. CASE k = l
    <3>1. listing[l].status = "NONE" /\ listing'[l].status = "ACTIVE"
      BY <1>2, <1>a, <2>1 DEF CreateListing, NoListing
    <3> QED
      BY <3>1 DEF Spent
  <2>2. CASE k # l
    BY <1>1, <1>2, <1>a, <2>2 DEF CreateListing
  <2> QED
    BY <2>1, <2>2
<1>3. ASSUME NEW k \in Listings, DeadlinePasses(k)
      PROVE  Goal
  <2>1. Same(l) /\ listing'[l].status = listing[l].status /\ listing'[l].remaining = listing[l].remaining
    BY <1>3, <1>a DEF DeadlinePasses, ListingRow
  <2> QED
    BY <2>1 DEF Spent
<1>4. ASSUME NEW s \in Slots, CancelListingWrite(s) \/ ExpireWrite(s)
      PROVE  Goal
  <2>1. PICK k, status : /\ status \in {"CANCELLED", "EXPIRED"}
                         /\ listing' = [listing EXCEPT ![k].status = status]
    BY <1>4 DEF CancelListingWrite, ExpireWrite
  <2>2. CASE k = l
    <3>1. Same(l) /\ listing'[l].status = status /\ listing'[l].remaining = listing[l].remaining
      BY <1>a, <2>1, <2>2 DEF ListingRow
    <3> QED
      BY <2>1, <3>1 DEF Spent
  <2>3. CASE k # l
    BY <1>1, <1>a, <2>1, <2>3
  <2> QED
    BY <2>2, <2>3
<1>5. ASSUME NEW s \in Slots, ClaimWrite(s)
      PROVE  Goal
  <2>1. CASE req[s].listing = l
    <3>1. Same(l) /\ listing'[l].remaining = req[s].left /\ listing'[l].status = StatusAfterClaim(req[s].left)
      BY <1>5, <1>a, <2>1 DEF ClaimWrite, ListingRow
    <3>2. OpenListing(l)
      BY <1>5, <2>1 DEF ClaimWrite, LockInv
    <3> QED
      BY <3>1, <3>2 DEF StatusAfterClaim, OpenListing, Spent
  <2>2. CASE req[s].listing # l
    BY <1>1, <1>5, <1>a, <2>2 DEF ClaimWrite
  <2> QED
    BY <2>1, <2>2
<1>6. ASSUME NEW s, NEW o, NEW c \in Claims, CancelClaim(s, o, c)
      PROVE  Goal
  <2>1. CASE ~LockQueryResolves
    BY <1>1, <1>6, <2>1 DEF CancelClaim, storeVars
  <2>2. CASE LockQueryResolves
    <3>1. PICK k, left, status :
             /\ k = claim[c].listing /\ status = StatusAfterCancel(k, left)
             /\ listing' = [listing EXCEPT ![k].remaining = left, ![k].status = status]
      BY <1>6, <2>2 DEF CancelClaim, CancelLocked
    <3>2. CASE k = l
      <4>1. Same(l) /\ listing'[l].status = status
        BY <1>a, <3>1, <3>2 DEF ListingRow
      <4>2. status # "CLAIMED"
        BY <3>1 DEF StatusAfterCancel
      <4> QED
        BY <2>2, <4>1, <4>2
    <3>3. CASE k # l
      BY <1>1, <1>a, <3>1, <3>3, SMTT(60)
    <3> QED
      BY <3>2, <3>3
  <2> QED
    BY <2>1, <2>2
<1>7. ASSUME NEW s \in Slots, NEW o, NEW u, NEW k, NEW c, NEW rate, NEW qty,
             \/ ClaimRead(s, u, k, qty) \/ ConfirmRead(s, o, c) \/ RateRead(s, o, c)
             \/ CollectRead(s, o, c, rate) \/ FeedbackRead(s, o, c, rate)
             \/ CancelListingRead(s, o, k) \/ ExpireRead(s, k)
             \/ ConfirmWrite(s) \/ CollectWrite(s) \/ RateWrite(s) \/ FeedbackWrite(s)
             \/ Crash(s)
      PROVE  UNCHANGED listing
  BY <1>7 DEF ClaimRead, ConfirmRead, RateRead, CollectRead, FeedbackRead, CancelListingRead,
     ExpireRead, ConfirmWrite, CollectWrite, RateWrite, FeedbackWrite, Crash, storeVars
<1>8. CASE UNCHANGED claimsVars
  BY <1>1, <1>8 DEF claimsVars, storeVars
<1>9. CASE ClaimsNext
  BY <1>1, <1>2, <1>3, <1>4, <1>5, <1>6, <1>7, <1>9
     DEF ClaimsNext, ClaimFull, ClaimPartial, Terminate, Slots
<1> QED
  BY <1>8, <1>9

(* Where claims and collections in progress come from. *)
LEMMA RequestsBegin ==
    ASSUME TypeInv, [ClaimsNext]_claimsVars, NEW t \in Slots
    PROVE  /\ req'[t].op = "claim" =>
                \/ req'[t] = req[t]
                \/ UNCHANGED listing /\ assertCanClaim(listing[req'[t].listing], req'[t].org)
           /\ req'[t].op = "collect" =>
                \/ req'[t] = req[t]
                \/ /\ UNCHANGED <<listing, claim>> /\ req'[t].claim \in Claims
                   /\ claim[req'[t].claim].status # "NONE"
                   /\ req'[t].listingStatus = listing[claim[req'[t].claim].listing].status
<1>a. req \in [Slots -> Request]
  BY DEF TypeInv, ClaimsTypeOK
<1> DEFINE Goal ==
       /\ req'[t].op = "claim" =>
            \/ req'[t] = req[t]
            \/ UNCHANGED listing /\ assertCanClaim(listing[req'[t].listing], req'[t].org)
       /\ req'[t].op = "collect" =>
            \/ req'[t] = req[t]
            \/ /\ UNCHANGED <<listing, claim>> /\ req'[t].claim \in Claims
               /\ claim[req'[t].claim].status # "NONE"
               /\ req'[t].listingStatus = listing[claim[req'[t].claim].listing].status
<1>1. ASSUME NEW s \in Slots, NEW r, Start(s, r), s # t
      PROVE  req'[t] = req[t]
  BY <1>1, <1>a DEF Start
<1>2. ASSUME NEW s \in Slots, NEW u, NEW l, NEW qty, ClaimRead(s, u, l, qty)
      PROVE  Goal
  <2>1. CASE s = t
    <3>1. req'[t] = [op |-> "claim", listing |-> l, org |-> u.org, site |-> u.site,
                     qty |-> qty, left |-> listing[l].remaining - Kg(qty)]
      BY <1>2, <1>a, <2>1 DEF ClaimRead, Start
    <3>2. req'[t].op = "claim" /\ req'[t].listing = l /\ req'[t].org = u.org
      BY <3>1
    <3> QED
      BY <1>2, <3>2 DEF ClaimRead
  <2>2. CASE s # t
    BY <1>1, <1>2, <2>2 DEF ClaimRead
  <2> QED
    BY <2>1, <2>2
<1>3. ASSUME NEW s \in Slots, NEW o, NEW c \in Claims, NEW rate, CollectRead(s, o, c, rate)
      PROVE  Goal
  <2>1. CASE s = t
    <3>1. req'[t] = [op |-> "collect", claim |-> c,
                     listingStatus |-> listing[claim[c].listing].status, rate |-> rate]
      BY <1>3, <1>a, <2>1 DEF CollectRead, Start
    <3>2. /\ req'[t].op = "collect" /\ req'[t].claim = c
          /\ req'[t].listingStatus = listing[claim[c].listing].status
      BY <3>1
    <3>3. UNCHANGED <<listing, claim>> /\ claim[c].status # "NONE"
      BY <1>3 DEF CollectRead, storeVars
    <3> QED
      BY <3>2, <3>3
  <2>2. CASE s # t
    BY <1>1, <1>3, <2>2 DEF CollectRead
  <2> QED
    BY <2>1, <2>2
<1>4. ASSUME NEW s \in Slots, NEW r, Start(s, r), r.op \notin {"claim", "collect"}
      PROVE  Goal
  BY <1>1, <1>4, <1>a DEF Start
<1>5. ASSUME NEW s \in Slots, NEW o, NEW l, NEW c, NEW rate,
             \/ ConfirmRead(s, o, c) \/ RateRead(s, o, c) \/ FeedbackRead(s, o, c, rate)
             \/ CancelListingRead(s, o, l) \/ ExpireRead(s, l)
      PROVE  Goal
  <2>1. \E r : Start(s, r) /\ r.op \notin {"claim", "collect"}
    BY <1>5 DEF ConfirmRead, RateRead, FeedbackRead, CancelListingRead, ExpireRead
  <2> QED
    BY <1>4, <2>1
<1>6. ASSUME NEW s \in Slots, Terminate(s) \/ Crash(s)
      PROVE  Goal
  <2>1. Done(s)
    BY <1>6 DEF Terminate, Crash, ClaimWrite, ConfirmWrite, CollectWrite, RateWrite,
       FeedbackWrite, CancelListingWrite, ExpireWrite
  <2> QED
    BY <1>a, <2>1, SMTT(60) DEF Done, Idle
<1>7. CASE UNCHANGED req
  BY <1>7
<1>8. CASE UNCHANGED claimsVars
  BY <1>7, <1>8, SMTT(60) DEF claimsVars
<1>9. CASE ClaimsNext
  BY <1>2, <1>3, <1>5, <1>6, <1>7, <1>9 DEF ClaimsNext, ClaimFull, ClaimPartial,
     CreateListing, DeadlinePasses, CancelClaim, Slots
<1> QED
  BY <1>8, <1>9

(* The connections publish new listings and touch no others, but to end or *)
(* move a reservation, and that only while the row is free.                *)
LEMMA DaysOnListings ==
    ASSUME DaysTypeOK, [DaysNext]_allVars
    PROVE  /\ UNCHANGED <<claim, lock>>
           /\ \A l \in Listings :
                \/ listing[l].status = "NONE" /\ listing'[l].status \in {"NONE", "ACTIVE"}
                \/ /\ listing'[l].status = listing[l].status
                   /\ listing'[l].remaining = listing[l].remaining
                   /\ lock[l] = Null
                        \/ (/\ listing'[l].exclusiveTo = listing[l].exclusiveTo
                            /\ listing'[l].released = listing[l].released)
<1>a. listing \in [Listings -> ListingRow]
  BY DEF DaysTypeOK, StoreTypeOK
<1> DEFINE Kept(l) ==
       \/ listing[l].status = "NONE" /\ listing'[l].status \in {"NONE", "ACTIVE"}
       \/ /\ listing'[l].status = listing[l].status
          /\ listing'[l].remaining = listing[l].remaining
          /\ lock[l] = Null
               \/ (/\ listing'[l].exclusiveTo = listing[l].exclusiveTo
                   /\ listing'[l].released = listing[l].released)
       Goal == UNCHANGED <<claim, lock>> /\ \A l \in Listings : Kept(l)
<1>1. CASE UNCHANGED <<listing, claim, lock>>
  BY <1>1
<1>2. CASE Tick
  <2>1. ASSUME NEW l \in Listings PROVE Kept(l)
    <3>1. listing'[l] = listing[l] \/ listing'[l] = [listing[l] EXCEPT !.due = TRUE]
      BY <1>2 DEF Tick
    <3>2. listing[l] \in ListingRow
      BY <1>a
    <3> QED
      BY <3>1, <3>2 DEF ListingRow
  <2> QED
    BY <1>2, <2>1 DEF Tick
<1>3. ASSUME NEW s \in Slots, NEW k \in Listings, NEW qty, SurplusWrite(s, k, qty)
      PROVE  Goal
  <2>1. listing[k].status = "NONE" /\ listing'[k].status = "ACTIVE"
    BY <1>3, <1>a DEF SurplusWrite, NoListing
  <2>2. \A l \in Listings : l # k => listing'[l] = listing[l]
    BY <1>3, <1>a DEF SurplusWrite
  <2>3. \A l \in Listings : Kept(l)
    BY <2>1, <2>2
  <2> QED
    BY <1>3, <2>3 DEF SurplusWrite
<1>4. ASSUME NEW s \in Slots, ReleaseWrite(s) \/ MoveWrite(s)
      PROVE  Goal
  <2>1. PICK k : k = creq[s].listing
    BY SMTT(60)
  <2>2. lock[k] = Null /\ UNCHANGED <<claim, lock>>
    BY <1>4, <2>1 DEF ReleaseWrite, MoveWrite, RowFree, OnlyListing
  <2>3. CASE ReleaseWrite(s)
    <3>1. listing' = [listing EXCEPT ![k].released = creq[s].trigger, ![k].due = @ /\ ~creq[s].fresh]
      BY <2>1, <2>3 DEF ReleaseWrite
    <3>2. ASSUME NEW l \in Listings PROVE Kept(l)
      <4>1. CASE l = k
        <5>1. listing[l] \in ListingRow
          BY <1>a
        <5>2. /\ listing'[l].status = listing[l].status
              /\ listing'[l].remaining = listing[l].remaining
          BY <1>a, <3>1, <4>1, <5>1 DEF ListingRow
        <5> QED
          BY <2>2, <4>1, <5>2
      <4>2. CASE l # k
        BY <1>a, <3>1, <4>2, SMTT(60)
      <4> QED
        BY <4>1, <4>2
    <3> QED
      BY <2>2, <3>2
  <2>4. CASE MoveWrite(s)
    <3>1. listing' = [listing EXCEPT ![k].exclusiveTo = Receiver[creq[s].to],
                                     ![k].released = "NO",
                                     ![k].due = now >= Schedule[creq[s].to].end]
      BY <2>1, <2>4 DEF MoveWrite
    <3>2. ASSUME NEW l \in Listings PROVE Kept(l)
      <4>1. CASE l = k
        <5>1. listing[l] \in ListingRow
          BY <1>a
        <5>2. /\ listing'[l].status = listing[l].status
              /\ listing'[l].remaining = listing[l].remaining
          BY <1>a, <3>1, <4>1, <5>1 DEF ListingRow
        <5> QED
          BY <2>2, <4>1, <5>2
      <4>2. CASE l # k
        BY <1>a, <3>1, <4>2
      <4> QED
        BY <4>1, <4>2
    <3> QED
      BY <2>2, <3>2
  <2> QED
    BY <1>4, <2>2, <2>3, <2>4
<1>5. ASSUME NEW s \in Slots, RequestStep(s)
      PROVE  Goal
  <2>1. CASE OpenDay(s) \/ ClaimPrompt(s) \/ PushPrompt(s) \/ ClearPrompt(s)
               \/ NoSurplusWrite(s) \/ MoveTarget(s)
    BY <1>1, <2>1, SMTT(60) DEF OpenDay, ClaimPrompt, PushPrompt, ClearPrompt, NoSurplusWrite, MoveTarget, OnlyDays
  <2> QED
    BY <1>3, <1>4, <1>5, <2>1 DEF RequestStep
<1>6. ASSUME NEW s, NEW d, NEW to, NEW trigger, NEW fresh,
             \/ ConnectionChanges(d) \/ RecoverPush(d) \/ PromptStart(s, d)
             \/ SurplusRead(s, d) \/ NoSurplusRead(s, d) \/ ReleaseRead(s, d, trigger, fresh)
             \/ MoveRead(s, d, to) \/ SweepStart(s) \/ Die(s) \/ SweepStep(s)
             \/ UNCHANGED allVars
      PROVE  UNCHANGED <<listing, claim, lock>>
  BY <1>6 DEF ConnectionChanges, RecoverPush, PromptStart, SurplusRead, NoSurplusRead,
     ReleaseRead, MoveRead, SweepStart, Die, SweepStep, SweepDay, CloseDay, MissedStart,
     MarkSilent, Remind, Unremind, TellCharity, OnlyHandler, OnlyDays, storeVars, allVars
<1> QED
  BY <1>1, <1>2, <1>5, <1>6 DEF DaysNext

(* No step of the connections counts a day as collected. *)
LEMMA DaysCountNothing ==
    ASSUME DaysTypeOK, [DaysNext]_allVars, NEW d \in Days, day'[d].outcome = "COLLECTED"
    PROVE  day[d].outcome = "COLLECTED"
<1>a. day \in [Days -> DayRow]
  BY DEF DaysTypeOK, StoreTypeOK
<1>1. ASSUME NEW k, NEW e, e # "COLLECTED", day' = [day EXCEPT ![k].outcome = e]
      PROVE  day[d].outcome = "COLLECTED"
  BY <1>a, <1>1 DEF DayRow
<1>2. ASSUME NEW k, day' = OpenRow(k)
      PROVE  day[d].outcome = "COLLECTED"
  BY <1>1, <1>2 DEF OpenRow
<1>3. ASSUME NEW s \in Slots, NEW l, NEW qty, SurplusWrite(s, l, qty)
      PROVE  day[d].outcome = "COLLECTED"
  BY <1>a, <1>3, SMTT(60) DEF SurplusWrite, DayRow
<1>4. ASSUME NEW s \in Slots, MoveWrite(s)
      PROVE  day[d].outcome = "COLLECTED"
  BY <1>a, <1>4 DEF MoveWrite, DayRow
<1>5. ASSUME NEW s \in Slots, RequestStep(s)
      PROVE  day[d].outcome = "COLLECTED"
  <2>1. CASE OpenDay(s) \/ MoveTarget(s)
    BY <1>2, <2>1 DEF OpenDay, MoveTarget
  <2>2. CASE ClaimPrompt(s) \/ PushPrompt(s) \/ ClearPrompt(s)
    BY <2>2 DEF ClaimPrompt, PushPrompt, ClearPrompt
  <2>3. CASE NoSurplusWrite(s) \/ ReleaseWrite(s)
    BY <1>1, <2>3 DEF NoSurplusWrite, ReleaseWrite
  <2> QED
    BY <1>3, <1>4, <1>5, <2>1, <2>2, <2>3 DEF RequestStep
<1>6. ASSUME NEW s \in Slots, SweepStep(s)
      PROVE  day[d].outcome = "COLLECTED"
  <2>1. CASE CloseDay(s)
    BY <1>1, <2>1 DEF CloseDay
  <2>2. CASE Unremind(s)
    <3>1. UNCHANGED day \/ day' = [day EXCEPT ![creq[s].day].outcome = "PROMPTED"]
      BY <2>2 DEF Unremind
    <3> QED
      BY <1>1, <3>1
  <2>3. ASSUME NEW e \in Days, MarkSilent(s, e)
        PROVE  day[d].outcome = "COLLECTED"
    <3>1. UNCHANGED day \/ day' = [day EXCEPT ![e].outcome = "NO_RESPONSE"]
      BY <2>3 DEF MarkSilent
    <3> QED
      BY <1>1, <3>1
  <2>4. CASE MissedStart(s) \/ Remind(s) \/ TellCharity(s) \/ \E e \in Pending : SweepDay(s, e)
    BY <2>4 DEF MissedStart, Remind, TellCharity, SweepDay, OnlyHandler, storeVars
  <2> QED
    BY <1>6, <2>1, <2>2, <2>3, <2>4 DEF SweepStep
<1>7. ASSUME NEW s, NEW e, NEW to, NEW trigger, NEW fresh,
             \/ Tick \/ ConnectionChanges(e) \/ RecoverPush(e) \/ PromptStart(s, e)
             \/ SurplusRead(s, e) \/ NoSurplusRead(s, e) \/ ReleaseRead(s, e, trigger, fresh)
             \/ MoveRead(s, e, to) \/ SweepStart(s) \/ Die(s) \/ UNCHANGED allVars
      PROVE  UNCHANGED day
  BY <1>7 DEF Tick, ConnectionChanges, RecoverPush, PromptStart, SurplusRead, NoSurplusRead,
     ReleaseRead, MoveRead, SweepStart, Die, OnlyHandler, storeVars, allVars
<1> QED
  BY <1>5, <1>6, <1>7 DEF DaysNext

(* Of the handlers of the claims only a collection does. *)
LEMMA ClaimsCount ==
    ASSUME TypeInv, [ClaimsNext]_claimsVars, NEW d \in Days,
           day[d].outcome # "COLLECTED", day'[d].outcome = "COLLECTED"
    PROVE  \E s \in Slots :
              /\ req[s].op = "collect" /\ req[s].listingStatus = "CLAIMED"
              /\ day[d].listing = claim[req[s].claim].listing
              /\ UNCHANGED listing
<1>a. day \in [Days -> DayRow]
  BY DEF TypeInv, ClaimsTypeOK, StoreTypeOK
<1> DEFINE Goal == \E s \in Slots :
                      /\ req[s].op = "collect" /\ req[s].listingStatus = "CLAIMED"
                      /\ day[d].listing = claim[req[s].claim].listing
                      /\ UNCHANGED listing
<1>1. CASE UNCHANGED day
  BY <1>1
<1>2. ASSUME NEW s \in Slots, ExpireWrite(s)
      PROVE  FALSE
  BY <1>2, <1>a, SMTT(60) DEF ExpireWrite, SettleDay, DayRow
<1>3. ASSUME NEW s \in Slots, CollectWrite(s)
      PROVE  Goal
  BY <1>3, <1>a, SMTT(60) DEF CollectWrite, CollectDay, SettleDay, DayRow
<1>4. ASSUME NEW s \in Slots, NEW o, NEW u, NEW l, NEW c, NEW rate, NEW qty, NEW type,
             \/ ClaimRead(s, u, l, qty) \/ ConfirmRead(s, o, c) \/ RateRead(s, o, c)
             \/ CollectRead(s, o, c, rate) \/ FeedbackRead(s, o, c, rate)
             \/ CancelListingRead(s, o, l) \/ ExpireRead(s, l)
             \/ ClaimWrite(s) \/ ConfirmWrite(s) \/ RateWrite(s) \/ FeedbackWrite(s)
             \/ CancelListingWrite(s) \/ Crash(s)
             \/ CreateListing(o, l, type, qty) \/ DeadlinePasses(l) \/ CancelClaim(s, o, c)
             \/ UNCHANGED claimsVars
      PROVE  UNCHANGED day
  BY <1>4 DEF ClaimRead, ConfirmRead, RateRead, CollectRead, FeedbackRead, CancelListingRead,
     ExpireRead, ClaimWrite, ConfirmWrite, RateWrite, FeedbackWrite, CancelListingWrite, Crash,
     CreateListing, DeadlinePasses, CancelClaim, CancelLocked, claimsVars, storeVars
<1>5. CASE UNCHANGED claimsVars
  BY <1>1, <1>5 DEF claimsVars, storeVars
<1>6. CASE ClaimsNext
  <2>1. CASE \E s \in Slots : Terminate(s) \/ Crash(s)
    BY <1>1, <1>2, <1>3, <1>4, <2>1 DEF Terminate
  <2>2. CASE UNCHANGED day
    BY <1>1, <2>2
  <2>3. (\E s \in Slots : Terminate(s) \/ Crash(s)) \/ UNCHANGED day
    <3>1. ASSUME NEW o, NEW l, NEW type, NEW qty, CreateListing(o, l, type, qty) \/ DeadlinePasses(l)
          PROVE  UNCHANGED day
      BY <3>1 DEF CreateListing, DeadlinePasses
    <3> QED
      BY <1>4, <1>6, <3>1 DEF ClaimsNext, ClaimFull, ClaimPartial, Slots
  <2> QED
    BY <2>1, <2>2, <2>3
<1> QED
  BY <1>5, <1>6

(* The invariant holds through a handler of the claims ... *)
LEMMA MarketClaimsNext ==
    ASSUME MarketInv, [ClaimsNext]_claimsVars, UNCHANGED daysVars
    PROVE  MarketInv'
<1>1. TypeInv' /\ LockInv'
  BY TypeInvNext, LockInvNext DEF MarketInv
<1>2. DaysTypeOK'
  BY <1>1 DEF MarketInv, DaysTypeOK, TypeInv, ClaimsTypeOK, daysVars
<1>3. Granted'
  <2> SUFFICES ASSUME NEW t \in Slots, req'[t].op = "claim"
               PROVE  assertCanClaim(listing[req[t].listing], req[t].org)'
    BY DEF Granted
  <2>1. CASE UNCHANGED listing /\ assertCanClaim(listing[req'[t].listing], req'[t].org)
    BY <2>1 DEF assertCanClaim, isExclusive
  <2>2. CASE req'[t] = req[t]
    <3>1. PICK l : l = req[t].listing
      OBVIOUS
    <3>2. req[t] \in ClaimReq
      BY <2>2, RequestShape DEF MarketInv, TypeInv, ClaimsTypeOK
    <3>3. l \in Listings /\ listing[l].status # "NONE"
      BY <2>2, <3>1, <3>2 DEF MarketInv, TypeInv, RequestLinks, OnListing, ClaimReq
    <3>4. listing'[l].exclusiveTo = listing[l].exclusiveTo /\ listing'[l].released = listing[l].released
      BY <3>3, ClaimsOnListings DEF MarketInv
    <3>5. assertCanClaim(listing[l], req[t].org)
      BY <2>2, <3>1 DEF MarketInv, Granted
    <3> QED
      BY <2>2, <3>1, <3>4, <3>5 DEF assertCanClaim, isExclusive
  <2> QED
    BY <2>1, <2>2, RequestsBegin DEF MarketInv
<1>4. ClaimedIsTaken'
  BY ClaimsOnListings DEF MarketInv, ClaimedIsTaken
<1> QED
  BY <1>1, <1>2, <1>3, <1>4 DEF MarketInv

(* ... and of the connections. *)
LEMMA MarketDaysNext ==
    ASSUME MarketInv, [DaysNext]_allVars, UNCHANGED req
    PROVE  MarketInv'
<1>a. /\ UNCHANGED <<claim, lock>>
      /\ \A l \in Listings : listing[l].status # "NONE" => listing'[l].status = listing[l].status
      /\ \A l \in Listings : listing[l].status # "NONE" /\ lock[l] # Null
           => /\ listing'[l].exclusiveTo = listing[l].exclusiveTo
              /\ listing'[l].released = listing[l].released
  BY DaysOnListings DEF MarketInv
<1>1. DaysTypeOK'
  BY DaysTypeNext DEF MarketInv
<1>2. TypeInv'
  <2>1. ClaimsTypeOK'
    BY <1>1 DEF MarketInv, TypeInv, ClaimsTypeOK, DaysTypeOK
  <2>2. ClaimLinks'
    BY <1>a DEF MarketInv, TypeInv, ClaimLinks
  <2>3. RequestLinks'
    <3>1. ASSUME NEW s \in Slots, req[s].op \in OnListing
          PROVE  req[s].listing \in Listings
      BY <3>1, RequestShape DEF MarketInv, TypeInv, ClaimsTypeOK, OnListing, ClaimReq,
         CancelListingReq, ExpireReq
    <3> QED
      BY <1>a, <3>1 DEF MarketInv, TypeInv, RequestLinks
  <2> QED
    BY <2>1, <2>2, <2>3 DEF TypeInv
<1>b. ASSUME NEW s \in Slots, req[s].op = "claim"
      PROVE  /\ req[s].listing \in Listings /\ lock[req[s].listing] = s /\ s # Null
             /\ OpenListing(req[s].listing)
  <2>1. req[s] \in ClaimReq
    BY <1>b, RequestShape DEF MarketInv, TypeInv, ClaimsTypeOK
  <2> QED
    BY <1>b, <2>1, StoreAssumption DEF MarketInv, LockInv, ClaimReq
<1>3. LockInv'
  BY <1>a, <1>b DEF LockInv, OpenListing
<1>4. Granted'
  <2> SUFFICES ASSUME NEW s \in Slots, req[s].op = "claim"
               PROVE  assertCanClaim(listing[req[s].listing], req[s].org)'
    BY DEF Granted
  <2>1. PICK l : l = req[s].listing
    OBVIOUS
  <2>2. listing'[l].exclusiveTo = listing[l].exclusiveTo /\ listing'[l].released = listing[l].released
    BY <1>a, <1>b, <2>1 DEF OpenListing
  <2>3. assertCanClaim(listing[l], req[s].org)
    BY <2>1 DEF MarketInv, Granted
  <2> QED
    BY <2>1, <2>2, <2>3 DEF assertCanClaim, isExclusive
<1>5. ClaimedIsTaken'
  BY DaysOnListings DEF MarketInv, ClaimedIsTaken
<1> QED
  BY <1>1, <1>2, <1>3, <1>4, <1>5 DEF MarketInv

LEMMA MarketStep ==
    [Next]_vars => \/ [ClaimsNext]_claimsVars /\ UNCHANGED daysVars
                   \/ [DaysNext]_allVars /\ UNCHANGED req
BY DEF Next, vars, claimsVars, allVars

LEMMA MarketNext == MarketInv /\ [Next]_vars => MarketInv'
BY MarketStep, MarketClaimsNext, MarketDaysNext

LEMMA MarketInvariant == (Spec => []MarketInv) /\ (PromptedSpec => []MarketInv)
<1>1. [PromptedNext]_vars => [Next]_vars
  BY DEF PromptedNext
<1>2. Spec => []MarketInv
  BY MarketInit, MarketNext, PTL DEF Spec
<1>3. PromptedSpec => []MarketInv
  BY <1>1, MarketInit, MarketNext, PTL DEF PromptedSpec
<1> QED
  BY <1>2, <1>3

(***************************************************************************)
(* A claim goes to an organisation that the row granted it to at the very  *)
(* moment it was committed: assertCanClaim looked at the reservation       *)
(* earlier, but the row lock it was read under makes releaseToNetwork and  *)
(* assignSurplus wait, for any number of handlers in progress.             *)
(***************************************************************************)
THEOREM ReservationIsRespected ==
    (Spec => ReservationRespected) /\ (PromptedSpec => ReservationRespected)
<1> DEFINE Step == \A c \in Claims :
                      claim[c].status = "NONE" /\ claim'[c].status # "NONE"
                        => assertCanClaim(listing[claim'[c].listing], claim'[c].org)
<1>1. MarketInv /\ [Next]_vars => Step
  <2> SUFFICES ASSUME MarketInv, [Next]_vars PROVE Step
    OBVIOUS
  <2>1. CASE UNCHANGED claim
    BY <2>1
  <2>2. CASE [ClaimsNext]_claimsVars
    <3>1. CASE SameClaims
      BY <3>1 DEF SameClaims
    <3>2. ASSUME NEW s \in Slots, ClaimWrite(s) PROVE Step
      <4>1. assertCanClaim(listing[req[s].listing], req[s].org)
        BY <3>2 DEF MarketInv, Granted, ClaimWrite
      <4> QED
        BY <3>2, <4>1, ClaimWriteEffect DEF MarketInv
    <3> QED
      BY <2>2, <3>1, <3>2, ClaimsAddedByClaimWrite DEF MarketInv
  <2> QED
    BY <2>1, <2>2, MarketStep, DaysOnListings DEF MarketInv
<1>2. MarketInv /\ [Next]_vars => [Step]_vars
  BY <1>1
<1>3. [PromptedNext]_vars => [Next]_vars
  BY DEF PromptedNext
<1>4. Spec => ReservationRespected
  BY <1>2, MarketInvariant, PTL DEF Spec, ReservationRespected
<1>5. PromptedSpec => ReservationRespected
  BY <1>2, <1>3, MarketInvariant, PTL DEF PromptedSpec, ReservationRespected
<1> QED
  BY <1>4, <1>5

(* Nothing makes a listing claimed but the claim that takes all of it, and *)
(* where no claim is cancelled nothing puts it back on offer.              *)
LEMMA CollectionsSpentNext ==
    ASSUME ~LockQueryResolves, MarketInv, CollectionsSpent, [Next]_vars
    PROVE  CollectionsSpent'
<1> SUFFICES ASSUME NEW t \in Slots, req'[t].op = "collect", req'[t].listingStatus = "CLAIMED"
             PROVE  Spent(claim[req[t].claim].listing)'
  BY DEF CollectionsSpent
<1>a. \A c \in Claims : claim[c].status # "NONE" =>
         claim[c].listing \in Listings /\ claim'[c].listing = claim[c].listing
  <2>1. CASE UNCHANGED claim
    BY <2>1 DEF MarketInv, TypeInv, ClaimLinks
  <2>2. CASE [ClaimsNext]_claimsVars
    <3>1. CASE SameClaims
      BY <3>1 DEF SameClaims, MarketInv, TypeInv, ClaimLinks
    <3>2. ASSUME NEW s \in Slots, ClaimWrite(s)
          PROVE  \A c \in Claims : claim[c].status # "NONE" => claim'[c] = claim[c]
      BY <3>2, ClaimWriteEffect DEF MarketInv
    <3> QED
      BY <2>2, <3>1, <3>2, ClaimsAddedByClaimWrite DEF MarketInv, TypeInv, ClaimLinks
  <2> QED
    BY <2>1, <2>2, MarketStep, DaysOnListings DEF MarketInv
<1>1. CASE req'[t] = req[t]
  <2>1. PICK c : c = req[t].claim
    OBVIOUS
  <2>2. req[t] \in CollectReq
    BY <1>1, RequestShape DEF MarketInv, TypeInv, ClaimsTypeOK
  <2>3. c \in Claims /\ claim[c].status # "NONE"
    BY <1>1, <2>1, <2>2 DEF MarketInv, TypeInv, RequestLinks, OnClaim, CollectReq
  <2>4. PICK l \in Listings : l = claim[c].listing /\ claim'[c].listing = l
    BY <1>a, <2>3
  <2>5. Spent(l)
    BY <1>1, <2>1, <2>4 DEF CollectionsSpent
  <2>6. Spent(l)'
    <3>1. CASE [ClaimsNext]_claimsVars
      BY <2>5, <3>1, ClaimsOnListings DEF MarketInv
    <3>2. CASE [DaysNext]_allVars
      BY <2>5, <3>2, DaysOnListings DEF MarketInv, Spent
    <3> QED
      BY <3>1, <3>2, MarketStep
  <2> QED
    BY <1>1, <2>1, <2>4, <2>6 DEF Spent
<1>2. CASE req'[t] # req[t]
  <2>1. [ClaimsNext]_claimsVars
    BY <1>2, MarketStep
  <2>2. /\ UNCHANGED <<listing, claim>> /\ req'[t].claim \in Claims
        /\ claim[req'[t].claim].status # "NONE"
        /\ req'[t].listingStatus = listing[claim[req'[t].claim].listing].status
    BY <1>2, <2>1, RequestsBegin DEF MarketInv
  <2>3. claim[req'[t].claim].listing \in Listings
    BY <1>a, <2>2
  <2> QED
    BY <2>2, <2>3 DEF MarketInv, ClaimedIsTaken, Spent
<1> QED
  BY <1>1, <1>2

(***************************************************************************)
(* A day is counted as collected only when nothing of its listing is left  *)
(* to claim, although canMarkConnectionDayCollected judges the listing by  *)
(* the status collectClaim read before the update.  Proved for the schema  *)
(* of the repository, in which no claim is cancelled.                      *)
(***************************************************************************)
THEOREM CollectedDaysAreClaimed ==
    ASSUME "listing_id" \notin ClaimColumns
    PROVE  (Spec => CollectedMeansClaimed) /\ (PromptedSpec => CollectedMeansClaimed)
<1>a. ~LockQueryResolves
  BY DEF LockQueryResolves
<1> DEFINE Step == \A d \in Days :
                      day[d].outcome = "PUBLISHED" /\ day'[d].outcome = "COLLECTED"
                        => listing[day[d].listing].remaining <= 0
<1>1. MarketInv /\ CollectionsSpent /\ [Next]_vars => Step
  <2> SUFFICES ASSUME MarketInv, CollectionsSpent, [Next]_vars, NEW d \in Days,
                      day[d].outcome = "PUBLISHED", day'[d].outcome = "COLLECTED"
               PROVE  listing[day[d].listing].remaining <= 0
    OBVIOUS
  <2>1. [ClaimsNext]_claimsVars
    BY MarketStep, DaysCountNothing DEF MarketInv
  <2>2. PICK s \in Slots : /\ req[s].op = "collect" /\ req[s].listingStatus = "CLAIMED"
                           /\ day[d].listing = claim[req[s].claim].listing
    BY <2>1, ClaimsCount DEF MarketInv
  <2> QED
    BY <2>2 DEF CollectionsSpent, Spent
<1>2. MarketInv /\ CollectionsSpent /\ [Next]_vars => [Step]_vars
  BY <1>1
<1>3. MarketInv /\ CollectionsSpent /\ [Next]_vars => CollectionsSpent'
  BY <1>a, CollectionsSpentNext
<1>4. [PromptedNext]_vars => [Next]_vars
  BY DEF PromptedNext
<1>5. Spec => CollectedMeansClaimed
  BY <1>2, <1>3, MarketInit, MarketInvariant, PTL DEF Spec, CollectedMeansClaimed
<1>6. PromptedSpec => CollectedMeansClaimed
  BY <1>2, <1>3, <1>4, MarketInit, MarketInvariant, PTL DEF PromptedSpec, CollectedMeansClaimed
<1> QED
  BY <1>5, <1>6
=============================================================================
