---------------------------- MODULE MarketStore ----------------------------
(***************************************************************************)
(* The PostgreSQL tables that the services of the marketplace share, one   *)
(* variable per table, and the reads several services make of them.        *)
(*                                                                         *)
(* Every service is a set of request handlers.  A handler that reads, then *)
(* decides, then writes without a lock is two steps of the model, so that  *)
(* other handlers run between its read and its write exactly as they do    *)
(* under READ COMMITTED.  The only lock a handler keeps over several       *)
(* statements is the row lock of a listing (SELECT ... FOR UPDATE in       *)
(* claimListing), which is the variable lock.                              *)
(*                                                                         *)
(* Quantities are integers: the kilogram columns are doubles, and their    *)
(* rounding is outside the model.                                          *)
(***************************************************************************)
EXTENDS Integers, FiniteSets, Functions

CONSTANTS
    Orgs,        \* organisation ids
    OrgType,     \* [Orgs -> OrgTypes], fixed for the life of an organisation
    Sites,       \* ids of the claimants' sites
    Listings,    \* ids of food_listings rows
    Items,       \* ids of food_items rows (the same names in every listing)
    MaxClaims,   \* bound on the food_claims rows ever created
    MaxPickups,  \* bound on the driver_pickups rows ever created
    Drivers,     \* users with the DRIVER role on a site
    Days,        \* ids of connection_days rows
    Requests,    \* slots for the HTTP requests in progress at the same time
    Workers,     \* slots for the jobs of the BullMQ workers in progress
    Null

OrgTypes == {"BUSINESS", "CHARITY", "FARMER_CONSUMER"}
ListingTypes == {"HUMAN", "ANIMAL", "BOTH"}
ListingStatus == {"ACTIVE", "PARTIAL", "CLAIMED", "EXPIRED", "CANCELLED"}
ClaimStatus == {"PENDING", "CONFIRMED", "COLLECTED", "CANCELLED"}
DriverPickupStatus ==
    {"ASSIGNED", "ACCEPTED", "EN_ROUTE", "ARRIVED", "COLLECTED", "CANCELLED"}
ConnectionDayOutcome ==
    {"PROMPTED", "PUBLISHED", "NO_SURPLUS", "NO_RESPONSE", "COLLECTED",
     "RELEASED", "MISSED"}
ListingReleaseReason ==
    {"CHARITY_DECLINED", "BUSINESS_RELEASED", "AUTO_RELEASED"}

Claims == 1 .. MaxClaims
Pickups == 1 .. MaxPickups
Slots == Requests \cup Workers

ASSUME StoreAssumption ==
    /\ OrgType \in [Orgs -> OrgTypes]
    /\ MaxClaims \in Nat
    /\ MaxPickups \in Nat
    /\ Null \notin Orgs \cup Sites \cup Listings \cup Slots

\* The dto of a listing is an array of items.
ASSUME ItemsAssumption == IsFiniteSet(Items)

VARIABLES
    listing,     \* food_listings
    stock,       \* food_items: total and remaining kg of every item
    claim,       \* food_claims with their claim_items
    pickup,      \* driver_pickups
    day,         \* connection_days: outcome and the listing published for it
    ratingCount, \* organisations.ratingCount
    lock         \* holder of the row lock of a listing, or Null

storeVars == <<listing, stock, claim, pickup, day, ratingCount, lock>>

(***************************************************************************)
(* Rows.  Status "NONE" is a row that does not exist yet.  due says that   *)
(* the earlier of pickupByTime and bestBefore has passed; released is the  *)
(* releasedReason, "NO" while releasedAt is null.                          *)
(***************************************************************************)
ListingRow ==
    [status: ListingStatus \cup {"NONE"}, org: Orgs \cup {Null},
     type: ListingTypes, total: Int, remaining: Int,
     exclusiveTo: Orgs \cup {Null}, released: ListingReleaseReason \cup {"NO"},
     due: BOOLEAN]

NoListing ==
    [status |-> "NONE", org |-> Null, type |-> "HUMAN", total |-> 0,
     remaining |-> 0, exclusiveTo |-> Null,
     released |-> "NO", due |-> FALSE]

ItemRow == [total: Int, remaining: Int]

ClaimRow ==
    [status: ClaimStatus \cup {"NONE"}, listing: Listings \cup {Null},
     org: Orgs \cup {Null}, site: Sites \cup {Null}, qty: [Items -> Int],
     rated: BOOLEAN, feedback: BOOLEAN]

NoClaim ==
    [status |-> "NONE", listing |-> Null, org |-> Null, site |-> Null,
     qty |-> [i \in Items |-> 0], rated |-> FALSE, feedback |-> FALSE]

PickupRow ==
    [status: DriverPickupStatus \cup {"NONE"}, claim: Claims \cup {0},
     listing: Listings \cup {Null}, driver: Drivers \cup {Null}, done: BOOLEAN]

\* done: collectedAt is set, which nothing clears
NoPickup ==
    [status |-> "NONE", claim |-> 0, listing |-> Null, driver |-> Null, done |-> FALSE]

DayRow == [outcome: ConnectionDayOutcome \cup {"NONE"}, listing: Listings \cup {Null}]

NoDay == [outcome |-> "NONE", listing |-> Null]

StoreTypeOK ==
    /\ listing \in [Listings -> ListingRow]
    /\ stock \in [Listings -> [Items -> ItemRow]]
    /\ claim \in [Claims -> ClaimRow]
    /\ pickup \in [Pickups -> PickupRow]
    /\ day \in [Days -> DayRow]
    /\ ratingCount \in [Orgs -> Int]
    /\ lock \in [Listings -> Slots \cup {Null}]

\* Every table but connection_days is empty.
TablesInit ==
    /\ listing = [l \in Listings |-> NoListing]
    /\ stock = [l \in Listings |-> [i \in Items |-> [total |-> 0, remaining |-> 0]]]
    /\ claim = [c \in Claims |-> NoClaim]
    /\ pickup = [p \in Pickups |-> NoPickup]
    /\ ratingCount = [o \in Orgs |-> 0]
    /\ lock = [l \in Listings |-> Null]

StoreInit == TablesInit /\ day = [d \in Days |-> NoDay]

(***************************************************************************)
(* Sum of the kilograms in f.  Totalised (the test always succeeds on a    *)
(* finite domain) so that its type does not need an induction.             *)
(***************************************************************************)
Kg(f) == IF SumFunction(f) \in Int THEN SumFunction(f) ELSE 0

\* An UPDATE of a listing waits for its row lock.
RowFree(l) == lock[l] = Null

OpenListing(l) == listing[l].status \in {"ACTIVE", "PARTIAL"}

\* connection.rules: reserved for its preferred charity until it is released
isExclusive(row) == row.exclusiveTo # Null /\ row.released = "NO"

\* A claim that is not cancelled holds its food.
LiveClaim(c) == claim[c].status \in ClaimStatus \ {"CANCELLED"}

\* Rows are numbered in the order in which they are inserted (autoincrement).
NextClaim(c) ==
    /\ claim[c].status = "NONE"
    /\ \A b \in Claims : b < c => claim[b].status # "NONE"

NextPickup(p) ==
    /\ pickup[p].status = "NONE"
    /\ \A q \in Pickups : q < p => pickup[q].status # "NONE"

\* driver.location.service CURRENT_STATUSES
CurrentStatuses == {"ASSIGNED", "ACCEPTED", "EN_ROUTE", "ARRIVED"}

HasCurrentPickup_NotAssigned(c) ==
    \E p \in Pickups :
        pickup[p].claim = c /\ pickup[p].status \in CurrentStatuses \ {"ASSIGNED"}

HasCurrentPickup(c) ==
    \E p \in Pickups : pickup[p].claim = c /\ pickup[p].status \in CurrentStatuses

(***************************************************************************)
(* The connectionDay.updateMany that follows a collection or an expiry: it *)
(* moves the days that published listing l, and only those still PUBLISHED.*)
(***************************************************************************)
SettleDay(l, outcome) ==
    [d \in Days |-> IF day[d].listing = l /\ day[d].outcome = "PUBLISHED"
                    THEN [day[d] EXCEPT !.outcome = outcome]
                    ELSE day[d]]

\* canMarkConnectionDayCollected: only a fully claimed listing closes its day
CollectDay_Partial(l, listingStatus) ==
    IF listingStatus \in {"PARTIAL", "CLAIMED"} THEN SettleDay(l, "COLLECTED") ELSE day

CollectDay(l, listingStatus) ==
    IF listingStatus = "CLAIMED" THEN SettleDay(l, "COLLECTED") ELSE day
=============================================================================
