-------------------------- MODULE MCListingClaims --------------------------
(* Small instances of ListingClaims: a food business b that lists food, a  *)
(* charity a with two sites and head-office users without a site, and a    *)
(* farmer f.                                                               *)
EXTENDS ListingClaims, TLC

CONSTANTS b, a, f, s1, s2

MCOrgType == (b :> "BUSINESS") @@ (a :> "CHARITY") @@ (f :> "FARMER_CONSUMER")

MCCallers ==
    {[org |-> a, site |-> s1], [org |-> a, site |-> s2], [org |-> a, site |-> Null]}

\* food_claims as the migrations create it
MCColumns == {"id", "listingId", "claimantOrgId", "claimantSiteId", "claimMode", "status"}

\* and with the column that the lock query of cancelClaim names
MCMappedColumns == MCColumns \cup {"listing_id"}

Symmetry == Permutations(Items) \cup Permutations(Requests)
=============================================================================
