--------------------------- MODULE MCCollections ---------------------------
(* Small instances of Collections: a food business b with one listing, a   *)
(* charity a that claims it from a site, and the drivers of that site.     *)
EXTENDS Collections, TLC

CONSTANTS b, a, s1

MCOrgType == (b :> "BUSINESS") @@ (a :> "CHARITY")

MCCallers == {[org |-> a, site |-> s1]}

\* food_claims as the migrations create it
MCColumns == {"id", "listingId", "claimantOrgId", "claimantSiteId", "claimMode", "status"}

\* food_claims with the column that cancelClaim's lock query names
MCMappedColumns == MCColumns \cup {"listing_id"}

Symmetry == Permutations(Drivers) \cup Permutations(Requests)
=============================================================================
