--------------------------- MODULE MCMarketplace ---------------------------
(* Small instances of Marketplace: a kitchen b with connections to the      *)
(* charities a1 and a2, each of which claims from one site.                 *)
EXTENDS Marketplace, TLC

CONSTANTS b, a1, a2, s1, s2, d1, d2, i1, Kgs

MCOrgType == (b :> "BUSINESS") @@ (a1 :> "CHARITY") @@ (a2 :> "CHARITY")

MCCallers == {[org |-> a1, site |-> s1], [org |-> a2, site |-> s2]}

MCColumns == {"id", "listingId", "claimantOrgId", "claimantSiteId", "claimMode", "status"}

MCReceiver == [d \in Days |-> IF d = d1 THEN a1 ELSE a2]

\* The first is prompted at once, the second when its list-by time has passed;
\* both days end before the clock stops, so that every sweep sees them over.
MCSchedule ==
    [d \in Days |->
        IF d = d1
        THEN [prompt |-> 0, listBy |-> 0, cutoff |-> 1, start |-> 1, end |-> 2]
        ELSE [prompt |-> 1, listBy |-> 0, cutoff |-> 1, start |-> 1, end |-> 3]]

MCSurplus == {(i1 :> Kgs)}
=============================================================================
