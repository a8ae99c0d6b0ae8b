-------------------------- MODULE MCSubscriptions --------------------------
(* Small instances of Subscriptions: two offers, the smaller for one site.  *)
EXTENDS Subscriptions

MCMaxSites == [p \in Plans |-> p]

\* Every handler of a request and of the job, at every step.
MCRequests ==
    {"checkout", "change", "upgrade", "storeUpgrade", "downgrade", "phases",
     "storeDowngrade", "cancel", "cancelStripe", "storeCancel", "resume",
     "storeResume", "drop", "clear", "addSite", "sweep"}
=============================================================================
