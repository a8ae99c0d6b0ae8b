------------------------- MODULE EnterpriseBilling -------------------------
(***************************************************************************)
(* EnterpriseBillingService and EnterpriseWorker: the contract of the      *)
(* enterprise, its invoices, and the access that goes with it, all settled *)
(* by hand and by two daily jobs.  Dates are counted in months.  Amounts,  *)
(* rates, the sites counted and the wording are left out.                  *)
(***************************************************************************)
EXTENDS EnterpriseInvitations

CONSTANTS
    Frequencies, \* bound: how often contracts are billed
    EndOfTime,   \* bound: months
    Largest,     \* the largest number that fits the padding of an invoice number
    BackBilling  \* administrators bill periods they had left out

Dates == 0 .. EndOfTime

ContractRow ==
    [status : {"DRAFT", "ACTIVE", "EXPIRED", "TERMINATED"}, frequency : Frequencies,
     end : Dates \cup {Null}, next : Nat]

ASSUME BillingAssumption ==
    /\ Frequencies \subseteq {"MONTHLY", "QUARTERLY", "ANNUAL"}
    /\ EndOfTime \in Nat
    /\ Largest \in Nat \ {0}
    /\ BackBilling \in BOOLEAN
    /\ Null \notin ContractRow

VARIABLES
    contract,     \* enterprise_contracts
    invoices,     \* enterprise_invoices, by the start of their period
    subscription, \* the status of the row of org_subscriptions
    today

billing == <<contract, invoices, subscription, today>>
directory == <<rows, codes, claims>>

Billed == {d \in Dates : invoices[d] # Null}

BillingInit ==
    /\ contract = Null
    /\ invoices = [d \in Dates |-> Null]
    /\ subscription = "ACTIVE"
    /\ today = 0

addBillingPeriod(from, frequency) ==
    from + (CASE frequency = "ANNUAL" -> 12 [] frequency = "QUARTERLY" -> 3 [] OTHER -> 1)

\* A job takes a slot as a request does.
Free(s) == s \notin Busy /\ Cardinality(Busy) < MaxBusy

Goes(s, w) == call' = [call EXCEPT ![s] = w] /\ UNCHANGED <<left, mix>>

-----------------------------------------------------------------------------
(* Contracts *)

\* syncSubscriptionToContract
accessFor(status) ==
    CASE status = "DRAFT" -> "PAST_DUE"
      [] status = "ACTIVE" -> "ACTIVE"
      [] status = "EXPIRED" -> "EXPIRED"
      [] status = "TERMINATED" -> "CANCELLED"

createContractStart(s, frequency, start, end) ==
    /\ contract = Null
    /\ Ask(s, Platform,
           [op |-> "createContract", by |-> Platform,
            contract |-> [status |-> "ACTIVE", frequency |-> frequency, end |-> end, next |-> start]])
    /\ UNCHANGED billing

\* organisationId is unique.
createContract(s) ==
    /\ Writes(s, "createContract")
    /\ IF contract = Null THEN contract' = call[s].contract /\ subscription' = "ACTIVE"
                          ELSE UNCHANGED <<contract, subscription>>
    /\ Done(s)
    /\ UNCHANGED <<directory, invoices, today>>

updateContractStart(s, field, to) ==
    /\ contract # Null
    /\ Ask(s, Platform, [op |-> "updateContract", field |-> field, to |-> to, by |-> Platform])
    /\ UNCHANGED billing

updateContract(s) ==
    /\ Writes(s, "updateContract")
    /\ contract' = [contract EXCEPT ![call[s].field] = call[s].to]
    /\ subscription' = IF call[s].field = "status" THEN accessFor(call[s].to) ELSE subscription
    /\ Done(s)
    /\ UNCHANGED <<directory, invoices, today>>

-----------------------------------------------------------------------------
(* Raising an invoice: both callers look whether one is due, and           *)
(* generateInvoiceForContract reads the contract again.                    *)

\* The next period has begun.
Due_Anyway == contract # Null

Due == contract # Null /\ contract.next <= today

\* from: the period start an administrator named.
Billing(from) == [op |-> "bill", from |-> from, by |-> Platform]

generateInvoice(s, from) ==
    /\ contract # Null
    /\ IF from = Null THEN Due ELSE BackBilling \/ from >= contract.next \/ from \in Billed
    /\ Ask(s, Platform, Billing(from))
    /\ UNCHANGED billing

generateDueInvoices(s) ==
    /\ Free(s)
    /\ Due /\ contract.status = "ACTIVE"
    /\ Goes(s, Billing(Null))
    /\ UNCHANGED <<directory, billing>>

RaiseStart(s) ==
    LET from == IF call[s].from = Null THEN contract.next ELSE call[s].from
    IN  /\ Writes(s, "bill")
        /\ contract.status = "ACTIVE"
        /\ from \in Dates \* bound
        /\ Goes(s, [op |-> "raise", from |-> from, to |-> addBillingPeriod(from, contract.frequency),
                    over |-> contract.end # Null /\ from > contract.end,
                    named |-> call[s].from # Null, by |-> Platform])
        /\ UNCHANGED <<directory, billing>>

NotActive(s) ==
    /\ Writes(s, "bill")
    /\ contract.status # "ACTIVE"
    /\ Done(s)
    /\ UNCHANGED <<directory, billing>>

ContractOver(s) ==
    /\ Writes(s, "raise") /\ call[s].over
    /\ contract' = [contract EXCEPT !.status = "EXPIRED"]
    /\ Done(s)
    /\ UNCHANGED <<directory, invoices, subscription, today>>

\* The largest number as text: the first that is longer sorts below Largest.
Numbers == {invoices[d].number : d \in Billed}
nextInvoiceNumber ==
    IF Numbers = {} THEN 1 ELSE IF Largest \in Numbers THEN Largest + 1 ELSE Max(Numbers) + 1

\* The unique columns refuse a second invoice of the period, or of the number.
Refused_ByNumber(s) == nextInvoiceNumber \in Numbers

Refused(s) == invoices[call[s].from] # Null \/ nextInvoiceNumber \in Numbers

\* Due a month from now.
RaiseInvoice(s) ==
    /\ Writes(s, "raise") /\ ~call[s].over
    /\ ~Refused(s)
    /\ invoices' = [invoices EXCEPT ![call[s].from] =
                       [to |-> call[s].to, status |-> "ISSUED", due |-> today + 1,
                        number |-> nextInvoiceNumber]]
    /\ contract' = [contract EXCEPT !.next = call[s].to]
    /\ Done(s)
    /\ UNCHANGED <<directory, subscription, today>>

AlreadyInvoiced(s) ==
    /\ Writes(s, "raise") /\ ~call[s].over
    /\ Refused(s)
    /\ Done(s)
    /\ UNCHANGED <<directory, billing>>

-----------------------------------------------------------------------------
(* What becomes of it *)

markInvoicePaidStart(s, d) ==
    /\ d \in Billed /\ invoices[d].status \notin {"PAID", "CANCELLED"}
    /\ Ask(s, Platform, [op |-> "settle", d |-> d, status |-> "PAID", by |-> Platform])
    /\ UNCHANGED billing

cancelInvoiceStart(s, d) ==
    /\ d \in Billed /\ invoices[d].status # "PAID"
    /\ Ask(s, Platform, [op |-> "settle", d |-> d, status |-> "CANCELLED", by |-> Platform])
    /\ UNCHANGED billing

\* By id.
SettleInvoice(s) ==
    /\ Writes(s, "settle")
    /\ invoices' = [invoices EXCEPT ![call[s].d].status = call[s].status]
    /\ Done(s)
    /\ UNCHANGED <<directory, contract, subscription, today>>

-----------------------------------------------------------------------------
(* The daily job: overdue invoices, lapsed contracts, lapsed invitations *)

Overdue == {d \in Billed : invoices[d].status = "ISSUED" /\ invoices[d].due < today}

ContractLapsed ==
    contract # Null /\ contract.status = "ACTIVE" /\ contract.end # Null /\ contract.end < today

markOverdue(s) ==
    /\ Free(s)
    /\ Overdue # {} \/ ContractLapsed \/ LapsedInvites # {}
    /\ invoices' = [d \in Dates |->
                       IF d \in Overdue THEN [invoices[d] EXCEPT !.status = "OVERDUE"] ELSE invoices[d]]
    /\ Goes(s, [op |-> "expire", lapsed |-> ContractLapsed, by |-> Platform])
    /\ UNCHANGED <<directory, contract, subscription, today>>

expireLapsed(s) ==
    /\ Writes(s, "expire")
    /\ contract' = IF call[s].lapsed THEN [contract EXCEPT !.status = "EXPIRED"] ELSE contract
    /\ subscription' = IF call[s].lapsed THEN accessFor("EXPIRED") ELSE subscription
    /\ expireLapsedInvitations
    /\ Done(s)
    /\ UNCHANGED <<invoices, today>>

Tick ==
    /\ "billing" \in mix
    /\ today < EndOfTime
    /\ today' = today + 1
    /\ UNCHANGED <<directory, call, left, mix, contract, invoices, subscription>>
=============================================================================
