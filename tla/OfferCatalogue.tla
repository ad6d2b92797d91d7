---------------------------- MODULE OfferCatalogue ----------------------------
(***************************************************************************)
(* Merchants and their offers (app/merchants, app/offers), the public list *)
(* of offers, and how ingest_purchase looks an offer up.                   *)
(*                                                                         *)
(* A request of an admin has a session of its own: it reads, checks and    *)
(* writes with an await between any two statements.  No index of the       *)
(* offers table limits the active offers of a merchant, and none of the    *)
(* merchants table keeps names apart: only the SELECTs of create_offer and *)
(* create_merchant do.  Days are numbered from 1.                          *)
(***************************************************************************)
EXTENDS Integers, FiniteSets

CONSTANTS
  Merchants,
  Offers,          \* ids of the offers that may be created
  Names,           \* names of merchants
  NoName,          \* the name of a merchant that does not exist
  NoMerchant,      \* the merchant of an offer that does not exist
  NoOffer,         \* no offer
  MaxDay,          \* bound on the days that go by
  Requests         \* requests that may be served at the same time

ASSUME CatalogueAssumption ==
  /\ NoMerchant \notin Merchants
  /\ NoName \notin Names
  /\ NoOffer \notin Offers
  /\ MaxDay \in Nat \ {0}

VARIABLES
  merchant,  \* table merchants
  offer,     \* table offers
  today,     \* date.today()
  request    \* per request: the handler's step and local variables

vars == <<merchant, offer, today, request>>

-----------------------------------------------------------------------------
Days == 1 .. MaxDay

\* raced is history: the merchant was inserted by a request that had looked for its name
\* before another merchant got that name.
MerchantRow ==
  [status : {"absent", "active", "inactive"}, name : Names \cup {NoName}, raced : BOOLEAN]

NoMerchantRow == [status |-> "absent", name |-> NoName, raced |-> FALSE]

\* how is history: what made the offer active last.  "checked" is an insertion before which
\* no other offer of the merchant had become active since the request looked for one,
\* "raced" any other insertion.
OfferRow ==
  [merchant : Merchants \cup {NoMerchant}, start : Days, end : Days, active : BOOLEAN,
   how : {"checked", "raced", "reactivated"}]

NoRow == [merchant |-> NoMerchant, start |-> 1, end |-> 1, active |-> FALSE, how |-> "checked"]

\* The steps of create_offer.  raced: what the request has looked for, and not found, is
\* there by now.
CreateSteps == {"read_merchant", "check_offers", "insert_offer"}

RequestStates ==
  [pc : CreateSteps \cup {"idle", "write_offer", "write_merchant", "insert_merchant"},
   merchant : Merchants \cup {NoMerchant}, offer : Offers \cup {NoOffer},
   start : Days, end : Days, wanted : BOOLEAN, read : BOOLEAN,
   name : Names \cup {NoName}, raced : BOOLEAN]

NoRequest == [pc |-> "idle", merchant |-> NoMerchant, offer |-> NoOffer,
              start |-> 1, end |-> 1, wanted |-> FALSE, read |-> FALSE,
              name |-> NoName, raced |-> FALSE]

Init ==
  /\ merchant = [m \in Merchants |-> NoMerchantRow]
  /\ offer = [o \in Offers |-> NoRow]
  /\ today = 1
  /\ request = [q \in Requests |-> NoRequest]

\* A request is received.
Begin(q, step) ==
  /\ request[q].pc = "idle"
  /\ request' = [request EXCEPT ![q] = step]
  /\ UNCHANGED <<merchant, offer, today>>

\* A request goes on, or is refused.
Continue(q, pc) ==
  /\ request' = [request EXCEPT ![q].pc = pc]
  /\ UNCHANGED <<merchant, offer, today>>

Refuse(q) ==
  /\ request' = [request EXCEPT ![q] = NoRequest]
  /\ UNCHANGED <<merchant, offer, today>>

-----------------------------------------------------------------------------
(* Merchants.                                                               *)

MerchantStatus(active) == IF active THEN "active" ELSE "inactive"

NameTaken(n) == \E m \in Merchants : merchant[m].name = n

\* Mutant: an inactive merchant's name may be taken again.
LookUpName_activeOnly(q, n, active) ==
  /\ \A m \in Merchants : merchant[m].status = "active" => merchant[m].name # n
  /\ Begin(q, [NoRequest EXCEPT !.pc = "insert_merchant", !.name = n, !.wanted = active])

\* create_merchant up to the answer of get_merchant_by_name; if it finds one, or even
\* several, the request is refused.  The check on the percentage depends on the body
\* alone.
LookUpName(q, n, active) ==
  /\ ~NameTaken(n)
  /\ Begin(q, [NoRequest EXCEPT !.pc = "insert_merchant", !.name = n, !.wanted = active])

\* POST /merchants.
CreateMerchant(q) == \E n \in Names, active \in BOOLEAN : LookUpName(q, n, active)

\* add_merchant and commit.  The requests that have looked for the same name and not yet
\* inserted it have raced with this one.
AddMerchant(q, m) ==
  LET r == request[q] IN
  /\ r.pc = "insert_merchant"
  /\ merchant[m].status = "absent"
  /\ merchant' = [merchant EXCEPT ![m] =
       [status |-> MerchantStatus(r.wanted), name |-> r.name, raced |-> r.raced]]
  /\ request' = [s \in Requests |->
       IF s = q THEN NoRequest
       ELSE [request[s] EXCEPT !.raced = @ \/ (request[s].pc = "insert_merchant"
                                                 /\ request[s].name = r.name)]]
  /\ UNCHANGED <<offer, today>>

\* set_merchant_status reads the row ...
ReadMerchant(q, m, active) ==
  /\ merchant[m].status # "absent"
  /\ Begin(q, [NoRequest EXCEPT !.pc = "write_merchant", !.merchant = m,
                                !.wanted = active, !.read = (merchant[m].status = "active")])

\* ... and the flush writes it, unless the row had that value when it was read.
UpdateMerchantStatus(q) ==
  LET r == request[q] IN
  /\ r.pc = "write_merchant"
  /\ merchant' = IF r.wanted = r.read THEN merchant
                 ELSE [merchant EXCEPT ![r.merchant].status = MerchantStatus(r.wanted)]
  /\ request' = [request EXCEPT ![q] = NoRequest]
  /\ UNCHANGED <<offer, today>>

\* list_merchants; status is "any" if the query parameter active is absent.
ListMerchants(status) ==
  {m \in Merchants : merchant[m].status # "absent" /\ status \in {"any", merchant[m].status}}

-----------------------------------------------------------------------------
(* Offers.                                                                  *)

ActiveOffersOf(m) == {o \in Offers : offer[o].merchant = m /\ offer[o].active}

EnforceDateRangeValidity(start, end) == start >= today /\ end >= start

\* create_offer up to its first await.  The checks on cashback value and monthly cap
\* depend on the body alone: a body that fails them never gets here.
StartCreateOffer(q, m, start, end) ==
  /\ EnforceDateRangeValidity(start, end)
  /\ Begin(q, [NoRequest EXCEPT !.pc = "read_merchant", !.merchant = m,
                                !.start = start, !.end = end])

\* The merchant must exist and be active.
EnforceMerchantIsActive(q) ==
  /\ request[q].pc = "read_merchant"
  /\ IF merchant[request[q].merchant].status = "active"
       THEN Continue(q, "check_offers") ELSE Refuse(q)

\* Mutant: an offer whose dates are over does not count.
HasActiveOffer_notExpired(m) == \E o \in ActiveOffersOf(m) : offer[o].end >= today

\* has_active_offer_for_merchant: whatever the offer's dates.
HasActiveOffer(m) == ActiveOffersOf(m) # {}

EnforceNoActiveOfferExists(q) ==
  /\ request[q].pc = "check_offers"
  /\ IF HasActiveOffer(request[q].merchant) THEN Refuse(q) ELSE Continue(q, "insert_offer")

\* An offer of merchant m becomes active and request q is over: the requests that have
\* found the merchant without one, and not yet inserted theirs, have raced with it.
Overtake(q, m) ==
  request' = [s \in Requests |->
    IF s = q THEN NoRequest
    ELSE [request[s] EXCEPT !.raced = @ \/ (request[s].pc = "insert_offer"
                                              /\ request[s].merchant = m)]]

\* add_offer and commit.  The offers that are left bound the model.
AddOffer(q) ==
  LET r == request[q] IN
  /\ r.pc = "insert_offer"
  /\ \E o \in Offers :
       /\ offer[o].merchant = NoMerchant
       /\ offer' = [offer EXCEPT ![o] =
            [merchant |-> r.merchant, start |-> r.start, end |-> r.end, active |-> TRUE,
             how |-> IF r.raced THEN "raced" ELSE "checked"]]
  /\ Overtake(q, r.merchant)
  /\ UNCHANGED <<merchant, today>>

\* set_offer_status looks at neither the dates nor the merchant's other offers.
ReadOffer(q, o, active) ==
  /\ offer[o].merchant # NoMerchant
  /\ Begin(q, [NoRequest EXCEPT !.pc = "write_offer", !.offer = o,
                                !.wanted = active, !.read = offer[o].active])

\* The flush writes the row, unless it had that value when it was read.
UpdateOfferStatus(q) ==
  LET r == request[q]
      row == offer[r.offer]
      activates == r.wanted /\ ~r.read /\ ~row.active
  IN
  /\ r.pc = "write_offer"
  /\ offer' = IF r.wanted = r.read THEN offer
              ELSE [offer EXCEPT ![r.offer] =
                     [row EXCEPT !.active = r.wanted,
                                 !.how = IF activates THEN "reactivated" ELSE @]]
  /\ IF activates THEN Overtake(q, row.merchant)
                  ELSE request' = [request EXCEPT ![q] = NoRequest]
  /\ UNCHANGED <<merchant, today>>

\* The request dies, or its session is closed without a commit.
Abandon(q) ==
  /\ request[q].pc # "idle"
  /\ Refuse(q)

NextDay ==
  /\ today < MaxDay
  /\ today' = today + 1
  /\ UNCHANGED <<merchant, offer, request>>

Next ==
  \/ \E q \in Requests :
       \/ CreateMerchant(q)
       \/ \E m \in Merchants : AddMerchant(q, m)
       \/ \E m \in Merchants, active \in BOOLEAN : ReadMerchant(q, m, active)
       \/ UpdateMerchantStatus(q)
       \/ \E m \in Merchants, start, end \in Days : StartCreateOffer(q, m, start, end)
       \/ EnforceMerchantIsActive(q)
       \/ EnforceNoActiveOfferExists(q)
       \/ AddOffer(q)
       \/ \E o \in Offers, active \in BOOLEAN : ReadOffer(q, o, active)
       \/ UpdateOfferStatus(q)
       \/ Abandon(q)
  \/ NextDay

Spec == Init /\ [][Next]_vars

-----------------------------------------------------------------------------
(* What users see and what earns cashback.                                  *)

OnDay(o, day) == offer[o].start <= day /\ day <= offer[o].end

\* Mutant: the merchant's status is not looked at.
ListActiveOffers_anyMerchant ==
  {o \in Offers : offer[o].merchant # NoMerchant /\ offer[o].active /\ OnDay(o, today)}

\* list_active_offers: a join of offers and merchants.
ListActiveOffers ==
  {o \in Offers : /\ offer[o].merchant # NoMerchant
                  /\ offer[o].active
                  /\ merchant[offer[o].merchant].status = "active"
                  /\ OnDay(o, today)}

Exists(o) == offer[o].merchant # NoMerchant

\* The query parameter status of list_offers, "any" if it is absent.
MapStatusToActive(status) ==
  CASE status = "any" -> BOOLEAN
    [] status = "active" -> {TRUE}
    [] status = "inactive" -> {FALSE}

\* _validate_list_params: other requests are refused.
ValidateListParams(from, to) == from <= to

\* Mutant: the offer's dates have to lie within the dates asked for.
ListOffers_within(status, m, from, to) ==
  {o \in Offers : /\ Exists(o)
                  /\ offer[o].active \in MapStatusToActive(status)
                  /\ m # NoMerchant => offer[o].merchant = m
                  /\ from <= offer[o].start /\ offer[o].end <= to}

\* list_offers, for any user: the offers that overlap the dates asked for.  m is NoMerchant
\* if no merchant is asked for; a date that is left out is the first or the last day.
ListOffers(status, m, from, to) ==
  {o \in Offers : /\ Exists(o)
                  /\ offer[o].active \in MapStatusToActive(status)
                  /\ m # NoMerchant => offer[o].merchant = m
                  /\ from <= offer[o].end /\ offer[o].start <= to}

EnforceOfferVisibility(active, isAdmin) == isAdmin \/ active

EnforceOfferMerchantVisibility(active, isAdmin) == isAdmin \/ active

\* get_offer_details shows the offer.
GetOfferDetails(o, isAdmin) ==
  /\ Exists(o)
  /\ EnforceOfferVisibility(offer[o].active, isAdmin)
  /\ EnforceOfferMerchantVisibility(merchant[offer[o].merchant].status = "active", isAdmin)

\* The rows get_active_offer_for_merchant selects; with two of them its
\* scalar_one_or_none raises.
GetActiveOffers(m, day) == {o \in ActiveOffersOf(m) : OnDay(o, day)}

EnforceMerchantActive(m) == merchant[m].status = "active"

\* The offer a purchase at merchant m would earn from, NoOffer if it is refused.
IngestOffer(m) ==
  LET found == GetActiveOffers(m, today) IN
  IF EnforceMerchantActive(m) /\ Cardinality(found) = 1
    THEN CHOOSE o \in found : TRUE ELSE NoOffer

-----------------------------------------------------------------------------
(* Properties.                                                              *)

\* Rows and requests keep the types of their tables and handlers.
TypeOK ==
  /\ merchant \in [Merchants -> MerchantRow]
  /\ offer \in [Offers -> OfferRow]
  /\ today \in Days
  /\ request \in [Requests -> RequestStates]

\* A merchant has at most one active offer.  create_offer only checks it, some awaits before
\* it inserts one, and set_offer_status does not look.
OneActiveOffer ==
  \A o1, o2 \in Offers :
    offer[o1].active /\ offer[o2].active /\ offer[o1].merchant = offer[o2].merchant => o1 = o2

\* What is left of that: of two active offers of a merchant one was activated by
\* set_offer_status, or inserted by a request that another activation has overtaken since
\* its check.  Whatever is switched off and created again, one request at a time and
\* without set_offer_status(active=True), the SELECT of create_offer is enough.
ClashesExplained ==
  \A o1, o2 \in Offers :
    offer[o1].active /\ offer[o2].active /\ offer[o1].merchant = offer[o2].merchant /\ o1 # o2
      => offer[o1].how # "checked" \/ offer[o2].how # "checked"

ListedOf(m) == {o \in ListActiveOffers : offer[o].merchant = m}

\* What the public list promises and what an ingestion does: a purchase at a merchant,
\* ingested now, earns cashback from an offer just when that offer is the only one of the
\* merchant that is listed.  If several are listed it earns none, because the lookup
\* raises, and one of them got there by a race or by set_offer_status.
ListedOffersEarn ==
  \A m \in Merchants :
    /\ \A o \in Offers : ListedOf(m) = {o} <=> IngestOffer(m) = o
    /\ \A o1, o2 \in ListedOf(m) : o1 # o2 =>
         /\ IngestOffer(m) = NoOffer
         /\ offer[o1].how # "checked" \/ offer[o2].how # "checked"

\* The catalogue says the same whichever way it is looked at: the public list is what
\* list_offers finds active today and get_offer_details shows to every user, all of it
\* from merchants that admins see listed as active; an admin can open every offer; and the
\* two comparisons of list_offers find just the offers in force on some day of the dates
\* asked for, as create_offer lets no offer end before it starts and list_offers no
\* date_to precede date_from.
ViewsAgree ==
  /\ ListActiveOffers =
       {o \in ListOffers("active", NoMerchant, today, today) : GetOfferDetails(o, FALSE)}
  /\ \A o \in ListActiveOffers : offer[o].merchant \in ListMerchants("active")
  /\ \A from, to \in Days : ValidateListParams(from, to) =>
       ListOffers("any", NoMerchant, from, to) =
         {o \in Offers : GetOfferDetails(o, TRUE) /\ \E day \in from .. to : OnDay(o, day)}

\* Two merchants have the same name only by a race: one of them was inserted by a
\* request that had looked for the name before the other was committed.  Requests that
\* do not overlap never duplicate a name, also not that of an inactive merchant.
OnlyRacesShareNames ==
  \A m1, m2 \in Merchants :
    merchant[m1].name = merchant[m2].name /\ merchant[m1].name # NoName /\ m1 # m2
      => merchant[m1].raced \/ merchant[m2].raced
=============================================================================
