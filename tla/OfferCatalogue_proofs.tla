------------------------ MODULE OfferCatalogue_proofs ------------------------
(***************************************************************************)
(* What the SELECTs of create_offer and create_merchant achieve without an *)
(* index behind them: two active offers of a merchant, or two merchants    *)
(* with one name, come from requests that overlap or, the offers, from     *)
(* set_offer_status.  What the public list shows earns cashback unless     *)
(* there are such two, and the views of the catalogue agree: for any       *)
(* number of merchants, offers, requests and days.                         *)
(***************************************************************************)
EXTENDS OfferCatalogue, FiniteSetTheorems, TLAPS

-----------------------------------------------------------------------------
(* Types.                                                                   *)

\* There are neither rows nor requests at the start.
LEMMA InitTypeOK == Init => TypeOK
  BY CatalogueAssumption
  DEF Init, TypeOK, NoRow, NoRequest, NoMerchantRow, MerchantRow, OfferRow, RequestStates, Days

\* The activation of an offer marks the requests that have found none of its merchant.
LEMMA Overtaking ==
  ASSUME TypeOK, NEW q \in Requests, NEW m, Overtake(q, m)
  PROVE  /\ request' \in [Requests -> RequestStates]
         /\ request'[q] = NoRequest
         /\ \A s \in Requests \ {q} :
              /\ request[s].pc # "insert_offer" => request'[s] = request[s]
              /\ request'[s].pc = request[s].pc
              /\ request'[s].merchant = request[s].merchant
              /\ request'[s].start = request[s].start /\ request'[s].end = request[s].end
              /\ request[s].raced => request'[s].raced
              /\ request[s].pc = "insert_offer" /\ request[s].merchant = m => request'[s].raced
  <1> DEFINE late(x) == request[x].raced \/ (request[x].pc = "insert_offer"
                                              /\ request[x].merchant = m)
  <1>n. NoRequest \in RequestStates
    BY CatalogueAssumption DEF NoRequest, RequestStates, Days
  <1>1. \A x \in Requests : request[x] \in RequestStates /\ request[x].raced \in BOOLEAN
    BY DEF TypeOK, RequestStates
  <1>2. request' = [x \in Requests |->
                     IF x = q THEN NoRequest ELSE [request[x] EXCEPT !.raced = late(x)]]
    BY DEF Overtake
  <1>3. \A x \in Requests : /\ late(x) \in BOOLEAN
                            /\ request[x].pc # "insert_offer" => late(x) = request[x].raced
                            /\ request[x].raced => late(x)
                            /\ request[x].pc = "insert_offer" /\ request[x].merchant = m => late(x)
    BY <1>1
  <1> HIDE DEF late
  <1>4. request' \in [Requests -> RequestStates] /\ request'[q] = NoRequest
    BY <1>n, <1>1, <1>2, <1>3 DEF RequestStates
  <1>5. ASSUME NEW s \in Requests \ {q}
        PROVE  /\ request[s].pc # "insert_offer" => request'[s] = request[s]
               /\ request'[s].pc = request[s].pc
               /\ request'[s].merchant = request[s].merchant
               /\ request'[s].start = request[s].start /\ request'[s].end = request[s].end
               /\ request'[s].raced = late(s)
    BY <1>1, <1>2, <1>3 DEF RequestStates
  <1> QED BY <1>3, <1>4, <1>5

\* Rows and requests have their types after every step.
LEMMA NextTypeOK == TypeOK /\ [Next]_vars => TypeOK'
  <1> SUFFICES ASSUME TypeOK, [Next]_vars PROVE TypeOK'
    OBVIOUS
  <1> USE CatalogueAssumption
  <1>n. NoRequest \in RequestStates
    BY DEF NoRequest, RequestStates, Days
  <1>b. \A q \in Requests : request[q].wanted \in BOOLEAN /\ request[q].raced \in BOOLEAN
    BY DEF TypeOK, RequestStates
  <1>f. ASSUME NEW q \in Requests, Refuse(q) PROVE TypeOK'
    BY <1>n, <1>f DEF Refuse, TypeOK
  <1>g. ASSUME NEW q \in Requests, NEW w \in RequestStates, Begin(q, w) PROVE TypeOK'
    BY <1>g DEF Begin, TypeOK
  <1>c. ASSUME NEW q \in Requests, NEW pc \in CreateSteps, Continue(q, pc) PROVE TypeOK'
    BY <1>c DEF Continue, TypeOK, RequestStates
  <1>0. ASSUME NEW q \in Requests, NEW n \in Names, NEW active \in BOOLEAN,
               LookUpName(q, n, active)
        PROVE  TypeOK'
    BY <1>0, <1>g, <1>n DEF LookUpName, NoRequest, RequestStates
  <1>1. ASSUME NEW q \in Requests, NEW m \in Merchants, AddMerchant(q, m) PROVE TypeOK'
    <2> DEFINE late(x) == request[x].raced \/ (request[x].pc = "insert_merchant"
                                                /\ request[x].name = request[q].name)
    <2>0. \A x \in Requests : late(x) \in BOOLEAN
      BY <1>b
    <2>3. request' = [x \in Requests |->
                       IF x = q THEN NoRequest ELSE [request[x] EXCEPT !.raced = late(x)]]
      BY <1>1 DEF AddMerchant
    <2> HIDE DEF late
    <2>1. request' \in [Requests -> RequestStates]
      BY <1>n, <2>0, <2>3 DEF TypeOK, RequestStates
    <2>2. merchant' \in [Merchants -> MerchantRow]
      BY <1>1, <1>b DEF AddMerchant, TypeOK, MerchantRow, MerchantStatus, RequestStates
    <2> QED BY <1>1, <2>1, <2>2 DEF AddMerchant, TypeOK
  <1>2. ASSUME NEW q \in Requests, NEW m \in Merchants, NEW active \in BOOLEAN,
               ReadMerchant(q, m, active)
        PROVE  TypeOK'
    BY <1>2, <1>g, <1>n DEF ReadMerchant, NoRequest, RequestStates
  <1>3. ASSUME NEW q \in Requests, UpdateMerchantStatus(q) PROVE TypeOK'
    BY <1>3, <1>n DEF UpdateMerchantStatus, TypeOK, MerchantRow, MerchantStatus
  <1>4. ASSUME NEW q \in Requests, NEW m \in Merchants, NEW start \in Days, NEW end \in Days,
               StartCreateOffer(q, m, start, end)
        PROVE  TypeOK'
    BY <1>4, <1>g, <1>n DEF StartCreateOffer, NoRequest, RequestStates, CreateSteps
  <1>5. ASSUME NEW q \in Requests, EnforceMerchantIsActive(q) PROVE TypeOK'
    BY <1>5, <1>c, <1>f DEF EnforceMerchantIsActive, CreateSteps
  <1>6. ASSUME NEW q \in Requests, EnforceNoActiveOfferExists(q) PROVE TypeOK'
    BY <1>6, <1>c, <1>f DEF EnforceNoActiveOfferExists, CreateSteps
  <1>7. ASSUME NEW q \in Requests, AddOffer(q) PROVE TypeOK'
    <2>1. offer' \in [Offers -> OfferRow]
      BY <1>7 DEF AddOffer, TypeOK, OfferRow, RequestStates
    <2>2. request' \in [Requests -> RequestStates]
      BY <1>7, Overtaking DEF AddOffer
    <2> QED BY <1>7, <2>1, <2>2 DEF AddOffer, TypeOK
  <1>8. ASSUME NEW q \in Requests, NEW o \in Offers, NEW active \in BOOLEAN,
               ReadOffer(q, o, active)
        PROVE  TypeOK'
    <2>1. offer[o].active \in BOOLEAN
      BY DEF TypeOK, OfferRow
    <2> QED BY <1>8, <1>g, <1>n, <2>1 DEF ReadOffer, NoRequest, RequestStates
  <1>9. ASSUME NEW q \in Requests, UpdateOfferStatus(q) PROVE TypeOK'
    <2> DEFINE r == request[q]
               how == IF r.wanted /\ ~r.read /\ ~offer[r.offer].active
                        THEN "reactivated" ELSE offer[r.offer].how
               row == [offer[r.offer] EXCEPT !.active = r.wanted, !.how = how]
    <2>a. offer' = IF r.wanted = r.read THEN offer ELSE [offer EXCEPT ![r.offer] = row]
      BY <1>9 DEF UpdateOfferStatus
    <2>b. ASSUME r.offer \in Offers PROVE row \in OfferRow
      <3>1. how \in {"checked", "raced", "reactivated"} /\ offer[r.offer] \in OfferRow
        BY <2>b DEF TypeOK, OfferRow
      <3> HIDE DEF how
      <3> QED BY <3>1, <1>b DEF OfferRow
    <2> HIDE DEF row
    <2>1. offer' \in [Offers -> OfferRow]
      BY <2>a, <2>b DEF TypeOK
    <2>2. request' \in [Requests -> RequestStates]
      BY <1>9, <1>n, Overtaking DEF UpdateOfferStatus, TypeOK
    <2> QED BY <1>9, <2>1, <2>2 DEF UpdateOfferStatus, TypeOK
  <1>10. ASSUME NextDay PROVE TypeOK'
    BY <1>10 DEF NextDay, TypeOK, Days
  <1>11. CASE UNCHANGED vars
    BY <1>11 DEF vars, TypeOK
  <1> QED
    BY <1>0, <1>1, <1>2, <1>3, <1>4, <1>5, <1>6, <1>7, <1>8, <1>9, <1>10, <1>11, <1>f
    DEF Next, Abandon, CreateMerchant

-----------------------------------------------------------------------------
(* Active offers.                                                           *)

\* A request that is about to insert an offer, and has not raced, would still find no
\* active offer of its merchant.
CheckStillHolds ==
  \A q \in Requests : request[q].pc = "insert_offer" /\ ~request[q].raced =>
    ~HasActiveOffer(request[q].merchant)

\* Every insertion adds one offer.
FinitelyManyOffers == IsFiniteSet({o \in Offers : Exists(o)})

\* The inductive invariant for offers.
ClashInv == TypeOK /\ ClashesExplained /\ CheckStillHolds /\ FinitelyManyOffers

\* A step that leaves the offers alone, and takes no request to the insertion of an offer
\* unless its merchant has no active one, keeps the invariant.
LEMMA OffersKept ==
  ASSUME ClashInv, TypeOK', offer' = offer,
         \A q \in Requests : request'[q].pc = "insert_offer" =>
           \/ ~HasActiveOffer(request'[q].merchant)
           \/ /\ request[q].pc = "insert_offer"
              /\ request'[q].merchant = request[q].merchant
              /\ request[q].raced => request'[q].raced
  PROVE  ClashInv'
  <1>1. ClashesExplained' /\ FinitelyManyOffers'
    BY DEF ClashInv, ClashesExplained, FinitelyManyOffers, Exists
  <1>2. CheckStillHolds'
    BY DEF ClashInv, CheckStillHolds, HasActiveOffer, ActiveOffersOf
  <1> QED BY <1>1, <1>2 DEF ClashInv

\* A step that makes no offer active keeps what the invariant says of offers and checks.
LEMMA NothingActivated ==
  ASSUME ClashInv, TypeOK',
         \A o \in Offers : /\ offer'[o].merchant = offer[o].merchant
                           /\ offer'[o].active => offer[o].active /\ offer'[o].how = offer[o].how,
         \A q \in Requests : request'[q].pc = "insert_offer" => request'[q] = request[q]
  PROVE  ClashInv'
  <1>1. ClashesExplained'
    BY DEF ClashInv, ClashesExplained
  <1>2. CheckStillHolds'
    BY DEF ClashInv, CheckStillHolds, HasActiveOffer, ActiveOffersOf
  <1>3. FinitelyManyOffers'
    BY DEF ClashInv, FinitelyManyOffers, Exists
  <1> QED BY <1>1, <1>2, <1>3 DEF ClashInv

\* Offer o of merchant m becomes active, and every request that has found the merchant
\* without one is marked.  The invariant is kept if the history says so, or if the merchant
\* had no active offer.
LEMMA OneActivated ==
  ASSUME ClashInv, TypeOK', NEW q \in Requests, NEW o \in Offers, NEW m,
         Overtake(q, m), offer'[o].merchant = m,
         \A x \in Offers \ {o} : offer'[x] = offer[x],
         offer'[o].how # "checked" \/ ~HasActiveOffer(m),
         FinitelyManyOffers'
  PROVE  ClashInv'
  <1>1. ClashesExplained'
    <2> SUFFICES ASSUME NEW x \in Offers, NEW y \in Offers, x # y,
                        offer'[x].active, offer'[y].active, offer'[x].merchant = offer'[y].merchant
                 PROVE  offer'[x].how # "checked" \/ offer'[y].how # "checked"
      BY DEF ClashesExplained
    <2>1. CASE x # o /\ y # o
      BY <2>1 DEF ClashInv, ClashesExplained
    <2>2. ASSUME NEW z \in Offers \ {o}, offer'[z].active, offer'[z].merchant = m
          PROVE  HasActiveOffer(m)
      BY <2>2 DEF HasActiveOffer, ActiveOffersOf
    <2>3. CASE x = o
      BY <2>2, <2>3
    <2>4. CASE y = o
      BY <2>2, <2>4
    <2> QED BY <2>1, <2>3, <2>4
  <1>2. CheckStillHolds'
    <2> SUFFICES ASSUME NEW s \in Requests, request'[s].pc = "insert_offer", ~request'[s].raced,
                        NEW x \in Offers, offer'[x].merchant = request'[s].merchant, offer'[x].active
                 PROVE  FALSE
      BY DEF CheckStillHolds, HasActiveOffer, ActiveOffersOf
    <2>1. TypeOK BY DEF ClashInv
    <2>2. s # q
      BY <2>1, Overtaking DEF NoRequest
    <2>3. /\ request[s].pc = "insert_offer" /\ ~request[s].raced
          /\ request[s].merchant # m /\ request'[s].merchant = request[s].merchant
      BY <2>1, <2>2, Overtaking
    <2>4. ~HasActiveOffer(request[s].merchant)
      BY <2>3 DEF ClashInv, CheckStillHolds
    <2>5. x # o
      BY <2>3
    <2> QED BY <2>3, <2>4, <2>5 DEF HasActiveOffer, ActiveOffersOf
  <1> QED BY <1>1, <1>2 DEF ClashInv

\* Every step keeps the invariant.
LEMMA NextClashInv == ClashInv /\ [Next]_vars => ClashInv'
  <1> SUFFICES ASSUME ClashInv, [Next]_vars PROVE ClashInv'
    OBVIOUS
  <1>t. TypeOK /\ TypeOK'
    BY NextTypeOK DEF ClashInv
  <1>n. NoRequest.pc = "idle"
    BY DEF NoRequest
  <1>r. ASSUME NEW q \in Requests, NEW w, request' = [request EXCEPT ![q] = w], offer' = offer,
               w.pc = "insert_offer" => ~HasActiveOffer(w.merchant)
        PROVE  ClashInv'
    <2>1. \A s \in Requests : request'[s] = IF s = q THEN w ELSE request[s]
      BY <1>r, <1>t DEF TypeOK
    <2> QED BY <1>r, <1>t, <2>1, OffersKept
  <1>f. ASSUME NEW q \in Requests, Refuse(q) PROVE ClashInv'
    BY <1>f, <1>n, <1>r DEF Refuse
  <1>0. ASSUME NEW q \in Requests, NEW n \in Names, NEW active \in BOOLEAN,
               LookUpName(q, n, active)
        PROVE  ClashInv'
    BY <1>0, <1>r DEF LookUpName, Begin, NoRequest
  <1>1. ASSUME NEW q \in Requests, NEW m \in Merchants, AddMerchant(q, m) PROVE ClashInv'
    <2>1. \A s \in Requests : request'[s].pc = "insert_offer" =>
            /\ request[s].pc = "insert_offer"
            /\ request'[s].merchant = request[s].merchant
            /\ request[s].raced => request'[s].raced
      BY <1>1, <1>n, <1>t DEF AddMerchant, TypeOK, RequestStates
    <2> QED BY <1>1, <1>t, <2>1, OffersKept DEF AddMerchant
  <1>2. ASSUME NEW q \in Requests, NEW m \in Merchants, NEW active \in BOOLEAN,
               ReadMerchant(q, m, active)
        PROVE  ClashInv'
    BY <1>2, <1>r DEF ReadMerchant, Begin, NoRequest
  <1>3. ASSUME NEW q \in Requests, UpdateMerchantStatus(q) PROVE ClashInv'
    BY <1>3, <1>n, <1>r DEF UpdateMerchantStatus
  <1>4. ASSUME NEW q \in Requests, NEW m \in Merchants, NEW start \in Days, NEW end \in Days,
               StartCreateOffer(q, m, start, end)
        PROVE  ClashInv'
    BY <1>4, <1>r DEF StartCreateOffer, Begin, NoRequest
  <1>c. ASSUME NEW q \in Requests, NEW pc, Continue(q, pc),
               pc = "insert_offer" => ~HasActiveOffer(request[q].merchant)
        PROVE  ClashInv'
    <2> DEFINE w == [request[q] EXCEPT !.pc = pc]
    <2>1. w.pc = pc /\ w.merchant = request[q].merchant
      BY <1>t DEF TypeOK, RequestStates
    <2>2. request' = [request EXCEPT ![q] = w] /\ offer' = offer
      BY <1>c, <1>t DEF Continue, TypeOK
    <2> HIDE DEF w
    <2> QED BY <1>c, <1>r, <2>1, <2>2
  <1>5. ASSUME NEW q \in Requests, EnforceMerchantIsActive(q) PROVE ClashInv'
    BY <1>5, <1>c, <1>f DEF EnforceMerchantIsActive
  <1>6. ASSUME NEW q \in Requests, EnforceNoActiveOfferExists(q) PROVE ClashInv'
    BY <1>6, <1>c, <1>f DEF EnforceNoActiveOfferExists
  <1>7. ASSUME NEW q \in Requests, AddOffer(q) PROVE ClashInv'
    <2> DEFINE r == request[q]
    <2>1. r.pc = "insert_offer" /\ Overtake(q, r.merchant)
      BY <1>7 DEF AddOffer
    <2>2. PICK o \in Offers :
            /\ offer[o].merchant = NoMerchant
            /\ offer' = [offer EXCEPT ![o] =
                 [merchant |-> r.merchant, start |-> r.start, end |-> r.end, active |-> TRUE,
                  how |-> IF r.raced THEN "raced" ELSE "checked"]]
      BY <1>7 DEF AddOffer
    <2>3. /\ offer'[o].merchant = r.merchant
          /\ offer'[o].how = IF r.raced THEN "raced" ELSE "checked"
          /\ \A x \in Offers \ {o} : offer'[x] = offer[x]
      BY <1>t, <2>2 DEF TypeOK
    <2>4. offer'[o].how # "checked" \/ ~HasActiveOffer(r.merchant)
      BY <2>1, <2>3 DEF ClashInv, CheckStillHolds
    <2>5. FinitelyManyOffers'
      <3> DEFINE there == {x \in Offers : Exists(x)}
      <3>1. IsFiniteSet(there \cup {o})
        BY FS_AddElement DEF ClashInv, FinitelyManyOffers
      <3>2. {x \in Offers : offer'[x].merchant # NoMerchant} \subseteq there \cup {o}
        BY <2>3 DEF Exists
      <3>3. IsFiniteSet({x \in Offers : offer'[x].merchant # NoMerchant})
        BY <3>1, <3>2, FS_Subset
      <3> QED BY <3>3 DEF FinitelyManyOffers, Exists
    <2> QED BY <1>t, <2>1, <2>3, <2>4, <2>5, OneActivated
  <1>8. ASSUME NEW q \in Requests, NEW o \in Offers, NEW active \in BOOLEAN,
               ReadOffer(q, o, active)
        PROVE  ClashInv'
    BY <1>8, <1>r DEF ReadOffer, Begin, NoRequest
  <1>9. ASSUME NEW q \in Requests, UpdateOfferStatus(q) PROVE ClashInv'
    <2> DEFINE r == request[q]
               activates == r.wanted /\ ~r.read /\ ~offer[r.offer].active
    <2>0. r.wanted \in BOOLEAN /\ r.read \in BOOLEAN
      BY <1>t DEF TypeOK, RequestStates
    <2>1. /\ offer' = IF r.wanted = r.read THEN offer
                      ELSE [offer EXCEPT ![r.offer] =
                             [offer[r.offer] EXCEPT !.active = r.wanted,
                                                    !.how = IF activates THEN "reactivated" ELSE @]]
          /\ IF activates THEN Overtake(q, offer[r.offer].merchant)
                          ELSE request' = [request EXCEPT ![q] = NoRequest]
      BY <1>9 DEF UpdateOfferStatus
    <2>2. \A x \in Offers : /\ offer'[x].merchant = offer[x].merchant
                            /\ x # r.offer => offer'[x] = offer[x]
      BY <1>t, <2>1 DEF TypeOK, OfferRow
    <2>3. CASE activates /\ r.offer \in Offers
      <3>1. offer'[r.offer].how = "reactivated"
        BY <1>t, <2>0, <2>1, <2>3 DEF TypeOK, OfferRow
      <3>2. FinitelyManyOffers'
        BY <2>2 DEF ClashInv, FinitelyManyOffers, Exists
      <3> DEFINE o == r.offer
                 m == offer[o].merchant
      <3>3. Overtake(q, m) /\ offer'[o].merchant = m /\ o \in Offers
            /\ offer'[o].how # "checked"
            /\ \A x \in Offers \ {o} : offer'[x] = offer[x]
        BY <2>1, <2>2, <2>3, <3>1
      <3> HIDE DEF o, m
      <3> QED BY <1>t, <3>2, <3>3, OneActivated
    <2>4. CASE r.offer \in Offers /\ ~activates
      <3>1. \A s \in Requests : request'[s] = IF s = q THEN NoRequest ELSE request[s]
        BY <1>t, <2>1, <2>4 DEF TypeOK
      <3>2. \A x \in Offers : offer'[x].active => offer[x].active /\ offer'[x].how = offer[x].how
        BY <1>t, <2>0, <2>1, <2>2, <2>4 DEF TypeOK, OfferRow
      <3> QED BY <1>n, <1>t, <2>2, <3>1, <3>2, NothingActivated
    <2>5. CASE r.offer \notin Offers
      <3>1. offer' = offer
        BY <1>t, <2>1, <2>5 DEF TypeOK
      <3>2. \A s \in Requests : request'[s].pc = "insert_offer" =>
              /\ request[s].pc = "insert_offer"
              /\ request'[s].merchant = request[s].merchant
              /\ request[s].raced => request'[s].raced
        BY <1>n, <1>t, <2>1, Overtaking DEF TypeOK
      <3> QED BY <1>t, <3>1, <3>2, OffersKept
    <2> QED BY <2>3, <2>4, <2>5
  <1>10. CASE NextDay \/ UNCHANGED vars
    BY <1>10, <1>t, OffersKept DEF NextDay, vars
  <1> QED
    BY <1>0, <1>1, <1>2, <1>3, <1>4, <1>5, <1>6, <1>7, <1>8, <1>9, <1>10, <1>f
    DEF Next, Abandon, CreateMerchant

\* There are no offers at the start.
LEMMA InitClashInv == Init => ClashInv
  <1> SUFFICES ASSUME Init PROVE ClashInv
    OBVIOUS
  <1>1. TypeOK BY InitTypeOK
  <1>2. ClashesExplained /\ CheckStillHolds
    BY DEF Init, ClashesExplained, CheckStillHolds, NoRow, NoRequest
  <1>3. {o \in Offers : Exists(o)} = {}
    BY DEF Init, Exists, NoRow
  <1>4. FinitelyManyOffers
    BY <1>3, FS_EmptySet DEF FinitelyManyOffers
  <1> QED BY <1>1, <1>2, <1>4 DEF ClashInv

\* Two active offers of a merchant come from set_offer_status or from requests of which one
\* has overtaken the other between its check and its insertion, whatever admins do and for
\* any number of merchants, offers and requests: nothing else gets past the check.
THEOREM ClashesAlwaysExplained == Spec => []ClashesExplained
  <1>1. Init => ClashInv BY InitClashInv
  <1>2. ClashInv /\ [Next]_vars => ClashInv' BY NextClashInv
  <1>3. ClashInv => ClashesExplained BY DEF ClashInv
  <1> QED BY <1>1, <1>2, <1>3, PTL DEF Spec

\* A merchant's listed offers are those its ingestions select, if the merchant is active.
LEMMA ListedAreFound ==
  ASSUME TypeOK, NEW m \in Merchants
  PROVE  ListedOf(m) = IF EnforceMerchantActive(m) THEN GetActiveOffers(m, today) ELSE {}
  BY CatalogueAssumption
  DEF ListedOf, ListActiveOffers, GetActiveOffers, ActiveOffersOf, EnforceMerchantActive, TypeOK

\* The offers an ingestion selects are one exactly if they are a single one.
LEMMA FoundIsFinite ==
  ASSUME ClashInv, NEW m \in Merchants
  PROVE  IsFiniteSet(GetActiveOffers(m, today))
  <1>1. GetActiveOffers(m, today) \subseteq {o \in Offers : Exists(o)}
    BY CatalogueAssumption DEF GetActiveOffers, ActiveOffersOf, Exists
  <1> QED BY <1>1, FS_Subset DEF ClashInv, FinitelyManyOffers

\* The public list keeps its promise as far as offers do not clash, whatever admins do: an
\* ingestion earns from the only offer that is listed for its merchant, and from no other.
THEOREM ListedOffersEarnAlways == Spec => []ListedOffersEarn
  <1>1. Init => ClashInv BY InitClashInv
  <1>2. ClashInv /\ [Next]_vars => ClashInv' BY NextClashInv
  <1>3. ClashInv => ListedOffersEarn
    <2> SUFFICES ASSUME ClashInv, NEW m \in Merchants
                 PROVE  /\ \A o \in Offers : ListedOf(m) = {o} <=> IngestOffer(m) = o
                        /\ \A o1, o2 \in ListedOf(m) : o1 # o2 =>
                             /\ IngestOffer(m) = NoOffer
                             /\ offer[o1].how # "checked" \/ offer[o2].how # "checked"
      BY DEF ListedOffersEarn
    <2> DEFINE found == GetActiveOffers(m, today)
    <2>1. ListedOf(m) = IF EnforceMerchantActive(m) THEN found ELSE {}
      BY ListedAreFound DEF ClashInv
    <2>2. IsFiniteSet(found) BY FoundIsFinite
    <2>3. IngestOffer(m) = IF EnforceMerchantActive(m) /\ Cardinality(found) = 1
                             THEN CHOOSE o \in found : TRUE ELSE NoOffer
      BY DEF IngestOffer
    <2>4. NoOffer \notin Offers /\ found \subseteq Offers
      BY CatalogueAssumption DEF GetActiveOffers, ActiveOffersOf
    <2>5. \A o1, o2 \in found :
            o1 # o2 => offer[o1].how # "checked" \/ offer[o2].how # "checked"
      BY DEF GetActiveOffers, ActiveOffersOf, ClashInv, ClashesExplained
    <2> HIDE DEF found
    <2>6. Cardinality(found) = 1 => \E x \in found : found = {x}
      BY <2>2, FS_Singleton
    <2>7. \A x : found = {x} => Cardinality(found) = 1
      BY FS_Singleton
    <2>8. ASSUME NEW o \in Offers PROVE ListedOf(m) = {o} <=> IngestOffer(m) = o
      <3>1. ASSUME ListedOf(m) = {o} PROVE IngestOffer(m) = o
        <4>1. EnforceMerchantActive(m) /\ found = {o} BY <2>1, <3>1
        <4> QED BY <2>3, <2>7, <4>1
      <3>2. ASSUME IngestOffer(m) = o PROVE ListedOf(m) = {o}
        <4>1. EnforceMerchantActive(m) /\ Cardinality(found) = 1
          BY <2>3, <2>4, <3>2
        <4>2. PICK x \in found : found = {x} BY <2>6, <4>1
        <4> QED BY <2>1, <2>3, <3>2, <4>1, <4>2
      <3> QED BY <3>1, <3>2
    <2>9. ASSUME NEW o1 \in ListedOf(m), NEW o2 \in ListedOf(m), o1 # o2
          PROVE  /\ IngestOffer(m) = NoOffer
                 /\ offer[o1].how # "checked" \/ offer[o2].how # "checked"
      <3>1. o1 \in found /\ o2 \in found BY <2>1
      <3>2. Cardinality(found) # 1 BY <2>6, <2>9, <3>1
      <3> QED BY <2>3, <2>5, <2>9, <3>1, <3>2
    <2> QED BY <2>8, <2>9
  <1> QED BY <1>1, <1>2, <1>3, PTL DEF Spec

-----------------------------------------------------------------------------
(* Names.  Whatever admins do at the same time.                             *)

\* A request that is about to insert a merchant, and has not raced, still has its name
\* for itself.
UnracedNameFree ==
  \A q \in Requests : request[q].pc = "insert_merchant" =>
    /\ request[q].name \in Names
    /\ ~request[q].raced => ~NameTaken(request[q].name)

\* The inductive invariant for names.
NameInv == TypeOK /\ OnlyRacesShareNames /\ UnracedNameFree

\* A step that keeps the names of the merchants, and takes no request to the insertion of a
\* merchant, keeps what the invariant says of names.
LEMMA NamesKept ==
  ASSUME NameInv, TypeOK',
         \A m \in Merchants : /\ merchant'[m].name = merchant[m].name
                              /\ merchant'[m].raced = merchant[m].raced,
         \A q \in Requests : request'[q] = request[q] \/ request'[q].pc # "insert_merchant"
  PROVE  NameInv'
  <1>1. OnlyRacesShareNames'
    BY DEF NameInv, OnlyRacesShareNames
  <1>2. UnracedNameFree'
    BY DEF NameInv, UnracedNameFree, NameTaken
  <1> QED BY <1>1, <1>2 DEF NameInv

\* Every step keeps the invariant.
LEMMA NextNameInv == NameInv /\ [Next]_vars => NameInv'
  <1> SUFFICES ASSUME NameInv, [Next]_vars PROVE NameInv'
    OBVIOUS
  <1>t. TypeOK /\ TypeOK'
    BY NextTypeOK DEF NameInv
  <1>n. NoRequest.pc = "idle"
    BY DEF NoRequest
  <1>r. ASSUME NEW q \in Requests, NEW w, w.pc # "insert_merchant",
               request' = [request EXCEPT ![q] = w], merchant' = merchant
        PROVE  NameInv'
    BY <1>r, <1>t, NamesKept DEF TypeOK
  <1>f. ASSUME NEW q \in Requests, Refuse(q) PROVE NameInv'
    BY <1>f, <1>n, <1>r DEF Refuse
  <1>c. ASSUME NEW q \in Requests, NEW pc \in CreateSteps, Continue(q, pc) PROVE NameInv'
    <2>1. [request[q] EXCEPT !.pc = pc].pc = pc
      BY <1>t DEF TypeOK, RequestStates
    <2> QED BY <1>c, <1>r, <2>1 DEF Continue, CreateSteps
  <1>o. ASSUME NEW q \in Requests, NEW m, Overtake(q, m), merchant' = merchant PROVE NameInv'
    <2>1. \A s \in Requests : request'[s] = request[s] \/ request'[s].pc # "insert_merchant"
      BY <1>o, <1>n, <1>t, Overtaking
    <2> QED BY <1>o, <1>t, <2>1, NamesKept
  <1>0. ASSUME NEW q \in Requests, NEW n \in Names, NEW active \in BOOLEAN,
               LookUpName(q, n, active)
        PROVE  NameInv'
    <2> DEFINE w == [NoRequest EXCEPT !.pc = "insert_merchant", !.name = n, !.wanted = active]
    <2>1. w.name = n
      BY DEF NoRequest
    <2>2. \A x \in Requests : request'[x] = IF x = q THEN w ELSE request[x]
      BY <1>0, <1>t DEF LookUpName, Begin, TypeOK
    <2>3. merchant' = merchant /\ ~NameTaken(n)
      BY <1>0 DEF LookUpName, Begin
    <2> HIDE DEF w
    <2>4. OnlyRacesShareNames'
      BY <2>3 DEF NameInv, OnlyRacesShareNames
    <2>5. UnracedNameFree'
      BY <2>1, <2>2, <2>3 DEF NameInv, UnracedNameFree, NameTaken
    <2> QED BY <1>t, <2>4, <2>5 DEF NameInv
  <1>1. ASSUME NEW q \in Requests, NEW m \in Merchants, AddMerchant(q, m) PROVE NameInv'
    <2> DEFINE n == request[q].name
    <2>1. /\ request[q].pc = "insert_merchant"
          /\ n \in Names
          /\ ~request[q].raced => ~NameTaken(n)
      BY <1>1 DEF AddMerchant, NameInv, UnracedNameFree
    <2>2. /\ merchant'[m].name = n /\ merchant'[m].raced = request[q].raced
          /\ \A x \in Merchants \ {m} : merchant'[x] = merchant[x]
      BY <1>1, <1>t DEF AddMerchant, TypeOK
    <2>3. \A x \in Requests : request'[x].pc = "insert_merchant" =>
            /\ request[x].pc = "insert_merchant" /\ request'[x].name = request[x].name
            /\ request[x].raced \/ request[x].name = n => request'[x].raced
      BY <1>1, <1>n, <1>t DEF AddMerchant, TypeOK, RequestStates
    <2> HIDE DEF n
    <2>4. OnlyRacesShareNames'
      BY <2>1, <2>2 DEF NameInv, OnlyRacesShareNames, NameTaken
    <2>5. UnracedNameFree'
      <3> SUFFICES ASSUME NEW x \in Requests, request'[x].pc = "insert_merchant"
                   PROVE  /\ request'[x].name \in Names
                          /\ ~request'[x].raced =>
                               \A y \in Merchants : merchant'[y].name # request'[x].name
        BY DEF UnracedNameFree, NameTaken
      <3>1. request'[x].name \in Names
        BY <2>3 DEF NameInv, UnracedNameFree
      <3>2. ASSUME ~request'[x].raced, NEW y \in Merchants, merchant'[y].name = request'[x].name
            PROVE  FALSE
        <4>1. ~request[x].raced /\ request[x].name # n
          BY <2>3, <3>2
        <4>2. ~NameTaken(request[x].name)
          BY <2>3, <4>1 DEF NameInv, UnracedNameFree
        <4>3. y # m /\ merchant[y].name = request[x].name
          BY <2>2, <2>3, <3>2, <4>1
        <4> QED BY <4>2, <4>3 DEF NameTaken
      <3> QED BY <3>1, <3>2
    <2> QED BY <1>t, <2>4, <2>5 DEF NameInv
  <1>2. ASSUME NEW q \in Requests, NEW m \in Merchants, NEW active \in BOOLEAN,
               ReadMerchant(q, m, active)
        PROVE  NameInv'
    BY <1>2, <1>r DEF ReadMerchant, Begin, NoRequest
  <1>3. ASSUME NEW q \in Requests, UpdateMerchantStatus(q) PROVE NameInv'
    <2>1. \A m \in Merchants : /\ merchant'[m].name = merchant[m].name
                               /\ merchant'[m].raced = merchant[m].raced
      BY <1>3, <1>t DEF UpdateMerchantStatus, TypeOK, MerchantRow
    <2>2. \A x \in Requests : request'[x] = IF x = q THEN NoRequest ELSE request[x]
      BY <1>3, <1>t DEF UpdateMerchantStatus, TypeOK
    <2> QED BY <1>n, <1>t, <2>1, <2>2, NamesKept
  <1>4. ASSUME NEW q \in Requests, NEW m \in Merchants, NEW start \in Days, NEW end \in Days,
               StartCreateOffer(q, m, start, end)
        PROVE  NameInv'
    BY <1>4, <1>r DEF StartCreateOffer, Begin, NoRequest
  <1>5. ASSUME NEW q \in Requests, EnforceMerchantIsActive(q) PROVE NameInv'
    BY <1>5, <1>c, <1>f DEF EnforceMerchantIsActive, CreateSteps
  <1>6. ASSUME NEW q \in Requests, EnforceNoActiveOfferExists(q) PROVE NameInv'
    BY <1>6, <1>c, <1>f DEF EnforceNoActiveOfferExists, CreateSteps
  <1>7. ASSUME NEW q \in Requests, AddOffer(q) PROVE NameInv'
    BY <1>7, <1>o DEF AddOffer
  <1>8. ASSUME NEW q \in Requests, NEW o \in Offers, NEW active \in BOOLEAN,
               ReadOffer(q, o, active)
        PROVE  NameInv'
    BY <1>8, <1>r DEF ReadOffer, Begin, NoRequest
  <1>9. ASSUME NEW q \in Requests, UpdateOfferStatus(q) PROVE NameInv'
    BY <1>9, <1>n, <1>o, <1>r DEF UpdateOfferStatus
  <1>10. CASE NextDay \/ UNCHANGED vars
    BY <1>10, <1>t, NamesKept DEF NextDay, vars
  <1> QED
    BY <1>0, <1>1, <1>2, <1>3, <1>4, <1>5, <1>6, <1>7, <1>8, <1>9, <1>10, <1>f
    DEF Next, Abandon, CreateMerchant

\* Without an index on the name, create_merchant still keeps names apart except between
\* requests that overlap, for any number of merchants, names and requests and whatever
\* else admins do.
THEOREM OnlyRacesShareNamesAlways == Spec => []OnlyRacesShareNames
  <1>1. Init => NameInv
    BY InitTypeOK DEF Init, NameInv, NoMerchantRow, NoRequest, OnlyRacesShareNames, UnracedNameFree
  <1>2. NameInv /\ [Next]_vars => NameInv' BY NextNameInv
  <1>3. NameInv => OnlyRacesShareNames BY DEF NameInv
  <1> QED BY <1>1, <1>2, <1>3, PTL DEF Spec

-----------------------------------------------------------------------------
(* The views of the catalogue.                                              *)

\* No offer ends before it starts, and no request is about to insert one that does.
DatesInOrder ==
  /\ \A o \in Offers : offer[o].start <= offer[o].end
  /\ \A q \in Requests : request[q].start <= request[q].end

\* The inductive invariant for the views.
ViewInv == TypeOK /\ DatesInOrder

\* create_offer checks the dates before its first await and nothing changes them later.
LEMMA NextViewInv == ViewInv /\ [Next]_vars => ViewInv'
  <1> SUFFICES ASSUME ViewInv, [Next]_vars PROVE ViewInv'
    OBVIOUS
  <1>t. TypeOK /\ TypeOK'
    BY NextTypeOK DEF ViewInv
  <1> SUFFICES DatesInOrder'
    BY <1>t DEF ViewInv
  <1> USE DEF TypeOK
  <1>n. NoRequest \in RequestStates /\ NoRequest.start <= NoRequest.end
    BY CatalogueAssumption DEF NoRequest, RequestStates, Days
  <1>d. /\ \A o \in Offers : offer[o].start <= offer[o].end
        /\ \A q \in Requests : request[q].start <= request[q].end
    BY DEF ViewInv, DatesInOrder
  <1>f. ASSUME NEW q \in Requests, offer' = offer,
               request' = [request EXCEPT ![q] = NoRequest]
        PROVE  DatesInOrder'
    BY <1>t, <1>n, <1>d, <1>f DEF DatesInOrder
  <1>g. ASSUME NEW q \in Requests, NEW w \in RequestStates, w.start <= w.end, Begin(q, w) PROVE DatesInOrder'
    BY <1>t, <1>d, <1>g DEF Begin, DatesInOrder
  <1>c. ASSUME NEW q \in Requests, NEW pc, Continue(q, pc) PROVE DatesInOrder'
    BY <1>t, <1>d, <1>c DEF Continue, DatesInOrder, RequestStates
  <1>0. ASSUME NEW q \in Requests, NEW n \in Names, NEW active \in BOOLEAN,
               LookUpName(q, n, active)
        PROVE  DatesInOrder'
    BY <1>0, <1>g, <1>n DEF LookUpName, NoRequest, RequestStates, Days
  <1>1. ASSUME NEW q \in Requests, NEW m \in Merchants, AddMerchant(q, m) PROVE DatesInOrder'
    <2>1. ASSUME NEW s \in Requests PROVE request'[s].start <= request'[s].end
      <3>1. CASE s = q BY <1>1, <1>n, <3>1 DEF AddMerchant
      <3>2. CASE s # q
        <4>1. request'[s].start = request[s].start /\ request'[s].end = request[s].end
          BY <1>1, <1>t, <3>2 DEF AddMerchant, RequestStates
        <4> QED BY <4>1, <1>d
      <3> QED BY <3>1, <3>2
    <2> QED BY <1>1, <1>d, <2>1 DEF AddMerchant, DatesInOrder
  <1>2. ASSUME NEW q \in Requests, NEW m \in Merchants, NEW active \in BOOLEAN,
               ReadMerchant(q, m, active)
        PROVE  DatesInOrder'
    BY <1>2, <1>g, <1>n DEF ReadMerchant, NoRequest, RequestStates, Days
  <1>3. ASSUME NEW q \in Requests, UpdateMerchantStatus(q) PROVE DatesInOrder'
    BY <1>3, <1>f DEF UpdateMerchantStatus
  <1>4. ASSUME NEW q \in Requests, NEW m \in Merchants, NEW start \in Days, NEW end \in Days,
               StartCreateOffer(q, m, start, end)
        PROVE  DatesInOrder'
    <2>1. start <= end
      BY <1>4 DEF StartCreateOffer, EnforceDateRangeValidity, Days
    <2> QED BY <1>4, <1>g, <1>n, <2>1 DEF StartCreateOffer, NoRequest, RequestStates, CreateSteps, Days
  <1>5. ASSUME NEW q \in Requests, EnforceMerchantIsActive(q) PROVE DatesInOrder'
    BY <1>5, <1>c, <1>f DEF EnforceMerchantIsActive, Refuse
  <1>6. ASSUME NEW q \in Requests, EnforceNoActiveOfferExists(q) PROVE DatesInOrder'
    BY <1>6, <1>c, <1>f DEF EnforceNoActiveOfferExists, Refuse
  <1>7. ASSUME NEW q \in Requests, AddOffer(q) PROVE DatesInOrder'
    <2>1. \A o \in Offers : offer'[o].start <= offer'[o].end
      BY <1>7, <1>t, <1>d DEF AddOffer
    <2>2. \A s \in Requests : request'[s].start <= request'[s].end
      BY <1>7, <1>t, <1>d, <1>n, Overtaking DEF AddOffer
    <2> QED BY <2>1, <2>2 DEF DatesInOrder
  <1>8. ASSUME NEW q \in Requests, NEW o \in Offers, NEW active \in BOOLEAN,
               ReadOffer(q, o, active)
        PROVE  DatesInOrder'
    <2>1. offer[o].active \in BOOLEAN
      BY <1>t DEF OfferRow
    <2> QED BY <1>8, <1>g, <1>n, <2>1 DEF ReadOffer, NoRequest, RequestStates, Days
  <1>9. ASSUME NEW q \in Requests, UpdateOfferStatus(q) PROVE DatesInOrder'
    <2>1. \A o \in Offers : offer'[o].start <= offer'[o].end
      BY <1>9, <1>t, <1>d DEF UpdateOfferStatus, OfferRow
    <2>2. \A s \in Requests : request'[s].start <= request'[s].end
      BY <1>9, <1>t, <1>d, <1>n, Overtaking DEF UpdateOfferStatus
    <2> QED BY <2>1, <2>2 DEF DatesInOrder
  <1>10. ASSUME NextDay PROVE DatesInOrder'
    BY <1>10, <1>d DEF NextDay, DatesInOrder
  <1>11. CASE UNCHANGED vars
    BY <1>11, <1>d DEF vars, DatesInOrder
  <1> QED
    BY <1>0, <1>1, <1>2, <1>3, <1>4, <1>5, <1>6, <1>7, <1>8, <1>9, <1>10, <1>11, <1>f
    DEF Next, Abandon, CreateMerchant, Refuse

\* The two comparisons of list_offers find the offers in force on some day asked for.
LEMMA OverlapIsADay ==
  ASSUME NEW start \in Int, NEW end \in Int, NEW from \in Int, NEW to \in Int,
         start <= end, from <= to
  PROVE  from <= end /\ start <= to
           <=> \E day \in from .. to : start <= day /\ day <= end
  <1>1. ASSUME from <= end, start <= to
        PROVE  \E day \in from .. to : start <= day /\ day <= end
    <2>1. CASE from <= start
      <3>1. start \in from .. to BY <1>1, <2>1
      <3> QED BY <3>1
    <2>2. CASE ~(from <= start)
      <3>1. from \in from .. to /\ start <= from BY <2>2
      <3> QED BY <1>1, <3>1
    <2> QED BY <2>1, <2>2
  <1>2. ASSUME NEW day \in from .. to, start <= day, day <= end
        PROVE  from <= end /\ start <= to
    BY <1>2
  <1> QED BY <1>1, <1>2

\* Whoever looks at the catalogue, and whichever way, sees the same offers: for all
\* merchants, offers and days, and whatever admins do at the same time.
THEOREM ViewsAlwaysAgree == Spec => []ViewsAgree
  <1>1. Init => ViewInv
    BY InitTypeOK DEF Init, ViewInv, DatesInOrder, NoRow, NoRequest
  <1>2. ViewInv /\ [Next]_vars => ViewInv' BY NextViewInv
  <1>3. ViewInv => ViewsAgree
    <2> SUFFICES ASSUME ViewInv PROVE ViewsAgree
      OBVIOUS
    <2>0. /\ today \in Days
          /\ \A o \in Offers : /\ offer[o].start \in Days /\ offer[o].end \in Days
                               /\ offer[o].active \in BOOLEAN
                               /\ offer[o].merchant \in Merchants \cup {NoMerchant}
                               /\ offer[o].start <= offer[o].end
      BY DEF ViewInv, TypeOK, OfferRow, DatesInOrder
    <2>1. MapStatusToActive("any") = BOOLEAN /\ MapStatusToActive("active") = {TRUE}
      BY DEF MapStatusToActive
    <2>2. ListActiveOffers =
            {o \in ListOffers("active", NoMerchant, today, today) : GetOfferDetails(o, FALSE)}
      BY <2>0, <2>1
      DEF ListActiveOffers, ListOffers, GetOfferDetails, Exists, OnDay, EnforceOfferVisibility,
          EnforceOfferMerchantVisibility
    <2>3. \A o \in ListActiveOffers : offer[o].merchant \in ListMerchants("active")
      BY <2>0 DEF ListActiveOffers, ListMerchants
    <2>4. ASSUME NEW from \in Days, NEW to \in Days, ValidateListParams(from, to)
          PROVE  ListOffers("any", NoMerchant, from, to) =
                   {o \in Offers : GetOfferDetails(o, TRUE) /\ \E day \in from .. to : OnDay(o, day)}
      <3>1. ASSUME NEW o \in Offers
            PROVE  from <= offer[o].end /\ offer[o].start <= to
                     <=> \E day \in from .. to : OnDay(o, day)
        BY <2>0, <2>4, OverlapIsADay DEF Days, ValidateListParams, OnDay
      <3>2. \A o \in Offers : GetOfferDetails(o, TRUE) <=> Exists(o)
        BY DEF GetOfferDetails, EnforceOfferVisibility, EnforceOfferMerchantVisibility
      <3>3. \A o \in Offers : o \in ListOffers("any", NoMerchant, from, to)
                             <=> Exists(o) /\ from <= offer[o].end /\ offer[o].start <= to
        BY <2>0, <2>1 DEF ListOffers
      <3>4. ListOffers("any", NoMerchant, from, to) \subseteq Offers
        BY DEF ListOffers
      <3> QED BY <3>1, <3>2, <3>3, <3>4
    <2> QED BY <2>2, <2>3, <2>4 DEF ViewsAgree
  <1> QED BY <1>1, <1>2, <1>3, PTL DEF Spec
=============================================================================
