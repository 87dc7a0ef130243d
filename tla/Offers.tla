------------------------------- MODULE Offers -------------------------------
(***************************************************************************)
(* What the customer is offered and what the rental service then accepts.  *)
(* The offers (StationsRepository, AppScanService.resolveQr, RentalsService*)
(* previewStart and getReturnStations) and the checks of start() and       *)
(* return() are separate queries that must agree on what "available"       *)
(* means.  One station; the server's rows change between an offer and its  *)
(* acceptance.  The row and the Map agree on whether the station is online *)
(* (Heartbeats says when they do not).                                     *)
(***************************************************************************)
EXTENDS Integers, FiniteSets

CONSTANTS Slot,   \* slot ids, ordered by slotIndex
          None

VARIABLES slots,    \* slot rows: status, and the status of the bank in it
          place,    \* of the station: active, online
          renter,   \* of the user: an active rental, money for the deposit
          counted,  \* a station detail between its two queries
          offer,    \* what the page offers
          changed,  \* history: a row has changed since the offer was begun
          verdict   \* the answer to the accepted offer

offerVars == <<slots, place, renter, counted, offer, changed, verdict>>

SlotRow == [status : {"empty", "occupied", "faulty"},
            bank : {None, "idle", "charging"}]
Place == [active : BOOLEAN, online : {"yes", "no", "unknown"}]
Renter == [renting : BOOLEAN, funded : BOOLEAN]
Kind == {"nearby", "auto", "slot", "exact", "return", "detail"}
Shown == [kind : Kind \cup {None}, slot : Slot \cup {None}]
NoOffer == [kind |-> None, slot |-> None]
Answer == {"accepted", "active", "offline", "slot", "funds"}

TypeOK ==
    /\ slots \in [Slot -> SlotRow]
    /\ place \in Place
    /\ renter \in Renter
    /\ counted \in 0..Cardinality(Slot) \cup {None}
    /\ offer \in Shown
    /\ changed \in BOOLEAN
    /\ verdict \in Answer \cup {None}

\* The seed, the cabinets' messages and earlier rentals leave any rows.
Init ==
    /\ slots \in [Slot -> SlotRow]
    /\ place \in Place
    /\ renter \in Renter
    /\ counted = None
    /\ offer = NoOffer
    /\ changed = FALSE
    /\ verdict = None

BankIsIdle(s) == slots[s].bank = "idle"

OccupiedSlots == Cardinality({s \in Slot : slots[s].bank # None})

\* available_slots
AvailableSlots == Cardinality({s \in Slot : BankIsIdle(s)})

IsEmpty(s) == slots[s].status = "empty" /\ slots[s].bank = None

\* A page asks anew: its former offer is gone.
Ask == offer = NoOffer /\ counted = None /\ verdict = None

Offer(kind, s, stands) ==
    /\ offer' = IF stands THEN [kind |-> kind, slot |-> s] ELSE NoOffer
    /\ verdict' = None

Rows == <<slots, place, renter>>

\* findNearby, also behind the home page: active stations with their count.
FindNearby ==
    /\ Ask
    /\ Offer("nearby", None, place.active /\ AvailableSlots > 0)
    /\ changed' = FALSE
    /\ UNCHANGED <<Rows, counted>>

\* findById, findByMqttDeviceId: the count comes first, the slots second.
FindDetail ==
    /\ Ask
    /\ counted' = AvailableSlots
    /\ changed' = FALSE
    /\ UNCHANGED <<Rows, offer, verdict>>

DetectedRentable(s) == slots[s].status = "occupied" /\ BankIsIdle(s)

\* resolveQr: a code that names a slot of the station offers that slot, any
\* other code offers the first one that will do.
ResolveQr(s) ==
    /\ counted # None
    /\ IF s \in Slot THEN Offer("slot", s, DetectedRentable(s))
       ELSE Offer("auto", None, place.online = "yes" /\ counted > 0)
    /\ counted' = None
    /\ UNCHANGED <<Rows, changed>>

\* supportsReturn of a station's detail, which its page shows, goes by the
\* status of a slot alone.
ShowDetail ==
    /\ counted # None
    /\ Offer("detail", None, \E s \in Slot : slots[s].status = "empty")
    /\ counted' = None
    /\ UNCHANGED <<Rows, changed>>

\* previewStart for the slot resolveQr offered.  It throws for a slot that
\* will not do.
PreviewStart ==
    /\ offer.kind = "slot"
    /\ Offer("exact", offer.slot, BankIsIdle(offer.slot)
               /\ renter.funded /\ ~renter.renting)
    /\ changed' = FALSE
    /\ UNCHANGED <<Rows, counted>>

\* findNearbyReturnStations and its supportsReturn.
GetReturnStations ==
    /\ Ask
    /\ renter.renting
    /\ Offer("return", None, place.active /\ \E s \in Slot : IsEmpty(s))
    /\ changed' = FALSE
    /\ UNCHANGED <<Rows, counted>>

\* The checks of start() in their order, up to the command to the cabinet.
StartAnswer(s) ==
    CASE renter.renting       -> "active"
      [] place.online # "yes" -> "offline"
      [] ~BankIsIdle(s)       -> "slot"
      [] ~renter.funded       -> "funds"
      [] OTHER                -> "accepted"

\* findFirstRentableSlotByStation: whatever the slot's own status.
AutoStartAnswer ==
    IF \E s \in Slot : BankIsIdle(s)
    THEN StartAnswer(CHOOSE s \in Slot : BankIsIdle(s)) ELSE "slot"

\* findFirstEmptySlotByStation, then the checks of return().
AutoReturnAnswer ==
    CASE ~\E s \in Slot : IsEmpty(s) -> "slot"
      [] ~renter.renting             -> "active"
      [] place.online # "yes"        -> "offline"
      [] OTHER                       -> "accepted"

Accept ==
    /\ offer # NoOffer
    /\ offer.kind # "slot"
    /\ verdict = None
    /\ verdict' = CASE offer.kind = "exact"  -> StartAnswer(offer.slot)
                    [] offer.kind \in {"return", "detail"} -> AutoReturnAnswer
                    [] OTHER                 -> AutoStartAnswer
    /\ UNCHANGED <<Rows, counted, offer, changed>>

Leave ==
    /\ offer # NoOffer
    /\ offer' = NoOffer
    /\ verdict' = None
    /\ UNCHANGED <<Rows, counted, changed>>

\* Other rentals, the cabinet and administrators; one change to a row.
RowsChange ==
    /\ ~changed
    /\ verdict = None
    /\ offer # NoOffer \/ counted # None
    /\ changed' = TRUE
    /\ \/ \E s \in Slot, r \in SlotRow : slots' = [slots EXCEPT ![s] = r]
          /\ UNCHANGED <<place, renter>>
       \/ place' \in Place /\ UNCHANGED <<slots, renter>>
       \/ renter' \in Renter /\ UNCHANGED <<slots, place>>
    /\ UNCHANGED <<counted, offer, verdict>>

Next ==
    \/ FindNearby \/ FindDetail \/ ShowDetail \/ PreviewStart
    \/ GetReturnStations
    \/ Accept \/ Leave \/ RowsChange
    \/ \E s \in Slot \cup {None} : ResolveQr(s)

Spec == Init /\ [][Next]_offerVars

\* A slot whose status says empty and whose row names a bank.
Contradicted(s) == slots[s].status = "empty" /\ slots[s].bank # None

\* The answers the page has told the customer not to expect.  The detail's
\* word on returns is worth nothing while a slot contradicts itself.
Excluded(kind) ==
    CASE kind = "nearby" -> {"slot"}
      [] kind = "auto"   -> {"slot", "offline"}
      [] kind = "exact"  -> {"slot", "active", "funds"}
      [] kind = "return" -> {"slot", "active"}
      [] kind = "detail" -> IF \E s \in Slot : Contradicted(s) THEN {}
                            ELSE {"slot"}
      [] OTHER           -> {}

\* An offer that no row has overtaken is honoured: a station shown with slots
\* starts a rental, a previewed slot starts one and is paid for, a station
\* shown for the return takes the bank back; and so does one whose detail says
\* so, unless the row of a slot contradicts itself.
OffersAreHonoured == ~changed => verdict \notin Excluded(offer.kind)

\* What an offer says of the rows.
Stands ==
    CASE offer.kind = "nearby" -> AvailableSlots > 0
      [] offer.kind = "auto"   -> AvailableSlots > 0 /\ place.online = "yes"
      [] offer.kind = "exact"  -> /\ offer.slot \in Slot
                                  /\ BankIsIdle(offer.slot)
                                  /\ renter.funded /\ ~renter.renting
      [] offer.kind = "return" -> renter.renting /\ \E s \in Slot : IsEmpty(s)
      [] offer.kind = "detail" -> \E s \in Slot : slots[s].status = "empty"
      [] OTHER                 -> TRUE

\* A page between the queries of a station detail shows no offer yet.
CountedBeforeOffering == counted # None => offer.kind = None

\* Only a slot of the station is offered by its code.
SlotsAreOffered == offer.kind = "slot" => offer.slot \in Slot

\* Unless a row has changed, the offer and the count are those of the rows.
OfferIsFresh == ~changed => Stands /\ counted \in {AvailableSlots, None}

\* The inductive invariant behind it.
OffersInv ==
    /\ TypeOK
    /\ OffersAreHonoured
    /\ CountedBeforeOffering
    /\ SlotsAreOffered
    /\ OfferIsFresh
=============================================================================
