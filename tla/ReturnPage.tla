----------------------------- MODULE ReturnPage -----------------------------
(***************************************************************************)
(* Giving a power bank back in the customer app: the pages of the active   *)
(* rental, of the return and of the receipt.  The button sends the station *)
(* that is selected; the receipt is written when the answer comes, from    *)
(* what the page knows by then, for the callback of a pending mutation is  *)
(* renewed by every render and keeps what the last one saw.                *)
(***************************************************************************)
EXTENDS Integers, Sequences

CONSTANTS Rental,   \* each stands for the station it started at, too
          Station,  \* where a bank can be returned
          Tap,      \* bound: presses of the return button under way
          None

VARIABLES ride,      \* rentals on the server: none, active, where returned
          onPage,    \* the rental whose return page is open
          known,     \* activeRentalQuery.data
          options,   \* stationsQuery.data, nearest first
          picked,    \* selectedStationId
          attached,  \* the press returnMutation shows as pending
          presses,   \* presses under way: what was sent, what a callback saw
          receipt,   \* the session's last receipt
          meddled    \* history: presses whose page has changed meanwhile

returnVars == <<ride, onPage, known, options, picked, attached, presses,
                receipt, meddled>>

Lists == {<<>>} \cup {<<s>> : s \in Station}
           \cup ((Station \X Station) \ {<<s, s>> : s \in Station})
Unseen == [rental |-> None, to |-> None]
Unpressed == [at |-> "unused", of |-> None, to |-> None, saw |-> Unseen]
Sight == [rental : Rental \cup {None}, to : Station \cup {None}]
Pressing == [at : {"unused", "sent", "returned", "refused"},
             of : Rental \cup {None}, to : Station \cup {None}, saw : Sight]
Receipt == [of : Rental, from : Rental, to : Station, sure : BOOLEAN]

TypeOK ==
    /\ ride \in [Rental -> {"none", "active"} \cup Station]
    /\ onPage \in Rental \cup {None}
    /\ known \in Rental \cup {None}
    /\ options \in Lists
    /\ picked \in Station \cup {None}
    /\ attached \in Tap \cup {None}
    /\ presses \in [Tap -> Pressing]
    /\ receipt = None \/ receipt \in Receipt
    /\ meddled \subseteq Tap

Init ==
    /\ ride = [r \in Rental |-> "none"]
    /\ onPage = None
    /\ known = None
    /\ options = <<>>
    /\ picked = None
    /\ attached = None
    /\ presses = [p \in Tap |-> Unpressed]
    /\ receipt = None
    /\ meddled = {}

Active == {r \in Rental : ride[r] = "active"}

\* What the list shows as selected: the station picked while it is listed,
\* else the first one.
Selected(l, k) ==
    IF \E i \in DOMAIN l : l[i] = k THEN k
    ELSE IF l = <<>> THEN None ELSE Head(l)

\* A change on the page while a press is pending reaches its callback.
Meddles(changed) ==
    meddled' = IF changed /\ attached # None THEN meddled \cup {attached}
               ELSE meddled

\* A rental starts, on this device or another.
StartRental(r) ==
    /\ ride[r] = "none"
    /\ Active = {}
    /\ ride' = [ride EXCEPT ![r] = "active"]
    /\ UNCHANGED <<onPage, known, options, picked, attached, presses, receipt,
                   meddled>>

\* The link of the page of the active rental, which may know an old one.
OpenReturn ==
    /\ onPage = None
    /\ known # None
    /\ onPage' = known
    /\ UNCHANGED <<ride, known, options, picked, attached, presses, receipt,
                   meddled>>

\* What the callbacks of a render see: the rental and the station selected.
Seen == [rental |-> known, to |-> Selected(options, picked)]

PageGone ==
    /\ onPage' = None
    /\ options' = <<>>
    /\ picked' = None
    /\ attached' = None

\* The page goes; its requests do not, and keep what they saw last.
Leave ==
    /\ onPage # None
    /\ PageGone
    /\ presses' = IF attached # None
                  THEN [presses EXCEPT ![attached].saw = Seen] ELSE presses
    /\ UNCHANGED <<ride, known, receipt, meddled>>

\* The active rental is read again: one, another, or none.
ReadActive ==
    /\ known' = IF Active = {} THEN None ELSE CHOOSE r \in Active : TRUE
    /\ Meddles(known' # known)
    /\ UNCHANGED <<ride, onPage, options, picked, attached, presses, receipt>>

\* Return stations come and go, and move with the customer.  A rental that is
\* no longer active has none; what the page showed stays.
ReadStations ==
    /\ onPage \in Active
    /\ options' \in Lists
    /\ Meddles(Selected(options', picked) # Selected(options, picked))
    /\ UNCHANGED <<ride, onPage, known, picked, attached, presses, receipt>>

Pick(s) ==
    /\ \E i \in DOMAIN options : options[i] = s
    /\ picked' = s
    /\ Meddles(s # Selected(options, picked))
    /\ UNCHANGED <<ride, onPage, known, options, attached, presses, receipt>>

\* The button: disabled while a press is pending or nothing is selected.
Return(p) ==
    /\ onPage # None
    /\ attached = None
    /\ presses[p] = Unpressed
    /\ Selected(options, picked) # None
    /\ presses' = [presses EXCEPT ![p] =
         [Unpressed EXCEPT !.at = "sent", !.of = onPage,
                           !.to = Selected(options, picked)]]
    /\ attached' = p
    /\ meddled' = IF known = onPage THEN meddled ELSE meddled \cup {p}
    /\ UNCHANGED <<ride, onPage, known, options, picked, receipt>>

\* returnWithAutoSelect, as the page knows it.
ServerAnswers(p) ==
    /\ presses[p].at = "sent"
    /\ \/ /\ presses[p].of \in Active
          /\ ride' = [ride EXCEPT ![presses[p].of] = presses[p].to]
          /\ presses' = [presses EXCEPT ![p].at = "returned"]
       \/ /\ presses' = [presses EXCEPT ![p].at = "refused"]
          /\ UNCHANGED ride
    /\ UNCHANGED <<onPage, known, options, picked, attached, receipt, meddled>>

SeenByCallback(p) == IF attached = p THEN Seen ELSE presses[p].saw

NearestStation(p) ==
    IF attached = p /\ options # <<>> THEN Head(options) ELSE presses[p].to

\* endStationName: selectedStation?.name, else the id in the answer.
EndStation(p) ==
    IF SeenByCallback(p).to = None THEN presses[p].to ELSE SeenByCallback(p).to

\* startStationName: of the rental the page knows, else the id in the answer.
StartStation(p) ==
    IF SeenByCallback(p).rental = None THEN presses[p].of
    ELSE SeenByCallback(p).rental

\* onSuccess writes the receipt and leaves for its page.
Returned(p) ==
    /\ presses[p].at = "returned"
    /\ receipt' = [of |-> presses[p].of, from |-> StartStation(p),
                   to |-> EndStation(p), sure |-> p \notin meddled]
    /\ PageGone
    /\ presses' = [q \in Tap |->
         IF q = p THEN Unpressed
         ELSE IF q = attached THEN [presses[q] EXCEPT !.saw = Seen]
         ELSE presses[q]]
    /\ meddled' = meddled \ {p}
    /\ UNCHANGED <<ride, known>>

\* A refusal or a lost answer: the button of its page is enabled again.
NotReturned(p) ==
    /\ presses[p].at \in {"returned", "refused"}
    /\ presses' = [presses EXCEPT ![p] = Unpressed]
    /\ attached' = IF attached = p THEN None ELSE attached
    /\ meddled' = meddled \ {p}
    /\ UNCHANGED <<ride, onPage, known, options, picked, receipt>>

\* The links of the receipt page.
ClearReceipt ==
    /\ receipt # None
    /\ receipt' = None
    /\ UNCHANGED <<ride, onPage, known, options, picked, attached, presses,
                   meddled>>

Next ==
    \/ OpenReturn \/ Leave \/ ReadActive \/ ReadStations \/ ClearReceipt
    \/ \E r \in Rental : StartRental(r)
    \/ \E s \in Station : Pick(s)
    \/ \E p \in Tap :
         Return(p) \/ ServerAnswers(p) \/ Returned(p) \/ NotReturned(p)

Spec == Init /\ [][Next]_returnVars

\* The receipt tells where the bank was taken and where it went, also when the
\* page was left or its lists were read again meanwhile.  Not when another
\* station became the selected one, or another rental the known one, while the
\* press was pending: the callback then names what the page shows by now.
ReceiptNamesTheReturn ==
    receipt # None /\ receipt.sure =>
        receipt.from = receipt.of /\ receipt.to = ride[receipt.of]

\* The inductive invariant behind it: unless it was meddled with, the callback
\* of a press sees what the press has sent, and a rental once returned stays
\* where it was returned to.
ReceiptIsOfARide ==
    receipt # None => ride[receipt.of] \in Station /\ ReceiptNamesTheReturn

Pressed == {p \in Tap : presses[p].at # "unused"}

PressIsSent ==
    /\ attached # None => attached \in Pressed
    /\ \A p \in Pressed :
         /\ presses[p].of \in Rental
         /\ presses[p].to \in Station
         /\ presses[p].at = "returned" => ride[presses[p].of] = presses[p].to

CallbackSeesThePress ==
    \A p \in Pressed \ meddled :
       /\ SeenByCallback(p).rental = presses[p].of
       /\ SeenByCallback(p).to = presses[p].to

ReceiptInv ==
    /\ TypeOK
    /\ ReceiptIsOfARide
    /\ PressIsSent
    /\ CallbackSeesThePress
=============================================================================
