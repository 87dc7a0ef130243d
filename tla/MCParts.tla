------------------------------ MODULE MCParts ------------------------------
(***************************************************************************)
(* The components around the core, side by side.  They share no state, so  *)
(* a behaviour runs one of them: part says which, the variables of the     *)
(* others keep one initial value.  The state spaces add up instead of      *)
(* multiplying, and one run checks them all.                               *)
(***************************************************************************)
EXTENDS Integers, FiniteSets

CONSTANTS None,
          Call, MaxPairs,
          Handler, MaxCodes, OTP_MAX_ATTEMPTS,
          Visitor, User, Phone, Google, Mail, NationalId,
          Consent, Callback,
          Invoice, MaxTokens,
          Cabinet, HeartbeatTimeout, MaxTime, MaxMessages,
          Slot,
          Code, Slotted, DemoQr, Press,
          Start,
          Rental, Tap,
          Station, MaxVersion,
          MaxRows, CreatedAt, Limit, MaxKept,
          MaxWrites, HasBroker,
          Customer,
          MaxQueued

VARIABLES
    part,
    session, refreshing, call, issued, revoked, fresh, loggedOut, overlap, cut,
    otp, otpTtl, cooling, sent, otpPc, entry, guesses, overtaken,
    user, identity, dan, visit, consents,
    pending, callback, minted, codes, handed, spent,
    tokens, lapsed, ended, accepted, pairs, ask,
    now, mqttDeviceId, lastHeartbeatAt, heartbeats, touching, inTransit, spoke,
    undated, assigned,
    slots, place, renter, counted, offer, changed, verdict,
    qrData, retyped, picture, resolving, previewing, starting, pressed, rental, shownPage,
    scanner, mounted, video, streamRef, live, activeRef, rafRef,
    detectInFlight, opening, loop, overlapped,
    ride, onPage, known, options, picked, attached, presses, receipt, meddled,
    rows, slotted, list, route, landing, form, saving, deleting, told,
    created, open, page, filter, answer, reading, kept, unseen,
    screen, box, to, request, verifying, signedIn, banner, bannerAsk, coded,
    edited, crossed,
    stations, completed, writes, gathered, since, snapshot, failed,
    stored, reported, queued, handler, spoilt

\* All Google accounts of the instance have one mail address.
OneMail == [g \in Google |-> "mail"]

\* The first and the last row of a list have the same time, the one between
\* them an earlier one.
RowTimes == <<2, 1, 2>>

WebSession == INSTANCE WebSession
Otp == INSTANCE Otp
Accounts == INSTANCE Accounts
OAuthCodes == INSTANCE OAuthCodes
BonumTokens == INSTANCE BonumTokens
Heartbeats == INSTANCE Heartbeats
Offers == INSTANCE Offers
ScanPage == INSTANCE ScanPage
QrScanner == INSTANCE QrScanner
ReturnPage == INSTANCE ReturnPage
StationEditor == INSTANCE StationEditor
AdminLists == INSTANCE AdminLists
SignIn == INSTANCE SignIn WITH
    Phone <- Customer, page <- screen, session <- signedIn, ask <- bannerAsk, sent <- coded
Overview == INSTANCE Overview WITH counted <- gathered, answer <- snapshot
SlotReports == INSTANCE SlotReports

Parts == {"session", "otp", "accounts", "oauth", "bonum", "heartbeats",
          "offers", "scan", "camera", "return", "editor", "lists", "signIn",
          "overview", "reports"}

\* None stands for null and no value of any other kind, no id is one of the
\* words it is stored beside, and bounds are numbers.
ASSUME PartsAssumption ==
    /\ None \notin {"api", "logout"} \cup SlotReports!SlotStatus
    /\ None \notin Offers!Kind \cup Offers!Answer
    /\ None \notin WebSession!Refresh
    /\ None \notin Int
    /\ None \notin Start \cup Station \cup User \cup Cabinet \cup NationalId \cup Tap
    /\ None \notin Accounts!UserRow \cup Otp!Entry
    /\ "google" \notin User
    /\ DemoQr \in Code
    /\ Station \cap {"none", "active", "list", "create"} = {}
    /\ MaxPairs \in Nat
    /\ OTP_MAX_ATTEMPTS \in Nat /\ MaxCodes \in Nat
    /\ MaxTokens \in Nat
    /\ MaxTime \in Nat /\ HeartbeatTimeout \in Nat
    /\ MaxVersion \in Nat \ {0}
    /\ MaxRows \in Nat /\ Limit \in Nat \ {0}
    /\ CreatedAt \in [1..MaxRows -> Nat]
    /\ MaxWrites \in Nat
    /\ IsFiniteSet(Slot) /\ IsFiniteSet(Station)

\* What a part that does not run holds where its Init leaves a choice.
AtRest ==
    /\ part # "heartbeats" => mqttDeviceId = None
    /\ part # "editor" => \A s \in Station : rows[s] = 0
    /\ part # "lists" => created = 0
    /\ part # "overview" => Overview!Created = {}
    /\ part # "reports" => stored = "empty" /\ reported = "empty"

OffersAtRest ==
    /\ slots = [s \in Slot |-> [status |-> "empty", bank |-> None]]
    /\ place = [active |-> TRUE, online |-> "yes"]
    /\ renter = [renting |-> FALSE, funded |-> TRUE]

Init ==
    /\ part \in Parts
    /\ Heartbeats!Init /\ StationEditor!Init /\ AdminLists!Init
    /\ Overview!Init
    /\ SlotReports!Init /\ AtRest
    /\ part # "offers" => OffersAtRest
    /\ Offers!Init
    /\ WebSession!Init /\ Otp!Init /\ Accounts!Init /\ OAuthCodes!Init
    /\ BonumTokens!Init /\ ScanPage!Init /\ QrScanner!Init
    /\ ReturnPage!Init /\ SignIn!Init

sv == <<session, refreshing, call, issued, revoked, fresh, loggedOut, overlap,
        cut>>
ov == <<otp, otpTtl, cooling, sent, otpPc, entry, guesses, overtaken>>
av == <<user, identity, dan, visit, consents>>
cv == <<pending, callback, minted, codes, handed, spent>>
bv == <<tokens, lapsed, ended, accepted, pairs, ask>>
hv == <<now, mqttDeviceId, lastHeartbeatAt, heartbeats, touching, inTransit,
        spoke, undated, assigned>>
fv == <<slots, place, renter, counted, offer, changed, verdict>>
pv == <<qrData, retyped, picture, resolving, previewing, starting, pressed,
        rental, shownPage>>
qv == <<scanner, mounted, video, streamRef, live, activeRef, rafRef,
        detectInFlight, opening, loop, overlapped>>
rv == <<ride, onPage, known, options, picked, attached, presses, receipt,
        meddled>>
ev == <<rows, slotted, list, route, landing, form, saving, deleting, told>>
lv == <<created, open, page, filter, answer, reading, kept, unseen>>
gv == <<screen, box, to, request, verifying, signedIn, banner, bannerAsk, coded,
        edited, crossed>>
wv == <<stations, completed, writes, gathered, since, snapshot, failed>>
xv == <<stored, reported, queued, handler, spoilt>>

vars == <<part, sv, ov, av, cv, bv, hv, fv, pv, qv, rv, ev, lv, gv, wv, xv>>

Next ==
    /\ UNCHANGED part
    /\ \/ /\ part = "session"
          /\ UNCHANGED <<ov, av, cv, bv, hv, fv, pv, qv, rv, ev, lv, gv, wv, xv>>
          /\ WebSession!Next
       \/ /\ part = "otp"
          /\ UNCHANGED <<sv, av, cv, bv, hv, fv, pv, qv, rv, ev, lv, gv, wv, xv>>
          /\ Otp!Next
       \/ /\ part = "accounts"
          /\ UNCHANGED <<sv, ov, cv, bv, hv, fv, pv, qv, rv, ev, lv, gv, wv, xv>>
          /\ Accounts!Next
       \/ /\ part = "oauth"
          /\ UNCHANGED <<sv, ov, av, bv, hv, fv, pv, qv, rv, ev, lv, gv, wv, xv>>
          /\ OAuthCodes!Next
       \/ /\ part = "bonum"
          /\ UNCHANGED <<sv, ov, av, cv, hv, fv, pv, qv, rv, ev, lv, gv, wv, xv>>
          /\ BonumTokens!Next
       \/ /\ part = "heartbeats"
          /\ UNCHANGED <<sv, ov, av, cv, bv, fv, pv, qv, rv, ev, lv, gv, wv, xv>>
          /\ Heartbeats!Next
       \/ /\ part = "offers"
          /\ UNCHANGED <<sv, ov, av, cv, bv, hv, pv, qv, rv, ev, lv, gv, wv, xv>>
          /\ Offers!Next
       \/ /\ part = "scan"
          /\ UNCHANGED <<sv, ov, av, cv, bv, hv, fv, qv, rv, ev, lv, gv, wv, xv>>
          /\ ScanPage!Next
       \/ /\ part = "camera"
          /\ UNCHANGED <<sv, ov, av, cv, bv, hv, fv, pv, rv, ev, lv, gv, wv, xv>>
          /\ QrScanner!Next
       \/ /\ part = "return"
          /\ UNCHANGED <<sv, ov, av, cv, bv, hv, fv, pv, qv, ev, lv, gv, wv, xv>>
          /\ ReturnPage!Next
       \/ /\ part = "editor"
          /\ UNCHANGED <<sv, ov, av, cv, bv, hv, fv, pv, qv, rv, lv, gv, wv, xv>>
          /\ StationEditor!Next
       \/ /\ part = "lists"
          /\ UNCHANGED <<sv, ov, av, cv, bv, hv, fv, pv, qv, rv, ev, gv, wv, xv>>
          /\ AdminLists!Next
       \/ /\ part = "signIn"
          /\ UNCHANGED <<sv, ov, av, cv, bv, hv, fv, pv, qv, rv, ev, lv, wv, xv>>
          /\ SignIn!Next
       \/ /\ part = "overview"
          /\ UNCHANGED <<sv, ov, av, cv, bv, hv, fv, pv, qv, rv, ev, lv, gv, xv>>
          /\ Overview!Next
       \/ /\ part = "reports"
          /\ UNCHANGED <<sv, ov, av, cv, bv, hv, fv, pv, qv, rv, ev, lv, gv, wv>>
          /\ SlotReports!Next

Spec == Init /\ [][Next]_vars

(***************************************************************************)
(* Properties, each one of its component                                   *)
(***************************************************************************)

\* The columns, keys, tokens and screens of every component keep their types.
TypeOK ==
    /\ part \in Parts
    /\ part = "session" => WebSession!TypeOK
    /\ part = "otp" => Otp!TypeOK
    /\ part = "accounts" => Accounts!TypeOK
    /\ part = "oauth" => OAuthCodes!TypeOK
    /\ part = "bonum" => BonumTokens!TypeOK
    /\ part = "heartbeats" => Heartbeats!TypeOK
    /\ part = "offers" => Offers!TypeOK
    /\ part = "scan" => ScanPage!TypeOK
    /\ part = "camera" => QrScanner!TypeOK
    /\ part = "return" => ReturnPage!TypeOK
    /\ part = "editor" => StationEditor!TypeOK
    /\ part = "lists" => AdminLists!TypeOK
    /\ part = "signIn" => SignIn!TypeOK
    /\ part = "overview" => Overview!TypeOK
    /\ part = "reports" => SlotReports!TypeOK

\* A page never refreshes with, nor keeps, a session it has itself rotated.
SessionIsLive == WebSession!SessionIsLive

\* After logout there is no session until the next sign-in, unless a refresh
\* outlived the logout.
LogoutIsFinal == WebSession!LogoutIsFinal

\* Only wrong codes that overtake one another go beyond the limit.
GuessBudget == Otp!GuessBudget

\* Tier 2 means a verification on record, and a national id has one user.
VerifiedHasIdentity == Accounts!VerifiedHasIdentity

\* An identity never changes hands, and every user keeps one.
IdentitiesAreStable == Accounts!IdentitiesAreStable

\* One Google consent yields at most one pair of tokens, for one app.
OneSessionPerConsent == OAuthCodes!OneSessionPerConsent

\* An invoice refused with 401 is retried with a token issued after that.
RetriesWithNewToken == BonumTokens!RetriesWithNewToken

\* A station is online only while a device of its own has spoken.  Nothing is
\* said of one that speaks and counts as offline.
NoFalseOnline == Heartbeats!NoFalseOnline

\* What the customer is offered is accepted unless a row has changed.
OffersAreHonoured == Offers!OffersAreHonoured

\* Price, slot and start on the scan page belong to the code resolved last,
\* which the text field shows until it is edited.
PreviewIsForTheCodeShown == ScanPage!PreviewIsForTheCodeShown

\* A receipt names the stations of its rental.
ReceiptNamesTheReturn == ReturnPage!ReceiptNamesTheReturn

\* The camera is off whenever the scanner does not hold it.
CameraIsReleased == QrScanner!CameraIsReleased

\* The admin form saves to the station it was filled from; only a form on its
\* way back to the list may create a station from what stands in it.
SavesTheStationShown == StationEditor!SavesTheStationShown

\* A station reported as created has its slots.
CreatedIsWhole == StationEditor!CreatedIsWhole

\* Reading a list from its first page to its last misses no row that has a
\* time of its own.
BrowsingMissesNothing == AdminLists!BrowsingMissesNothing

\* The OTP page and the banner speak of the customer they name.
PagesNameTheirCustomer == SignIn!PagesNameTheirCustomer

\* The dashboard's figures contradict each other by no more than what was
\* written while they were counted.
FiguresDriftByWrites == Overview!FiguresDriftByWrites

\* Once handled, the messages of a cabinet leave the slot as told last.
SettledSlotIsReported == SlotReports!SettledSlotIsReported
=============================================================================
