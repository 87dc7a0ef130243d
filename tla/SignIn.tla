------------------------------- MODULE SignIn -------------------------------
(***************************************************************************)
(* Signing in and out in one tab of the customer web app: the login page,  *)
(* the OTP page and the shell around every other page, whose banner shows  *)
(* the active rental of the signed-in customer.  A customer is identified  *)
(* by the phone number.  The callback of a mutation runs with what its     *)
(* page last rendered, also after the page was left; the query cache       *)
(* outlives sessions.  What the tokens of a session do is WebSession's.    *)
(***************************************************************************)
CONSTANTS Phone,   \* customers
          None

VARIABLES page,      \* "login", "otp" or "app"
          box,       \* phone typed on the login page
          to,        \* phone in the address of the OTP page
          request,   \* OTP request under way: the phone it was sent with, the
                     \* one its callback will use, is its page still there
          verifying, \* phone whose code is being verified
          session,   \* customer of the stored session
          banner,    \* query cache: key |-> whose rental was read
          ask,       \* banner query under way: its key and whose token it
                     \* carries, None before it is sent
          sent,      \* history: phones a code was sent to
          edited,    \* history: the address names a phone typed after "send"
          crossed    \* history: a banner query outlived its session

signInVars == <<page, box, to, request, verifying, session, banner, ask, sent,
                edited, crossed>>

NoRequest == [asked |-> None, shown |-> None, there |-> FALSE]
NoAsk == [key |-> None, token |-> None]

PhoneOrNone == Phone \cup {None}

OtpRequest == [asked : PhoneOrNone, shown : PhoneOrNone, there : BOOLEAN]
BannerQuery == [key : PhoneOrNone, token : PhoneOrNone]

TypeOK ==
    /\ page \in {"login", "otp", "app"}
    /\ box \in PhoneOrNone /\ to \in PhoneOrNone
    /\ verifying \in PhoneOrNone /\ session \in PhoneOrNone
    /\ request \in OtpRequest
    /\ banner \in [PhoneOrNone -> PhoneOrNone]
    /\ ask \in BannerQuery
    /\ sent \subseteq Phone
    /\ edited \in BOOLEAN /\ crossed \in BOOLEAN

Init ==
    /\ page = "login"
    /\ box = None /\ to = None /\ verifying = None /\ session = None
    /\ request = NoRequest
    /\ banner = [k \in PhoneOrNone |-> None]
    /\ ask = NoAsk
    /\ sent = {}
    /\ edited = FALSE /\ crossed = FALSE

\* The router shows another page: the login page starts empty, and the
\* callbacks of the page that goes keep what it rendered last.
Show(p) ==
    /\ page' = p
    /\ box' = None
    /\ request' = [request EXCEPT !.there = FALSE]

\* The button follows the latest rendering, so does the pending mutation.
Typed(p) ==
    IF request.there THEN [request EXCEPT !.shown = p] ELSE request

Type(p) ==
    /\ page = "login"
    /\ p # box
    /\ box' = p
    /\ request' = Typed(p)
    /\ UNCHANGED <<page, to, verifying, session, banner, ask, sent, edited,
                   crossed>>

\* At most one request is under way (a bound: a page that was left may have
\* one of its own).
RequestOtp ==
    /\ page = "login"
    /\ box # None
    /\ request = NoRequest
    /\ request' = [asked |-> box, shown |-> box, there |-> TRUE]
    /\ UNCHANGED <<page, box, to, verifying, session, banner, ask, sent, edited,
                   crossed>>

\* router.push("/otp?phone=...")
OtpRequested ==
    /\ request # NoRequest
    /\ sent' = sent \cup {request.asked}
    /\ to' = request.shown
    /\ edited' = (request.shown # request.asked)
    /\ page' = "otp"
    /\ box' = None
    /\ request' = NoRequest
    /\ UNCHANGED <<verifying, session, banner, ask, crossed>>

\* The server may have sent the code and the answer be lost.
OtpNotRequested ==
    /\ request # NoRequest
    /\ request' = NoRequest
    /\ sent' \in {sent, sent \cup {request.asked}}
    /\ UNCHANGED <<page, box, to, verifying, session, banner, ask, edited,
                   crossed>>

Resend ==
    /\ page = "otp"
    /\ sent' = sent \cup {to}
    /\ UNCHANGED <<page, box, to, request, verifying, session, banner, ask,
                   edited, crossed>>

\* One verification at a time (a bound, as for requests).
LoginWithOtp ==
    /\ page = "otp"
    /\ verifying = None
    /\ verifying' = to
    /\ UNCHANGED <<page, box, to, request, session, banner, ask, sent, edited,
                   crossed>>

Signed(s) ==
    /\ session' = s
    /\ crossed' = (crossed \/ ask # NoAsk)

\* setSession, then router.replace, wherever the customer is by now.
LoggedIn ==
    /\ verifying \in sent
    /\ Signed(verifying)
    /\ verifying' = None
    /\ Show("app")
    /\ UNCHANGED <<to, banner, ask, sent, edited>>

\* A wrong, used or expired code, or no answer.
NotLoggedIn ==
    /\ verifying # None
    /\ verifying' = None
    /\ UNCHANGED <<page, box, to, request, session, banner, ask, sent, edited,
                   crossed>>

\* Back from the OTP page or from the first page of the app.
Back ==
    /\ page # "login"
    /\ Show("login")
    /\ UNCHANGED <<to, verifying, session, banner, ask, sent, edited, crossed>>

\* Logout, or a refresh that fails, clears the session, not the query cache.
ClearSession ==
    /\ session # None
    /\ Signed(None)
    /\ UNCHANGED <<page, box, to, request, verifying, banner, ask, sent, edited>>

\* The shell sends whoever has no session to the login page.
Redirect ==
    /\ page = "app"
    /\ session = None
    /\ Show("login")
    /\ UNCHANGED <<to, verifying, session, banner, ask, sent, edited, crossed>>

\* Loading the app anew, its root or the OTP page: the stored session is left.
Load ==
    /\ page' \in {IF session = None THEN "login" ELSE "app"}
                  \cup ({"otp"} \cap {page})
    /\ box' = None
    /\ request' = NoRequest
    /\ verifying' = None
    /\ banner' = [k \in PhoneOrNone |-> None]
    /\ ask' = NoAsk
    /\ UNCHANGED <<to, session, sent, edited, crossed>>

WithoutUser == None

\* ["customer", "active-rental", session.user.id]
Key == session

\* The shell reads the active rental of its key, when its answer is stale.
\* One query at a time (a bound: an older key may have one of its own).
AskBanner ==
    /\ page = "app"
    /\ session # None
    /\ ask = NoAsk
    /\ ask' = [key |-> Key, token |-> session]
    /\ UNCHANGED <<page, box, to, request, verifying, session, banner, sent,
                   edited, crossed>>

BannerRead ==
    /\ ask # NoAsk
    /\ ask.token # None
    /\ banner' = [banner EXCEPT ![ask.key] = ask.token]
    /\ ask' = NoAsk
    /\ UNCHANGED <<page, box, to, request, verifying, session, sent, edited,
                   crossed>>

\* A failed query is asked once more, with the token of whoever is signed in
\* by then, or given up.
BannerFails ==
    /\ ask # NoAsk
    /\ ask' \in {NoAsk, [ask EXCEPT !.token = session]}
    /\ UNCHANGED <<page, box, to, request, verifying, session, banner, sent,
                   edited, crossed>>

\* Collected five minutes after nobody shows it.
CollectBanner ==
    /\ \E k \in PhoneOrNone :
          /\ banner[k] # None
          /\ banner' = [banner EXCEPT ![k] = None]
    /\ UNCHANGED <<page, box, to, request, verifying, session, ask, sent, edited,
                   crossed>>

Next ==
    \/ \E p \in Phone : Type(p)
    \/ RequestOtp \/ OtpRequested \/ OtpNotRequested \/ Resend
    \/ LoginWithOtp \/ LoggedIn \/ NotLoggedIn
    \/ Back \/ ClearSession \/ Redirect \/ Load
    \/ AskBanner \/ BannerRead \/ BannerFails \/ CollectBanner

Spec == Init /\ [][Next]_signInVars

\* Pages speak of the customer they name.  The OTP page asks for the code of a
\* phone that one was sent to, unless the phone was edited while it was being
\* sent.  The banner never shows the rental of another customer who used this
\* tab, unless a query of the banner was under way when the session changed.
\* (Every other query of the app is kept under a key without the customer.)
PagesNameTheirCustomer ==
    /\ page = "otp" /\ ~edited => to \in sent
    /\ page = "app" /\ session # None /\ ~crossed =>
          banner[Key] \in {session, None}

\* The inductive invariant behind it: the banner's query is of the customer
\* who is signed in, and so is every answer that was kept.
AnswersAreKeptByKey ==
    ~crossed =>
       /\ \A k \in PhoneOrNone : banner[k] \in {k, None}
       /\ ask # NoAsk => ask.key = session /\ ask.token = session

CodesAreSent ==
    /\ page = "otp" => to \in Phone /\ (~edited => to \in sent)
    /\ request # NoRequest => request.asked \in Phone /\ request.shown \in Phone

PagesInv ==
    /\ TypeOK
    /\ CodesAreSent
    /\ AnswersAreKeptByKey
=============================================================================
