----------------------------- MODULE PartsProofs -----------------------------
(***************************************************************************)
(* The components around the core, for any number of requests, rows,       *)
(* users and messages.  For each: its initial states and its steps keep    *)
(* its inductive invariant, a step of the project is a step of it or       *)
(* leaves it alone, and so what the invariant implies always holds.        *)
(***************************************************************************)
EXTENDS MCParts, Sequences, FiniteSetTheorems, TLAPS

(***************************************************************************)
(* OAuthCodes                                                              *)
(***************************************************************************)
LEMMA OAuthInit == OAuthCodes!Init => OAuthCodes!OneSessionInv
BY DEF OAuthCodes!Init, OAuthCodes!OneSessionInv, OAuthCodes!TypeOK,
       OAuthCodes!OnTheWay

LEMMA OAuthStep ==
    OAuthCodes!OneSessionInv /\ [OAuthCodes!Next]_cv => OAuthCodes!OneSessionInv'
<1> SUFFICES ASSUME OAuthCodes!OneSessionInv, [OAuthCodes!Next]_cv
             PROVE  OAuthCodes!OneSessionInv'
  OBVIOUS
<1> USE DEF OAuthCodes!OneSessionInv, OAuthCodes!TypeOK, OAuthCodes!OnTheWay
<1>1. CASE UNCHANGED cv
  BY <1>1 DEF cv
<1>2. CASE OAuthCodes!KeyExpires
  BY <1>2 DEF OAuthCodes!KeyExpires
<1>3. ASSUME NEW s \in Consent, OAuthCodes!InitiateGoogleAuth(s)
      PROVE  OAuthCodes!OneSessionInv'
  BY <1>3 DEF OAuthCodes!InitiateGoogleAuth
<1>4. ASSUME NEW s \in Consent, OAuthCodes!ExchangeOnetimeCode(s)
      PROVE  OAuthCodes!OneSessionInv'
  BY <1>4 DEF OAuthCodes!ExchangeOnetimeCode, OAuthCodes!AfterTake
<1>5. ASSUME NEW c \in Callback, OAuthCodes!IssueTokens(c)
      PROVE  OAuthCodes!OneSessionInv'
  BY <1>5 DEF OAuthCodes!IssueTokens
<1>6. ASSUME NEW c \in Callback, OAuthCodes!IssueOnetimeCode(c)
      PROVE  OAuthCodes!OneSessionInv'
  BY <1>6 DEF OAuthCodes!IssueOnetimeCode
<1>7. ASSUME NEW c \in Callback, OAuthCodes!CallbackFails(c)
      PROVE  OAuthCodes!OneSessionInv'
  BY <1>7 DEF OAuthCodes!CallbackFails
<1>8. ASSUME NEW c \in Callback, NEW s \in Consent, OAuthCodes!TakeState(c, s)
      PROVE  OAuthCodes!OneSessionInv'
  BY <1>8 DEF OAuthCodes!TakeState, OAuthCodes!AfterTake
<1> QED
  BY <1>1, <1>2, <1>3, <1>4, <1>5, <1>6, <1>7, <1>8 DEF OAuthCodes!Next

LEMMA OAuthIsInv == Spec => []OAuthCodes!OneSessionInv
<1>1. Init => OAuthCodes!Init
  BY DEF Init
<1>2. [Next]_vars => [OAuthCodes!Next]_cv
  BY DEF Next, vars, cv
<1> QED
  BY <1>1, <1>2, OAuthInit, OAuthStep, PTL DEF Spec

\* One Google consent yields at most one pair of tokens and hands it to at
\* most one app, whatever callbacks, exchanges and expiries overlap
\* (AuthService.completeGoogleAuth and exchangeOnetimeCode over GETDEL).
THEOREM ConsentSignsInOnce == Spec => []OneSessionPerConsent
<1>1. OAuthCodes!OneSessionInv => OneSessionPerConsent
  BY DEF OAuthCodes!OneSessionInv, OneSessionPerConsent,
         OAuthCodes!OneSessionPerConsent
<1> QED
  BY <1>1, OAuthIsInv, PTL

(***************************************************************************)
(* BonumTokens                                                             *)
(***************************************************************************)
LEMMA BonumInit == BonumTokens!Init => BonumTokens!RetriesInv
BY PartsAssumption
   DEF BonumTokens!Init, BonumTokens!RetriesInv, BonumTokens!TypeOK,
       BonumTokens!NoAsk, BonumTokens!Forced, BonumTokens!RetriesWithNewToken

LEMMA BonumStep ==
    BonumTokens!RetriesInv /\ [BonumTokens!Next]_bv => BonumTokens!RetriesInv'
<1> SUFFICES ASSUME BonumTokens!RetriesInv, [BonumTokens!Next]_bv
             PROVE  BonumTokens!RetriesInv'
  OBVIOUS
<1>0. None \notin Int /\ MaxTokens \in Nat
  BY PartsAssumption DEF PartsAssumption
<1> USE <1>0
    DEF BonumTokens!RetriesInv, BonumTokens!TypeOK, BonumTokens!Forced,
        BonumTokens!RetriesWithNewToken, BonumTokens!NoAsk, BonumTokens!Token,
        BonumTokens!Step
<1>1. CASE UNCHANGED bv
  BY <1>1 DEF bv
<1>2. CASE BonumTokens!TimePasses
  BY <1>2 DEF BonumTokens!TimePasses
<1>3. CASE BonumTokens!Restart
  BY <1>3 DEF BonumTokens!Restart
<1>4. ASSUME NEW i \in Invoice, BonumTokens!CreateInvoice(i)
      PROVE  BonumTokens!RetriesInv'
  BY <1>4 DEF BonumTokens!CreateInvoice
<1>5. ASSUME NEW i \in Invoice, BonumTokens!GetAccessToken(i)
      PROVE  BonumTokens!RetriesInv'
  BY <1>5 DEF BonumTokens!GetAccessToken, BonumTokens!CachedWillDo
<1>6. ASSUME NEW i \in Invoice, BonumTokens!BonumIssues(i)
      PROVE  BonumTokens!RetriesInv'
  BY <1>6 DEF BonumTokens!BonumIssues
<1>7. ASSUME NEW i \in Invoice, BonumTokens!TokensArrive(i)
      PROVE  BonumTokens!RetriesInv'
  <2>1. /\ tokens' = ask[i].got /\ ask[i].got \in 1..pairs
        /\ UNCHANGED <<lapsed, ended, accepted, pairs>>
        /\ ask' = [ask EXCEPT ![i] = [ask[i] EXCEPT !.at = "send",
                                        !.bearer = ask[i].got, !.got = None]]
    BY <1>7 DEF BonumTokens!TokensArrive
  <2>2. BonumTokens!TypeOK'
    BY <2>1
  <2> QED
    BY <2>1, <2>2
<1>8. ASSUME NEW i \in Invoice, BonumTokens!TokensFail(i)
      PROVE  BonumTokens!RetriesInv'
  BY <1>8 DEF BonumTokens!TokensFail
<1>9. ASSUME NEW i \in Invoice, BonumTokens!Answered(i)
      PROVE  BonumTokens!RetriesInv'
  BY <1>9 DEF BonumTokens!Answered
<1>10. ASSUME NEW i \in Invoice, BonumTokens!Refused(i)
       PROVE  BonumTokens!RetriesInv'
  <2>1. CASE BonumTokens!Forced(i)
    BY <1>10, <2>1 DEF BonumTokens!Refused
  <2>2. CASE ~BonumTokens!Forced(i)
    <3>1. PICK r : /\ r = [BonumTokens!NoAsk EXCEPT !.at = "token", !.since = pairs]
                   /\ ask' = [ask EXCEPT ![i] = r]
      BY <1>10, <2>2 DEF BonumTokens!Refused
    <3>2. r = [at |-> "token", bearer |-> None, got |-> None, since |-> pairs]
      BY <3>1
    <3> QED
      BY <1>10, <3>1, <3>2 DEF BonumTokens!Refused
  <2> QED
    BY <2>1, <2>2
<1> QED
  BY <1>1, <1>2, <1>3, <1>4, <1>5, <1>6, <1>7, <1>8, <1>9, <1>10
    DEF BonumTokens!Next

LEMMA BonumIsInv == Spec => []BonumTokens!RetriesInv
<1>1. Init => BonumTokens!Init
  BY DEF Init
<1>2. [Next]_vars => [BonumTokens!Next]_bv
  BY DEF Next, vars, bv
<1> QED
  BY <1>1, <1>2, BonumInit, BonumStep, PTL DEF Spec

\* An invoice that Bonum refused with 401 is asked for again with a token
\* issued after that answer, however many calls share the cached pair
\* (BonumProvider.createInvoice and getAccessToken).
THEOREM RetriesAreFresh == Spec => []RetriesWithNewToken
<1>1. BonumTokens!RetriesInv => RetriesWithNewToken
  BY DEF BonumTokens!RetriesInv, RetriesWithNewToken
<1> QED
  BY <1>1, BonumIsInv, PTL

(***************************************************************************)
(* ScanPage                                                                *)
(***************************************************************************)
LEMMA ScanInit == ScanPage!Init => ScanPage!PreviewInv
<1> SUFFICES ASSUME ScanPage!Init PROVE ScanPage!PreviewInv
  OBVIOUS
<1>1. ScanPage!TypeOK
  BY PartsAssumption
    DEF PartsAssumption, ScanPage!Init, ScanPage!TypeOK, ScanPage!Fresh,
        ScanPage!Mutation
<1>2. ScanPage!PreviewIsForTheCodeShown
  BY DEF ScanPage!Init, ScanPage!Fresh, ScanPage!PreviewIsForTheCodeShown
<1> QED
  BY <1>1, <1>2 DEF ScanPage!PreviewInv

LEMMA ScanStep ==
    ScanPage!PreviewInv /\ [ScanPage!Next]_pv => ScanPage!PreviewInv'
<1> SUFFICES ASSUME ScanPage!PreviewInv, [ScanPage!Next]_pv
             PROVE  ScanPage!PreviewInv'
  OBVIOUS
<1> USE DEF ScanPage!PreviewInv, ScanPage!TypeOK, ScanPage!Fresh,
            ScanPage!Mutation, ScanPage!PreviewIsForTheCodeShown,
            ScanPage!ResetPreview, ScanPage!ResetStart, ScanPage!Unmounted,
            ScanPage!HandleResolve, ScanPage!ShowText, ScanPage!text
<1>0. DemoQr \in Code
  BY PartsAssumption DEF PartsAssumption
<1>1. CASE UNCHANGED pv
  BY <1>1 DEF pv
<1>2. CASE ScanPage!Resolved
  <2>1. /\ resolving' \in ScanPage!Mutation
        /\ resolving'.code = resolving.code /\ resolving.at = "pending"
        /\ UNCHANGED <<qrData, retyped, picture, previewing, starting, pressed,
                       rental, shownPage>>
    BY <1>2 DEF ScanPage!Resolved
  <2> QED
    BY <2>1
<1>3. CASE ScanPage!Preview
  <2>1. /\ resolving.at = "success"
        /\ previewing' = [at |-> "pending", code |-> resolving.code, can |-> FALSE]
        /\ UNCHANGED <<qrData, retyped, picture, resolving, starting, pressed,
                       rental, shownPage>>
    BY <1>3 DEF ScanPage!Preview
  <2>2. ScanPage!TypeOK'
    BY <2>1
  <2>3. ScanPage!PreviewIsForTheCodeShown'
    BY <2>1
  <2> QED
    BY <2>2, <2>3
<1>4. CASE ScanPage!Previewed
  <2>1. /\ previewing.at = "pending"
        /\ UNCHANGED <<qrData, retyped, picture, resolving, starting, pressed,
                       rental, shownPage>>
    BY <1>4 DEF ScanPage!Previewed
  <2>2. previewing' \in ScanPage!Mutation /\ previewing'.code = previewing.code
    BY <1>4 DEF ScanPage!Previewed
  <2>3. ScanPage!TypeOK'
    BY <2>1, <2>2
  <2>4. ScanPage!PreviewIsForTheCodeShown'
    BY <2>1, <2>2
  <2> QED
    BY <2>3, <2>4
<1>5. CASE ScanPage!Leave
  BY <1>0, <1>5 DEF ScanPage!Leave
<1>6. CASE ScanPage!ChoosePicture \/ ScanPage!PictureUnread
  BY <1>6 DEF ScanPage!ChoosePicture, ScanPage!PictureUnread
<1>7. ASSUME NEW c \in Code,
             \/ ScanPage!OnDetected(c) \/ ScanPage!PictureRead(c)
             \/ ScanPage!ResolveTyped /\ c = qrData
      PROVE  ScanPage!PreviewInv'
  <2>1. /\ qrData' = c /\ retyped' = FALSE
        /\ resolving' = [at |-> "pending", code |-> c, can |-> FALSE]
        /\ previewing' = [at |-> "idle", code |-> None, can |-> FALSE]
        /\ starting' = [at |-> "idle", press |-> None]
        /\ picture' \in BOOLEAN
        /\ UNCHANGED <<pressed, rental, shownPage>>
    BY <1>7 DEF ScanPage!OnDetected, ScanPage!ResolveTyped,
                ScanPage!PictureRead
  <2> QED
    BY <2>1
<1>11. ASSUME NEW c \in Code \cup {None}, ScanPage!Type(c)
       PROVE  ScanPage!PreviewInv'
  BY <1>11 DEF ScanPage!Type
<1>12. CASE ScanPage!ResolveTyped
  <2>1. qrData \in Code
    BY <1>12 DEF ScanPage!ResolveTyped
  <2> QED
    BY <1>7, <1>12, <2>1
<1>8. ASSUME NEW c \in Code, NEW p \in Press, ScanPage!PressStart(p, c)
      PROVE  ScanPage!PreviewInv'
  BY <1>8 DEF ScanPage!PressStart, ScanPage!Startable
<1>9. ASSUME NEW p \in Press, ScanPage!ServerAnswers(p)
      PROVE  ScanPage!PreviewInv'
  BY <1>9 DEF ScanPage!ServerAnswers
<1>10. ASSUME NEW p \in Press, ScanPage!StartAnswered(p)
       PROVE  ScanPage!PreviewInv'
  <2>1. /\ pressed' = [pressed EXCEPT ![p].at = "done"]
        /\ UNCHANGED rental
    BY <1>10 DEF ScanPage!StartAnswered
  <2>2. CASE shownPage' = "active" /\ ScanPage!Unmounted
    BY <1>0, <2>1, <2>2
  <2>3. CASE /\ starting' = IF starting.press = p
                           THEN [starting EXCEPT !.at = "error"] ELSE starting
             /\ UNCHANGED <<qrData, retyped, picture, shownPage, resolving,
                            previewing>>
    <3>1. /\ starting' \in [at : {"idle", "pending", "error"},
                            press : Press \cup {None}]
          /\ starting'.press = starting.press
      BY <2>3
    <3> QED
      BY <2>1, <2>3, <3>1
  <2> QED
    BY <1>10, <2>2, <2>3 DEF ScanPage!StartAnswered
<1> QED
  BY <1>1, <1>2, <1>3, <1>4, <1>5, <1>6, <1>7, <1>8, <1>9, <1>10, <1>11, <1>12
    DEF ScanPage!Next

LEMMA ScanIsInv == Spec => []ScanPage!PreviewInv
<1>1. Init => ScanPage!Init
  BY DEF Init
<1>2. [Next]_vars => [ScanPage!Next]_pv
  BY DEF Next, vars, pv
<1> QED
  BY <1>1, <1>2, ScanInit, ScanStep, PTL DEF Spec

\* What the scan page previews and starts belongs to the code resolved last,
\* however late answers for earlier codes are (resetNextSteps in the page), and
\* the text field holds that code until the customer edits it.
THEOREM PreviewsMatch == Spec => []PreviewIsForTheCodeShown
<1>1. ScanPage!PreviewInv => PreviewIsForTheCodeShown
  BY DEF ScanPage!PreviewInv, PreviewIsForTheCodeShown
<1> QED
  BY <1>1, ScanIsInv, PTL

(***************************************************************************)
(* WebSession                                                              *)
(***************************************************************************)
LEMMA PairFacts ==
    /\ MaxPairs \in Nat
    /\ None \notin Int
    /\ None # "api" /\ None # "logout"
BY PartsAssumption

\* A record of a refresh is not None.
LEMMA RefreshIsThere ==
    ASSUME WebSession!TypeOK, refreshing # None
    PROVE  refreshing \in WebSession!Refresh
BY DEF WebSession!TypeOK

LEMMA SessionInit == WebSession!Init => WebSession!SessionInv
<1> SUFFICES ASSUME WebSession!Init PROVE WebSession!SessionInv
  OBVIOUS
<1> USE DEF WebSession!Init
<1>1. WebSession!NoCall \in WebSession!CallState
  BY DEF WebSession!NoCall, WebSession!CallState
<1>2. WebSession!TypeOK
  <2>1. call \in [Call -> WebSession!CallState]
    BY <1>1
  <2>2. session \in WebSession!Pair \cup {None}
        /\ refreshing \in WebSession!Refresh \cup {None}
    OBVIOUS
  <2>3. issued \in 0..MaxPairs
    BY PairFacts
  <2>4. revoked \cup fresh \subseteq 1..issued
    OBVIOUS
  <2>5. loggedOut \in BOOLEAN /\ overlap \in BOOLEAN /\ cut \in BOOLEAN
    OBVIOUS
  <2> QED
    BY <2>1, <2>2, <2>3, <2>4, <2>5 DEF WebSession!TypeOK
<1>3. WebSession!SessionIsLive
  BY DEF WebSession!SessionIsLive
<1>4. WebSession!OnlyIssued
  BY PairFacts DEF WebSession!OnlyIssued, WebSession!NoCall
<1> QED
  BY <1>2, <1>3, <1>4
    DEF WebSession!SessionInv, WebSession!RefreshesItsOwn,
        WebSession!LogoutEndsIt

\* A refresh under way moves on: only where it stands, and at last its pair.
LEMMA RefreshMoves ==
    ASSUME NEW r \in WebSession!Refresh, NEW q,
           NEW x \in {"find", "revoke", "issue", "answer", "refused"},
           q = [r EXCEPT !.at = x]
    PROVE  /\ q \in WebSession!Refresh
           /\ q.at = x /\ q.token = r.token /\ q.pair = r.pair
BY DEF WebSession!Refresh

LEMMA RefreshIssues ==
    ASSUME NEW r \in WebSession!Refresh, NEW q, NEW p \in WebSession!Pair,
           q = [r EXCEPT !.at = "answer", !.pair = p]
    PROVE  /\ q \in WebSession!Refresh
           /\ q.at = "answer" /\ q.token = r.token /\ q.pair = p
BY DEF WebSession!Refresh

\* A request is given a new state.
LEMMA CallMoves ==
    ASSUME WebSession!TypeOK, NEW c \in Call, NEW q \in WebSession!CallState,
           call' = [call EXCEPT ![c] = q]
    PROVE  /\ call' \in [Call -> WebSession!CallState]
           /\ call'[c] = q
           /\ \A d \in Call \ {c} : call'[d] = call[d]
BY DEF WebSession!TypeOK

LEMMA NoCallState ==
    /\ WebSession!NoCall \in WebSession!CallState
    /\ WebSession!NoCall.kind = None
    /\ WebSession!NoCall.body = None
BY DEF WebSession!NoCall, WebSession!CallState

\* The requests that waited for a refresh are sent again.
LEMMA SentAgain ==
    ASSUME NEW r \in WebSession!CallState, NEW p \in WebSession!Pair, NEW q,
           q = [r EXCEPT !.at = "sent", !.bearer = p, !.retry = FALSE]
    PROVE  q \in WebSession!CallState /\ q.kind = r.kind /\ q.body = r.body
BY DEF WebSession!CallState

\* A request is over, as End says.
LEMMA SessionEnds ==
    ASSUME WebSession!SessionInv, NEW c \in Call, NEW ok \in BOOLEAN,
           WebSession!End(c, ok, session, refreshing),
           UNCHANGED <<refreshing, issued, fresh, cut>>,
           revoked' = IF ok /\ call[c].kind = "logout"
                      THEN revoked \cup {call[c].body} ELSE revoked
    PROVE  WebSession!SessionInv'
<1> USE DEF WebSession!SessionInv
<1>1. /\ call' \in [Call -> WebSession!CallState]
      /\ call'[c].kind = None
      /\ \A d \in Call \ {c} : call'[d] = call[d]
  BY CallMoves, NoCallState DEF WebSession!End
<1>2. /\ session' = IF call[c].kind = "logout" THEN None ELSE session
      /\ loggedOut' = (loggedOut \/ call[c].kind = "logout")
      /\ overlap' = (overlap \/ (call[c].kind = "logout" /\ refreshing # None))
  BY DEF WebSession!End, WebSession!AfterLogout
<1>3. WebSession!OnlyIssued'
  BY <1>1, <1>2, PairFacts DEF WebSession!OnlyIssued
<1>4. WebSession!TypeOK'
  BY <1>1, <1>2 DEF WebSession!TypeOK, WebSession!OnlyIssued
<1>5. WebSession!LoggingOut' => WebSession!LoggingOut
  BY <1>1, PairFacts DEF WebSession!LoggingOut
<1>6. call[c].kind = "logout" => WebSession!LoggingOut
  BY DEF WebSession!LoggingOut
<1>7. ~WebSession!LoggingOut' /\ call[c].kind # "logout"
        => ~WebSession!LoggingOut
  BY <1>1 DEF WebSession!LoggingOut
<1>8. WebSession!SessionIsLive'
  BY <1>2, <1>6, <1>7 DEF WebSession!SessionIsLive
<1>9. WebSession!RefreshesItsOwn' /\ WebSession!LogoutEndsIt'
  BY <1>2, <1>6, <1>7 DEF WebSession!RefreshesItsOwn, WebSession!LogoutEndsIt
<1> QED
  BY <1>3, <1>4, <1>8, <1>9

\* A step of the refresh, which leaves the page and its requests alone.
LEMMA RefreshIsServed ==
    ASSUME WebSession!SessionInv, refreshing # None,
           refreshing' \in WebSession!Refresh,
           refreshing'.token = refreshing.token,
           refreshing'.pair \in 1..issued',
           issued' \in {issued, issued + 1}, issued' <= MaxPairs,
           fresh' \subseteq 1..issued',
           revoked' \subseteq revoked \cup {refreshing.token},
           refreshing'.at = "find" => refreshing.at = "find" /\ revoked' = revoked,
           refreshing'.at = "answer" => refreshing'.pair \notin revoked',
           UNCHANGED <<session, call, loggedOut, overlap, cut>>
    PROVE  WebSession!SessionInv'
<1> USE DEF WebSession!SessionInv
<1>1. issued \in Nat /\ refreshing' # None
  BY PartsAssumption DEF WebSession!TypeOK
<1>2. 1..issued \subseteq 1..issued' /\ issued' \in 0..MaxPairs
  BY <1>1, PairFacts
<1>3. refreshing.token \in 1..issued /\ refreshing'.token \in 1..issued'
  BY <1>2 DEF WebSession!OnlyIssued
<1>4. session' \in 1..issued' \cup {None}
  BY <1>2 DEF WebSession!OnlyIssued
<1>5. \A c \in Call : call'[c].kind = "logout" => call'[c].body \in 1..issued'
  BY <1>2 DEF WebSession!OnlyIssued
<1>6. WebSession!OnlyIssued'
  BY <1>3, <1>4, <1>5 DEF WebSession!OnlyIssued
<1>7. revoked' \subseteq 1..issued'
  BY <1>2, <1>3 DEF WebSession!TypeOK
<1>8. WebSession!TypeOK'
  BY <1>2, <1>7 DEF WebSession!TypeOK
<1>9. WebSession!LoggingOut' = WebSession!LoggingOut
  BY DEF WebSession!LoggingOut
<1>10. WebSession!SessionIsLive'
  BY <1>1, <1>9 DEF WebSession!SessionIsLive
<1>11. WebSession!RefreshesItsOwn'
  BY <1>1, <1>9 DEF WebSession!RefreshesItsOwn
<1>12. WebSession!LogoutEndsIt'
  BY <1>1 DEF WebSession!LogoutEndsIt
<1> QED
  BY <1>6, <1>8, <1>10, <1>11, <1>12

LEMMA SessionRefreshStep ==
    ASSUME WebSession!SessionInv, refreshing # None,
           \/ WebSession!FindRefreshToken \/ WebSession!RevokeRefreshToken
           \/ WebSession!IssueRefreshed \/ WebSession!RefreshFails
    PROVE  WebSession!SessionInv'
<1>1. /\ refreshing \in WebSession!Refresh /\ issued \in Nat
      /\ revoked \subseteq 1..issued /\ fresh \subseteq 1..issued
      /\ issued <= MaxPairs /\ refreshing.pair \in WebSession!Pair
      /\ refreshing.pair \in 1..issued
  BY PairFacts
    DEF WebSession!SessionInv, WebSession!TypeOK, WebSession!OnlyIssued,
        WebSession!Refresh
<1>2. CASE WebSession!FindRefreshToken
  <2>1. PICK x \in {"find", "revoke", "issue", "answer", "refused"} :
          /\ x # "find" /\ x # "answer"
          /\ refreshing' = [refreshing EXCEPT !.at = x]
    BY <1>2 DEF WebSession!FindRefreshToken
  <2>2. /\ refreshing' \in WebSession!Refresh /\ refreshing'.at = x
        /\ refreshing'.token = refreshing.token
        /\ refreshing'.pair = refreshing.pair
    BY <1>1, <2>1, RefreshMoves, Zenon
  <2>3. /\ refreshing.at = "find"
        /\ UNCHANGED <<session, call, issued, revoked, fresh, loggedOut,
                       overlap, cut>>
    BY <1>2 DEF WebSession!FindRefreshToken
  <2>4. x # "find" /\ x # "answer"
    BY <2>1, Zenon
  <2> QED
    BY <1>1, <2>2, <2>3, <2>4, RefreshIsServed
<1>3. CASE WebSession!RevokeRefreshToken
  <2>1. refreshing' = [refreshing EXCEPT !.at = "issue"]
    BY <1>3 DEF WebSession!RevokeRefreshToken
  <2>2. /\ refreshing' \in WebSession!Refresh /\ refreshing'.at = "issue"
        /\ refreshing'.token = refreshing.token
        /\ refreshing'.pair = refreshing.pair
    BY <1>1, <2>1, RefreshMoves, Zenon
  <2>3. /\ revoked' = revoked \cup {refreshing.token}
        /\ UNCHANGED <<session, call, issued, fresh, loggedOut, overlap, cut>>
    BY <1>3 DEF WebSession!RevokeRefreshToken
  <2> QED
    BY <1>1, <2>2, <2>3, RefreshIsServed
<1>4. CASE WebSession!IssueRefreshed
  <2>1. /\ issued < MaxPairs /\ issued' = issued + 1
        /\ fresh' = fresh \cup {issued + 1} /\ revoked' = revoked
        /\ UNCHANGED <<session, call, loggedOut, overlap, cut>>
    BY <1>4 DEF WebSession!IssueRefreshed, WebSession!IssueTokens
  <2>2. issued + 1 \in WebSession!Pair
    BY <1>1, <2>1, PairFacts DEF WebSession!Pair
  <2>3. refreshing' = [refreshing EXCEPT !.at = "answer", !.pair = issued + 1]
    BY <1>4 DEF WebSession!IssueRefreshed
  <2>4. /\ refreshing' \in WebSession!Refresh /\ refreshing'.at = "answer"
        /\ refreshing'.token = refreshing.token
        /\ refreshing'.pair = issued + 1
    BY <1>1, <2>2, <2>3, RefreshIssues, Zenon
  <2>5. issued + 1 \notin revoked /\ fresh' \subseteq 1..issued'
        /\ refreshing'.pair \in 1..issued' /\ issued' <= MaxPairs
    BY <1>1, <2>1, <2>4, PairFacts
  <2> QED
    BY <2>1, <2>4, <2>5, RefreshIsServed
<1>5. CASE WebSession!RefreshFails
  <2>1. refreshing' = [refreshing EXCEPT !.at = "refused"]
    BY <1>5 DEF WebSession!RefreshFails
  <2>2. /\ refreshing' \in WebSession!Refresh /\ refreshing'.at = "refused"
        /\ refreshing'.token = refreshing.token
        /\ refreshing'.pair = refreshing.pair
    BY <1>1, <2>1, RefreshMoves, Zenon
  <2>3. UNCHANGED <<session, call, issued, revoked, fresh, loggedOut, overlap,
                    cut>>
    BY <1>5 DEF WebSession!RefreshFails
  <2> QED
    BY <1>1, <2>2, <2>3, RefreshIsServed
<1> QED
  BY <1>2, <1>3, <1>4, <1>5

\* The answer of a refresh, or its failure, reaches the page: what waited is
\* sent again or over.
LEMMA SessionAnswerStep ==
    ASSUME WebSession!SessionInv, refreshing # None,
           WebSession!Refreshed \/ WebSession!NotRefreshed
    PROVE  WebSession!SessionInv'
<1> USE DEF WebSession!SessionInv
<1>1. /\ refreshing \in WebSession!Refresh /\ issued \in Nat
      /\ refreshing.pair \in WebSession!Pair /\ refreshing.pair \in 1..issued
      /\ \A c \in Call : call[c] \in WebSession!CallState
  BY PairFacts DEF WebSession!TypeOK, WebSession!OnlyIssued, WebSession!Refresh
<1>2. CASE WebSession!Refreshed
  <2>1. /\ session' = refreshing.pair /\ refreshing' = None
        /\ refreshing.at = "answer"
        /\ UNCHANGED <<issued, revoked, fresh, loggedOut, overlap, cut>>
    BY <1>2 DEF WebSession!Refreshed
  <2>2. ASSUME NEW c \in Call
        PROVE  /\ call'[c] \in WebSession!CallState
               /\ call'[c].kind = call[c].kind /\ call'[c].body = call[c].body
    <3>1. CASE c \in WebSession!Waiters
      <4>1. call'[c] = [call[c] EXCEPT !.at = "sent",
                          !.bearer = refreshing.pair, !.retry = FALSE]
        BY <1>2, <3>1 DEF WebSession!Refreshed
      <4>2. PICK r \in WebSession!CallState : r = call[c]
        BY <1>1
      <4>3. PICK p \in WebSession!Pair : p = refreshing.pair
        BY <1>1
      <4>4. call'[c] = [r EXCEPT !.at = "sent", !.bearer = p, !.retry = FALSE]
        BY <4>1, <4>2, <4>3, Zenon
      <4>5. /\ call'[c] \in WebSession!CallState
            /\ call'[c].kind = r.kind /\ call'[c].body = r.body
        BY <4>4, SentAgain, Zenon
      <4> QED
        BY <4>2, <4>5
    <3>2. CASE c \notin WebSession!Waiters
      BY <1>1, <1>2, <3>2 DEF WebSession!Refreshed
    <3> QED
      BY <3>1, <3>2
  <2>3. call' \in [Call -> WebSession!CallState]
    <3>1. call' = [c \in Call |-> call'[c]]
      BY <1>2 DEF WebSession!Refreshed
    <3> QED
      BY <2>2, <3>1
  <2>4. WebSession!TypeOK'
    BY <1>1, <2>1, <2>3 DEF WebSession!TypeOK
  <2>5. WebSession!OnlyIssued'
    BY <1>1, <2>1, <2>2 DEF WebSession!OnlyIssued
  <2>6. WebSession!LoggingOut' = WebSession!LoggingOut
    BY <2>2 DEF WebSession!LoggingOut
  <2>7. WebSession!SessionIsLive'
    BY <2>1, <2>6 DEF WebSession!SessionIsLive, WebSession!RefreshesItsOwn
  <2>8. WebSession!RefreshesItsOwn' /\ WebSession!LogoutEndsIt'
    BY <2>1 DEF WebSession!RefreshesItsOwn, WebSession!LogoutEndsIt
  <2> QED
    BY <2>4, <2>5, <2>7, <2>8
<1>3. CASE WebSession!NotRefreshed
  <2>1. /\ session' = None /\ refreshing' = None
        /\ loggedOut' \in BOOLEAN
        /\ UNCHANGED <<issued, revoked, fresh, overlap, cut>>
    BY <1>3 DEF WebSession!NotRefreshed, WebSession!TypeOK
  <2>2. ASSUME NEW c \in Call
        PROVE  /\ call'[c] \in WebSession!CallState
               /\ call'[c].kind = "logout" => call'[c] = call[c]
    <3>1. CASE c \in WebSession!Waiters
      BY <1>3, <3>1, NoCallState, PairFacts DEF WebSession!NotRefreshed
    <3>2. CASE c \notin WebSession!Waiters
      BY <1>1, <1>3, <3>2 DEF WebSession!NotRefreshed
    <3> QED
      BY <3>1, <3>2
  <2>3. call' \in [Call -> WebSession!CallState]
    <3>1. call' = [c \in Call |-> call'[c]]
      BY <1>3 DEF WebSession!NotRefreshed
    <3> QED
      BY <2>2, <3>1
  <2>4. WebSession!TypeOK'
    BY <1>1, <2>1, <2>3 DEF WebSession!TypeOK
  <2>5. WebSession!OnlyIssued'
    BY <1>1, <2>1, <2>2 DEF WebSession!OnlyIssued
  <2>6. WebSession!SessionIsLive' /\ WebSession!RefreshesItsOwn'
        /\ WebSession!LogoutEndsIt'
    BY <2>1 DEF WebSession!SessionIsLive, WebSession!RefreshesItsOwn,
                WebSession!LogoutEndsIt
  <2> QED
    BY <2>4, <2>5, <2>6
<1> QED
  BY <1>2, <1>3

\* The steps of the page that leave the requests alone.
LEMMA SessionPageStep ==
    ASSUME WebSession!SessionInv,
           \/ WebSession!LoginWithOtp \/ WebSession!Reload
           \/ WebSession!AccessExpires
    PROVE  WebSession!SessionInv'
<1> USE DEF WebSession!SessionInv
<1>1. /\ issued \in 0..MaxPairs /\ issued \in Nat
      /\ revoked \subseteq 1..issued /\ fresh \subseteq 1..issued
  BY PairFacts DEF WebSession!TypeOK
<1>2. CASE WebSession!LoginWithOtp
  <2>1. /\ session = None /\ issued < MaxPairs
        /\ issued' = issued + 1 /\ fresh' = fresh \cup {issued + 1}
        /\ session' = issued + 1 /\ loggedOut' = FALSE
        /\ UNCHANGED <<refreshing, call, revoked, overlap, cut>>
    BY <1>2 DEF WebSession!LoginWithOtp, WebSession!IssueTokens
  <2>2. /\ issued' \in 0..MaxPairs /\ session' \in WebSession!Pair
        /\ session' \in 1..issued' /\ session' \notin revoked
        /\ 1..issued \subseteq 1..issued' /\ session' # None
    BY <1>1, <2>1, PairFacts DEF WebSession!Pair
  <2>3. WebSession!TypeOK'
    BY <1>1, <2>1, <2>2 DEF WebSession!TypeOK
  <2>4. WebSession!OnlyIssued'
    BY <2>1, <2>2 DEF WebSession!OnlyIssued
  <2>5. WebSession!LoggingOut' = WebSession!LoggingOut
    BY <2>1 DEF WebSession!LoggingOut
  <2>6. ASSUME ~cut, ~overlap, ~WebSession!LoggingOut, refreshing # None
        PROVE  FALSE
    <3>1. refreshing.token \in 1..issued
      BY <2>6 DEF WebSession!OnlyIssued
    <3>2. session = refreshing.token
      BY <2>6 DEF WebSession!RefreshesItsOwn
    <3> QED
      BY <1>1, <2>1, <3>1, <3>2, PairFacts
  <2>7. WebSession!SessionIsLive'
    BY <2>1, <2>2, <2>5, <2>6 DEF WebSession!SessionIsLive
  <2>8. WebSession!RefreshesItsOwn' /\ WebSession!LogoutEndsIt'
    BY <2>1, <2>5, <2>6 DEF WebSession!RefreshesItsOwn, WebSession!LogoutEndsIt
  <2> QED
    BY <2>3, <2>4, <2>7, <2>8
<1>3. CASE WebSession!Reload
  <2>1. /\ cut' = (cut \/ refreshing # None \/ WebSession!LoggingOut)
        /\ refreshing' = None
        /\ call' = [c \in Call |-> WebSession!NoCall]
        /\ UNCHANGED <<session, issued, fresh, loggedOut, overlap>>
    BY <1>3 DEF WebSession!Reload
  <2>2. PICK done :
          /\ revoked' = revoked \cup done
          /\ \A p \in done :
               \/ refreshing # None /\ p = refreshing.token
               \/ \E c \in Call : call[c].kind = "logout" /\ p = call[c].body
    BY <1>3 DEF WebSession!Reload
  <2>3. done \subseteq 1..issued
    BY <2>2 DEF WebSession!OnlyIssued
  <2>4. ~cut' => ~cut /\ refreshing = None /\ ~WebSession!LoggingOut
                 /\ revoked' = revoked
    BY <2>1, <2>2 DEF WebSession!TypeOK, WebSession!LoggingOut
  <2>5. call' \in [Call -> WebSession!CallState]
    BY <2>1, NoCallState
  <2>6. \A c \in Call : call'[c].kind # "logout"
    BY <2>1, NoCallState, PairFacts
  <2>7. WebSession!TypeOK'
    BY <1>1, <2>1, <2>2, <2>3, <2>5 DEF WebSession!TypeOK
  <2>8. WebSession!OnlyIssued'
    BY <2>1, <2>6 DEF WebSession!OnlyIssued
  <2>9. WebSession!SessionIsLive'
    BY <2>1, <2>4 DEF WebSession!SessionIsLive
  <2>10. WebSession!RefreshesItsOwn' /\ WebSession!LogoutEndsIt'
    BY <2>1 DEF WebSession!RefreshesItsOwn, WebSession!LogoutEndsIt
  <2> QED
    BY <2>7, <2>8, <2>9, <2>10
<1>4. CASE WebSession!AccessExpires
  <2>1. /\ fresh' \subseteq fresh
        /\ UNCHANGED <<session, refreshing, call, issued, revoked, loggedOut,
                       overlap, cut>>
    BY <1>4 DEF WebSession!AccessExpires
  <2>2. WebSession!LoggingOut' = WebSession!LoggingOut
    BY <2>1 DEF WebSession!LoggingOut
  <2>3. WebSession!TypeOK' /\ WebSession!OnlyIssued'
    BY <2>1 DEF WebSession!TypeOK, WebSession!OnlyIssued
  <2>4. WebSession!SessionIsLive'
    BY <2>1, <2>2 DEF WebSession!SessionIsLive
  <2>5. WebSession!RefreshesItsOwn' /\ WebSession!LogoutEndsIt'
    BY <2>1, <2>2 DEF WebSession!RefreshesItsOwn, WebSession!LogoutEndsIt
  <2> QED
    BY <2>3, <2>4, <2>5
<1> QED
  BY <1>2, <1>3, <1>4

\* A request is sent, or waits for a refresh.
LEMMA SessionRequestStep ==
    ASSUME WebSession!SessionInv, NEW c \in Call,
           \/ WebSession!Unauthorized(c)
           \/ \E k \in {"api", "logout"} : WebSession!Request(c, k)
    PROVE  WebSession!SessionInv'
<1> USE DEF WebSession!SessionInv
<1>1. CASE WebSession!Unauthorized(c)
  <2>1. PICK r \in WebSession!CallState : r = call[c]
    BY DEF WebSession!TypeOK
  <2>2. PICK q : q = [r EXCEPT !.at = "waiting"]
    OBVIOUS
  <2>3. q \in WebSession!CallState /\ q.kind = r.kind /\ q.body = r.body
    BY <2>2 DEF WebSession!CallState
  <2>4. call' = [call EXCEPT ![c] = q]
    BY <1>1, <2>1, <2>2, Zenon DEF WebSession!Unauthorized
  <2>5. /\ session # None
        /\ refreshing' = IF refreshing = None
                         THEN [token |-> session, pair |-> session, at |-> "find"]
                         ELSE refreshing
        /\ UNCHANGED <<session, issued, revoked, fresh, loggedOut, overlap, cut>>
    BY <1>1 DEF WebSession!Unauthorized, WebSession!MustRefresh
  <2>6. /\ call' \in [Call -> WebSession!CallState]
        /\ \A d \in Call : call'[d].kind = call[d].kind
                           /\ call'[d].body = call[d].body
    BY <2>1, <2>3, <2>4, CallMoves
  <2>7. WebSession!LoggingOut' = WebSession!LoggingOut
    BY <2>6 DEF WebSession!LoggingOut
  <2>8. \/ refreshing # None /\ refreshing' = refreshing
        \/ /\ refreshing = None /\ refreshing' \in WebSession!Refresh
           /\ refreshing' # None /\ refreshing'.at = "find"
           /\ refreshing'.token = session /\ refreshing'.pair = session
    BY <2>5, PartsAssumption DEF WebSession!TypeOK, WebSession!Refresh
  <2>9. WebSession!TypeOK'
    BY <2>5, <2>6, <2>8 DEF WebSession!TypeOK
  <2>10. WebSession!OnlyIssued'
    BY <2>5, <2>6, <2>8 DEF WebSession!OnlyIssued
  <2>11. WebSession!SessionIsLive'
    BY <2>5, <2>7, <2>8 DEF WebSession!SessionIsLive
  <2>12. WebSession!RefreshesItsOwn' /\ WebSession!LogoutEndsIt'
    BY <2>5, <2>7, <2>8 DEF WebSession!RefreshesItsOwn, WebSession!LogoutEndsIt
  <2> QED
    BY <2>9, <2>10, <2>11, <2>12
<1>2. ASSUME NEW k \in {"api", "logout"}, WebSession!Request(c, k)
      PROVE  WebSession!SessionInv'
  <2>1. PICK q : q = [at |-> "sent", kind |-> k, bearer |-> session,
                      body |-> session, retry |-> TRUE]
    OBVIOUS
  <2>2. /\ session # None /\ call' = [call EXCEPT ![c] = q]
        /\ UNCHANGED <<session, refreshing, issued, revoked, fresh, loggedOut,
                       overlap, cut>>
    BY <1>2, <2>1, Zenon DEF WebSession!Request
  <2>3. q \in WebSession!CallState /\ q.kind = k /\ q.body = session
    BY <2>1 DEF WebSession!TypeOK, WebSession!CallState
  <2>4. /\ call' \in [Call -> WebSession!CallState] /\ call'[c] = q
        /\ \A d \in Call \ {c} : call'[d] = call[d]
    BY <2>2, <2>3, CallMoves
  <2>5. call[c].kind # "logout"
    BY <1>2, PairFacts
      DEF WebSession!TypeOK, WebSession!CallState, WebSession!Request
  <2>6. ~WebSession!LoggingOut' => ~WebSession!LoggingOut
    BY <2>4, <2>5 DEF WebSession!LoggingOut
  <2>7. WebSession!TypeOK'
    BY <2>2, <2>4 DEF WebSession!TypeOK
  <2>8. WebSession!OnlyIssued'
    BY <2>2, <2>3, <2>4 DEF WebSession!OnlyIssued
  <2>9. WebSession!SessionIsLive'
    BY <2>2, <2>6 DEF WebSession!SessionIsLive
  <2>10. WebSession!RefreshesItsOwn' /\ WebSession!LogoutEndsIt'
    BY <2>2, <2>6 DEF WebSession!RefreshesItsOwn, WebSession!LogoutEndsIt
  <2> QED
    BY <2>7, <2>8, <2>9, <2>10
<1> QED
  BY <1>1, <1>2

LEMMA SessionStep == WebSession!SessionInv /\ [WebSession!Next]_sv => WebSession!SessionInv'
<1> SUFFICES ASSUME WebSession!SessionInv, [WebSession!Next]_sv PROVE WebSession!SessionInv'
  OBVIOUS
<1>1. CASE UNCHANGED sv
  BY <1>1
    DEF sv, WebSession!SessionInv, WebSession!TypeOK, WebSession!OnlyIssued,
        WebSession!SessionIsLive, WebSession!RefreshesItsOwn,
        WebSession!LogoutEndsIt, WebSession!LoggingOut
<1>2. CASE WebSession!LoginWithOtp \/ WebSession!Reload \/ WebSession!AccessExpires
  BY <1>2, SessionPageStep
<1>3. CASE WebSession!RefreshStep
  <2>1. refreshing # None
    BY <1>3
      DEF WebSession!RefreshStep, WebSession!FindRefreshToken,
          WebSession!RevokeRefreshToken, WebSession!IssueRefreshed,
          WebSession!RefreshFails, WebSession!Refreshed, WebSession!NotRefreshed
  <2> QED
    BY <1>3, <2>1, SessionRefreshStep, SessionAnswerStep
      DEF WebSession!RefreshStep
<1>4. ASSUME NEW c \in Call, WebSession!Accepted(c)
      PROVE  WebSession!SessionInv'
  BY <1>4, SessionEnds DEF WebSession!Accepted
<1>5. ASSUME NEW c \in Call, WebSession!Fails(c) \/ WebSession!Rejected(c)
      PROVE  WebSession!SessionInv'
  BY <1>5, SessionEnds DEF WebSession!Fails, WebSession!Rejected
<1>6. ASSUME NEW c \in Call,
             \/ WebSession!Unauthorized(c)
             \/ \E k \in {"api", "logout"} : WebSession!Request(c, k)
      PROVE  WebSession!SessionInv'
  BY <1>6, SessionRequestStep
<1> QED
  BY <1>1, <1>2, <1>3, <1>4, <1>5, <1>6 DEF WebSession!Next, WebSession!Answers

LEMMA SessionIsInv == Spec => []WebSession!SessionInv
<1>1. Init => WebSession!Init
  BY DEF Init
<1>2. [Next]_vars => [WebSession!Next]_sv
  BY DEF Next, vars, sv
<1> QED
  BY <1>1, <1>2, SessionInit, SessionStep, PTL DEF Spec

\* A page that no reload has cut off never refreshes with, nor keeps, a session
\* whose token an earlier refresh of its own has rotated (refreshPromise in
\* http.ts), unless a refresh outlives a logout.
THEOREM SessionsAreLive == Spec => []SessionIsLive
<1>1. WebSession!SessionInv => SessionIsLive
  BY DEF WebSession!SessionInv, SessionIsLive
<1> QED
  BY <1>1, SessionIsInv, PTL

\* After logout() the page has no session until somebody signs in (the finally
\* clause in auth-store), unless a refresh outlived it.
THEOREM LogoutsAreFinal == Spec => []LogoutIsFinal
<1>1. WebSession!SessionInv => LogoutIsFinal
  BY DEF WebSession!SessionInv, LogoutIsFinal, WebSession!LogoutIsFinal,
         WebSession!LogoutEndsIt
<1> QED
  BY <1>1, SessionIsInv, PTL

(***************************************************************************)
(* QrScanner                                                               *)
(***************************************************************************)
LEMMA CameraInit == QrScanner!Init => QrScanner!CameraInv
<1> SUFFICES ASSUME QrScanner!Init PROVE QrScanner!CameraInv
  OBVIOUS
<1> QED
  BY PartsAssumption DEF QrScanner!Init, QrScanner!CameraInv, QrScanner!TypeOK,
         QrScanner!Opening

LEMMA CameraStep == QrScanner!CameraInv /\ [QrScanner!Next]_qv => QrScanner!CameraInv'
<1> SUFFICES ASSUME QrScanner!CameraInv, [QrScanner!Next]_qv PROVE QrScanner!CameraInv'
  OBVIOUS
<1>0. None \notin Start
  BY PartsAssumption DEF PartsAssumption
<1> USE <1>0 DEF QrScanner!CameraInv, QrScanner!TypeOK, QrScanner!Opening
<1>1. CASE UNCHANGED qv
  BY <1>1 DEF qv
<1>2. CASE QrScanner!Render
  BY <1>2 DEF QrScanner!Render
<1>3. CASE QrScanner!Stop
  BY <1>3 DEF QrScanner!Stop, QrScanner!Dispose, QrScanner!TracksStopped,
           QrScanner!Blanked
<1>4. CASE QrScanner!Unmount
  BY <1>4 DEF QrScanner!Unmount, QrScanner!Dispose, QrScanner!TracksStopped
<1>5. ASSUME NEW s \in Start, QrScanner!StartScanner(s)
      PROVE  QrScanner!CameraInv'
  BY <1>5 DEF QrScanner!StartScanner
<1>6. ASSUME NEW s \in Start, QrScanner!StreamOpens(s)
      PROVE  QrScanner!CameraInv'
  BY <1>6 DEF QrScanner!StreamOpens, QrScanner!Activate
<1>7. ASSUME NEW s \in Start, QrScanner!Plays(s)
      PROVE  QrScanner!CameraInv'
  BY <1>7 DEF QrScanner!Plays, QrScanner!Activate
<1>8. ASSUME NEW s \in Start, QrScanner!StartFails(s)
      PROVE  QrScanner!CameraInv'
  BY <1>8 DEF QrScanner!StartFails, QrScanner!Dispose, QrScanner!TracksStopped,
           QrScanner!Blanked
<1>9. ASSUME NEW s \in Start, QrScanner!Tick(s)
      PROVE  QrScanner!CameraInv'
  BY <1>9 DEF QrScanner!Tick, QrScanner!Dispose, QrScanner!TracksStopped
<1>10. ASSUME NEW s \in Start, QrScanner!DetectEnds(s)
      PROVE  QrScanner!CameraInv'
  BY <1>10 DEF QrScanner!DetectEnds, QrScanner!Dispose,
            QrScanner!TracksStopped, QrScanner!Blanked
<1>11. ASSUME NEW s \in Start, QrScanner!DetectsNothing(s)
      PROVE  QrScanner!CameraInv'
  BY <1>11 DEF QrScanner!DetectsNothing
<1> QED
  BY <1>1, <1>2, <1>3, <1>4, <1>5, <1>6, <1>7, <1>8, <1>9, <1>10, <1>11
    DEF QrScanner!Next

LEMMA CameraIsInv == Spec => []QrScanner!CameraInv
<1>1. Init => QrScanner!Init
  BY DEF Init
<1>2. [Next]_vars => [QrScanner!Next]_qv
  BY DEF Next, vars, qv
<1> QED
  BY <1>1, <1>2, CameraInit, CameraStep, PTL DEF Spec

\* The camera is on only while the scanner holds it (dispose() in
\* useQrScanner): nothing that is stopped, left or that fails keeps a stream,
\* unless one was asked for on top of another.
THEOREM CameraGoesOff == Spec => []CameraIsReleased
<1>1. QrScanner!CameraInv => CameraIsReleased
  BY DEF QrScanner!CameraInv, CameraIsReleased, QrScanner!CameraIsReleased
<1> QED
  BY <1>1, CameraIsInv, PTL

(***************************************************************************)
(* Accounts                                                                *)
(***************************************************************************)
LEMMA AccountsInit == Accounts!Init => Accounts!AccountsInv
<1> SUFFICES ASSUME Accounts!Init PROVE Accounts!AccountsInv
  OBVIOUS
<1> USE DEF Accounts!Init, Accounts!Known
<1>1. Accounts!Away \in Accounts!Visit
  BY DEF Accounts!Away, Accounts!Visit
<1>2. Accounts!TypeOK
  BY <1>1 DEF Accounts!TypeOK
<1>3. Accounts!VerifiedHasIdentity /\ Accounts!MailsAreUnique
  BY DEF Accounts!VerifiedHasIdentity, Accounts!MailsAreUnique
<1>4. Accounts!IdentityMatchesMail /\ Accounts!EveryoneIsReachable
  BY DEF Accounts!IdentityMatchesMail, Accounts!EveryoneIsReachable
<1>5. Accounts!ConsentsOfUsers /\ Accounts!FindingsStand
  BY DEF Accounts!ConsentsOfUsers, Accounts!FindingsStand, Accounts!Away
<1> QED
  BY <1>2, <1>3, <1>4, <1>5 DEF Accounts!AccountsInv

\* A handler goes on or leaves; its findings are what the step looked up.
LEMMA VisitMoves ==
    ASSUME Accounts!AccountsInv, NEW v \in Visitor, NEW q \in Accounts!Visit,
           visit' = [visit EXCEPT ![v] = q],
           UNCHANGED <<user, identity, dan>>,
           consents' \subseteq consents,
           q.at \in {"byMail", "link", "create"} => q.who \in Accounts!Sub,
           q.at = "link" =>
             q.as \in Accounts!WithEmail(Accounts!EmailOf(q.who)),
           q.at \in {"dan", "upsert", "mark"} =>
             q.who \in NationalId /\ q.as \in Accounts!Known,
           q.at = "mark" => dan[q.as] # None
    PROVE  Accounts!AccountsInv'
<1> USE DEF Accounts!AccountsInv
<1>1. /\ visit' \in [Visitor -> Accounts!Visit] /\ visit'[v] = q
      /\ \A w \in Visitor \ {v} : visit'[w] = visit[w]
  BY DEF Accounts!TypeOK
<1>2. Accounts!Known' = Accounts!Known
  BY DEF Accounts!Known
<1>3. \A m : Accounts!WithEmail(m)' = Accounts!WithEmail(m)
  BY <1>2 DEF Accounts!WithEmail
<1>4. Accounts!TypeOK'
  BY <1>1 DEF Accounts!TypeOK
<1>5. Accounts!VerifiedHasIdentity' /\ Accounts!ConsentsOfUsers'
  BY <1>2 DEF Accounts!VerifiedHasIdentity, Accounts!ConsentsOfUsers
<1>6. /\ Accounts!EveryoneIsReachable' /\ Accounts!IdentityMatchesMail'
      /\ Accounts!MailsAreUnique'
  BY <1>2 DEF Accounts!EveryoneIsReachable, Accounts!IdentityMatchesMail,
              Accounts!MailsAreUnique
<1>7. Accounts!FindingsStand'
  BY <1>1, <1>2, <1>3 DEF Accounts!FindingsStand
<1> QED
  BY <1>4, <1>5, <1>6, <1>7

LEMMA ConsentsMove ==
    ASSUME Accounts!AccountsInv, UNCHANGED <<user, identity, dan, visit>>,
           consents' \subseteq {"google"} \cup Accounts!Known
    PROVE  Accounts!AccountsInv'
<1> USE DEF Accounts!AccountsInv
<1>1. Accounts!Known' = Accounts!Known
  BY DEF Accounts!Known
<1>2. \A m : Accounts!WithEmail(m)' = Accounts!WithEmail(m)
  BY <1>1 DEF Accounts!WithEmail
<1>3. Accounts!TypeOK' /\ Accounts!VerifiedHasIdentity'
      /\ Accounts!ConsentsOfUsers'
  BY <1>1 DEF Accounts!TypeOK, Accounts!VerifiedHasIdentity,
              Accounts!ConsentsOfUsers, Accounts!Known
<1>4. /\ Accounts!EveryoneIsReachable' /\ Accounts!IdentityMatchesMail'
      /\ Accounts!MailsAreUnique'
  BY <1>1 DEF Accounts!EveryoneIsReachable, Accounts!IdentityMatchesMail,
              Accounts!MailsAreUnique
<1>5. Accounts!FindingsStand'
  BY <1>1, <1>2 DEF Accounts!FindingsStand
<1> QED
  BY <1>3, <1>4, <1>5

\* The steps that look up, ask somebody outside or give up.
LEMMA LookUpStep ==
    ASSUME Accounts!AccountsInv, NEW v \in Visitor,
           \/ Accounts!FindByEmail(v) \/ Accounts!CheckNationalId(v)
           \/ Accounts!VisitFails(v)
           \/ \E p \in Phone : Accounts!FindByPhone(v, p)
           \/ \E g \in Google : Accounts!CompleteGoogle(v, g)
           \/ \E u \in User, n \in NationalId : Accounts!CompleteDan(v, u, n)
    PROVE  Accounts!AccountsInv'
<1> USE DEF Accounts!At, Accounts!Leave
<1>1. PICK r \in Accounts!Visit : r = visit[v]
  BY DEF Accounts!AccountsInv, Accounts!TypeOK
<1>2. /\ r.at \in {"byMail", "link", "create"} => r.who \in Accounts!Sub
      /\ r.at \in {"dan", "upsert", "mark"} =>
           r.who \in NationalId /\ r.as \in Accounts!Known
      /\ Accounts!ConsentsOfUsers
  BY <1>1 DEF Accounts!AccountsInv, Accounts!FindingsStand
<1>3. Accounts!Away \in Accounts!Visit /\ Accounts!Away.at = "idle"
  BY DEF Accounts!Away, Accounts!Visit
<1>4. CASE Accounts!FindByEmail(v)
  <2>1. r.at = "byMail" /\ UNCHANGED <<user, identity, dan, consents>>
    BY <1>1, <1>4 DEF Accounts!FindByEmail
  <2>2. CASE Accounts!At(v, "create", r.who, None)
    <3>1. PICK q : q = [at |-> "create", who |-> r.who, as |-> None]
      OBVIOUS
    <3>2. q \in Accounts!Visit /\ q.at = "create" /\ q.who \in Accounts!Sub
      BY <1>2, <2>1, <3>1 DEF Accounts!Visit
    <3>3. visit' = [visit EXCEPT ![v] = q]
      BY <2>2, <3>1
    <3> QED
      BY <2>1, <3>2, <3>3, VisitMoves
  <2>3. ASSUME NEW u \in Accounts!WithEmail(Accounts!EmailOf(r.who)),
               Accounts!At(v, "link", r.who, u)
        PROVE  Accounts!AccountsInv'
    <3>1. PICK q : q = [at |-> "link", who |-> r.who, as |-> u]
      OBVIOUS
    <3>2. u \in User
      BY DEF Accounts!WithEmail, Accounts!Known
    <3>3. /\ q \in Accounts!Visit /\ q.at = "link" /\ q.who \in Accounts!Sub
          /\ q.as = u /\ q.who = r.who
      BY <1>2, <2>1, <3>1, <3>2 DEF Accounts!Visit
    <3>4. visit' = [visit EXCEPT ![v] = q]
      BY <2>3, <3>1
    <3> QED
      BY <2>1, <3>3, <3>4, VisitMoves
  <2> QED
    BY <1>1, <1>4, <2>2, <2>3 DEF Accounts!FindByEmail
<1>5. CASE Accounts!CheckNationalId(v)
  <2>1. r.at = "dan" /\ UNCHANGED <<user, identity, dan, consents>>
    BY <1>1, <1>5 DEF Accounts!CheckNationalId
  <2>2. CASE visit' = [visit EXCEPT ![v] = Accounts!Away]
    BY <1>3, <2>1, <2>2, VisitMoves
  <2>3. CASE Accounts!At(v, "upsert", r.who, r.as)
    <3>1. PICK q : q = [at |-> "upsert", who |-> r.who, as |-> r.as]
      OBVIOUS
    <3>2. /\ q \in Accounts!Visit /\ q.at = "upsert"
          /\ q.who \in NationalId /\ q.as \in Accounts!Known
      BY <1>2, <2>1, <3>1 DEF Accounts!Visit
    <3>3. visit' = [visit EXCEPT ![v] = q]
      BY <2>3, <3>1
    <3> QED
      BY <2>1, <3>2, <3>3, VisitMoves
  <2> QED
    BY <1>1, <1>5, <2>2, <2>3 DEF Accounts!CheckNationalId
<1>6. CASE Accounts!VisitFails(v)
  BY <1>3, <1>6, VisitMoves DEF Accounts!VisitFails
<1>7. ASSUME NEW p \in Phone, Accounts!FindByPhone(v, p)
      PROVE  Accounts!AccountsInv'
  <2>1. PICK q : q = [at |-> "create", who |-> p, as |-> None]
    OBVIOUS
  <2>2. q \in Accounts!Visit /\ q.at = "create" /\ q.who \in Accounts!Sub
    BY <2>1 DEF Accounts!Visit, Accounts!Sub
  <2>3. visit' = [visit EXCEPT ![v] = q]
        /\ UNCHANGED <<user, identity, dan, consents>>
    BY <1>7, <2>1 DEF Accounts!FindByPhone
  <2> QED
    BY <2>2, <2>3, VisitMoves
<1>8. ASSUME NEW g \in Google, Accounts!CompleteGoogle(v, g)
      PROVE  Accounts!AccountsInv'
  <2>1. consents' \subseteq consents /\ UNCHANGED <<user, identity, dan>>
    BY <1>8 DEF Accounts!CompleteGoogle
  <2>2. CASE UNCHANGED visit
    BY <1>2, <2>1, <2>2, ConsentsMove DEF Accounts!ConsentsOfUsers
  <2>3. CASE Accounts!At(v, "byMail", g, None)
    <3>1. PICK q : q = [at |-> "byMail", who |-> g, as |-> None]
      OBVIOUS
    <3>2. q \in Accounts!Visit /\ q.at = "byMail" /\ q.who \in Accounts!Sub
      BY <3>1 DEF Accounts!Visit, Accounts!Sub
    <3>3. visit' = [visit EXCEPT ![v] = q]
      BY <2>3, <3>1
    <3> QED
      BY <2>1, <3>2, <3>3, VisitMoves
  <2> QED
    BY <1>8, <2>2, <2>3 DEF Accounts!CompleteGoogle
<1>9. ASSUME NEW u \in User, NEW n \in NationalId, Accounts!CompleteDan(v, u, n)
      PROVE  Accounts!AccountsInv'
  <2>1. /\ u \in consents /\ consents' \subseteq consents
        /\ UNCHANGED <<user, identity, dan>>
    BY <1>9 DEF Accounts!CompleteDan
  <2>2. CASE UNCHANGED visit
    BY <1>2, <2>1, <2>2, ConsentsMove DEF Accounts!ConsentsOfUsers
  <2>3. CASE Accounts!At(v, "dan", n, u)
    <3>1. PICK q : q = [at |-> "dan", who |-> n, as |-> u]
      OBVIOUS
    <3>2. /\ q \in Accounts!Visit /\ q.at = "dan" /\ q.who \in NationalId
          /\ q.as = u
      BY <3>1 DEF Accounts!Visit
    <3>3. u \in Accounts!Known
      BY <1>2, <2>1, PartsAssumption DEF Accounts!ConsentsOfUsers
    <3>4. visit' = [visit EXCEPT ![v] = q]
      BY <2>3, <3>1
    <3> QED
      BY <2>1, <3>2, <3>3, <3>4, VisitMoves
  <2> QED
    BY <1>9, <2>2, <2>3 DEF Accounts!CompleteDan, Accounts!ExchangeDanCode
<1> QED
  BY <1>4, <1>5, <1>6, <1>7, <1>8, <1>9

\* A handler that has written leaves the rest of its findings behind.
LEMMA VisitEnds ==
    ASSUME Accounts!AccountsInv, NEW v \in Visitor, NEW q \in Accounts!Visit,
           visit' = [visit EXCEPT ![v] = q]
    PROVE  /\ visit' \in [Visitor -> Accounts!Visit] /\ visit'[v] = q
           /\ \A w \in Visitor \ {v} : visit'[w] = visit[w]
BY DEF Accounts!AccountsInv, Accounts!TypeOK

LEMMA LinkStep ==
    ASSUME Accounts!AccountsInv, NEW v \in Visitor, Accounts!LinkIdentity(v)
    PROVE  /\ Accounts!AccountsInv'
           /\ \A s \in Accounts!Sub : identity[s] # None => identity'[s] = identity[s]
<1> USE DEF Accounts!AccountsInv
<1>1. PICK r \in Accounts!Visit : r = visit[v]
  BY DEF Accounts!TypeOK
<1>2. /\ r.at = "link" /\ r.who \in Accounts!Sub
      /\ r.as \in Accounts!WithEmail(Accounts!EmailOf(r.who))
  BY <1>1 DEF Accounts!LinkIdentity, Accounts!FindingsStand
<1>3. /\ r.as \in Accounts!Known /\ r.as \in User /\ r.as # None
      /\ user[r.as].email = Accounts!EmailOf(r.who)
      /\ Accounts!EmailOf(r.who) # None
  BY <1>2, PartsAssumption DEF Accounts!WithEmail, Accounts!Known
<1>4. /\ identity' = [identity EXCEPT ![r.who] = r.as]
      /\ visit' = [visit EXCEPT ![v] = Accounts!Away]
      /\ UNCHANGED <<user, dan, consents>>
  BY <1>1 DEF Accounts!LinkIdentity, Accounts!Leave
<1>5. identity[r.who] # None => identity[r.who] = r.as
  BY <1>2, <1>3 DEF Accounts!IdentityMatchesMail, Accounts!MailsAreUnique
<1>6. /\ identity' \in [Accounts!Sub -> User \cup {None}]
      /\ identity'[r.who] = r.as
      /\ \A s \in Accounts!Sub \ {r.who} : identity'[s] = identity[s]
  BY <1>2, <1>3, <1>4 DEF Accounts!TypeOK
<1>7. \A s \in Accounts!Sub : identity[s] # None => identity'[s] = identity[s]
  BY <1>5, <1>6
<1>8. /\ Accounts!Away \in Accounts!Visit /\ Accounts!Away.at = "idle"
  BY DEF Accounts!Away, Accounts!Visit
<1>9. /\ visit' \in [Visitor -> Accounts!Visit] /\ visit'[v].at = "idle"
      /\ \A w \in Visitor \ {v} : visit'[w] = visit[w]
  BY <1>4, <1>8, VisitEnds
<1>10. Accounts!Known' = Accounts!Known
  BY <1>4 DEF Accounts!Known
<1>11. \A m : Accounts!WithEmail(m)' = Accounts!WithEmail(m)
  BY <1>4, <1>10 DEF Accounts!WithEmail
<1>12. Accounts!TypeOK' /\ Accounts!VerifiedHasIdentity'
  BY <1>4, <1>6, <1>9, <1>10 DEF Accounts!TypeOK, Accounts!VerifiedHasIdentity
<1>13. Accounts!ConsentsOfUsers' /\ Accounts!MailsAreUnique'
  BY <1>4, <1>10 DEF Accounts!ConsentsOfUsers, Accounts!MailsAreUnique
<1>14. Accounts!EveryoneIsReachable'
  <2>1. ASSUME NEW u \in Accounts!Known
        PROVE  \E s \in Accounts!Sub : identity'[s] = u
    <3>1. u # None
      BY PartsAssumption DEF Accounts!Known
    <3> QED
      BY <1>7, <3>1 DEF Accounts!EveryoneIsReachable
  <2> QED
    BY <1>10, <2>1 DEF Accounts!EveryoneIsReachable
<1>15. Accounts!IdentityMatchesMail'
  BY <1>3, <1>4, <1>6, <1>10 DEF Accounts!IdentityMatchesMail
<1>16. Accounts!FindingsStand'
  BY <1>4, <1>9, <1>10, <1>11 DEF Accounts!FindingsStand
<1> QED
  BY <1>7, <1>12, <1>13, <1>14, <1>15, <1>16

LEMMA CreateStep ==
    ASSUME Accounts!AccountsInv, NEW v \in Visitor, Accounts!CreateUser(v)
    PROVE  /\ Accounts!AccountsInv'
           /\ \A s \in Accounts!Sub : identity[s] # None => identity'[s] = identity[s]
<1>1. PICK r \in Accounts!Visit : r = visit[v]
  BY DEF Accounts!AccountsInv, Accounts!TypeOK
<1>2. r.at = "create" /\ r.who \in Accounts!Sub
  BY <1>1 DEF Accounts!CreateUser, Accounts!FindingsStand, Accounts!AccountsInv
<1>3. Accounts!Away \in Accounts!Visit /\ Accounts!Away.at = "idle"
  BY DEF Accounts!Away, Accounts!Visit
<1>4. /\ visit' = [visit EXCEPT ![v] = Accounts!Away]
      /\ UNCHANGED <<dan, consents>>
  BY DEF Accounts!CreateUser, Accounts!Leave
<1>5. CASE UNCHANGED <<user, identity>>
  BY <1>3, <1>4, <1>5, VisitMoves
<1>6. ASSUME NEW u \in User \ Accounts!Known, ~Accounts!Taken(r.who),
             NEW row,
             row = [phone |-> IF r.who \in Phone THEN r.who ELSE None,
                    email |-> Accounts!EmailOf(r.who), tier |-> 1],
             user' = [user EXCEPT ![u] = row],
             identity' = [identity EXCEPT ![r.who] = u]
      PROVE  /\ Accounts!AccountsInv'
             /\ \A s \in Accounts!Sub :
                  identity[s] # None => identity'[s] = identity[s]
  <2> USE DEF Accounts!AccountsInv
  <2>1. /\ row \in Accounts!UserRow /\ row # None /\ row.tier = 1
        /\ row.email = Accounts!EmailOf(r.who)
    BY <1>2, <1>6, PartsAssumption DEF Accounts!UserRow
  <2>2. /\ user' \in [User -> Accounts!UserRow \cup {None}] /\ user'[u] = row
        /\ \A w \in User \ {u} : user'[w] = user[w]
    BY <1>6, <2>1 DEF Accounts!TypeOK
  <2>3. /\ identity' \in [Accounts!Sub -> User \cup {None}]
        /\ identity'[r.who] = u
        /\ \A s \in Accounts!Sub \ {r.who} : identity'[s] = identity[s]
    BY <1>2, <1>6 DEF Accounts!TypeOK
  <2>4. /\ identity[r.who] = None
        /\ \A w \in Accounts!Known : row.email # None => user[w].email # row.email
    BY <1>6, <2>1 DEF Accounts!Taken, Accounts!WithEmail
  <2>5. Accounts!Known' = Accounts!Known \cup {u}
    BY <2>1, <2>2 DEF Accounts!Known
  <2>6. /\ visit' \in [Visitor -> Accounts!Visit] /\ visit'[v].at = "idle"
        /\ \A w \in Visitor \ {v} : visit'[w] = visit[w]
    BY <1>3, <1>4, VisitEnds
  <2>7. Accounts!TypeOK'
    BY <1>4, <2>2, <2>3, <2>6, PartsAssumption DEF Accounts!TypeOK, Accounts!ConsentsOfUsers
  <2>8. Accounts!VerifiedHasIdentity'
    BY <1>4, <2>1, <2>2, <2>5 DEF Accounts!VerifiedHasIdentity, Accounts!Known
  <2>9. Accounts!ConsentsOfUsers'
    BY <1>4, <2>5 DEF Accounts!ConsentsOfUsers
  <2>10. \A s \in Accounts!Sub : identity[s] # None => identity'[s] = identity[s]
    BY <2>3, <2>4
  <2>11. Accounts!EveryoneIsReachable'
    <3>1. ASSUME NEW w \in Accounts!Known \cup {u}
          PROVE  \E s \in Accounts!Sub : identity'[s] = w
      <4>1. CASE w = u
        BY <1>2, <2>3, <4>1
      <4>2. CASE w \in Accounts!Known
        <5>1. w # None
          BY <4>2, PartsAssumption DEF Accounts!Known
        <5> QED
          BY <2>10, <4>2, <5>1 DEF Accounts!EveryoneIsReachable
      <4> QED
        BY <4>1, <4>2
    <3> QED
      BY <2>5, <3>1 DEF Accounts!EveryoneIsReachable
  <2>12. Accounts!IdentityMatchesMail'
    <3>1. \A w \in Accounts!Known : w \in User /\ w # u
      BY DEF Accounts!Known
    <3> QED
      BY <2>1, <2>2, <2>3, <2>5, <3>1 DEF Accounts!IdentityMatchesMail
  <2>13. Accounts!MailsAreUnique'
    <3>1. \A w \in Accounts!Known : w \in User /\ w # u
      BY DEF Accounts!Known
    <3> QED
      BY <2>2, <2>4, <2>5, <3>1 DEF Accounts!MailsAreUnique
  <2>14. \A m : Accounts!WithEmail(m) \subseteq Accounts!WithEmail(m)'
    <3>1. \A w \in Accounts!Known : w \in User /\ w # u
      BY DEF Accounts!Known
    <3> QED
      BY <2>2, <2>5, <3>1 DEF Accounts!WithEmail
  <2>15. Accounts!FindingsStand'
    BY <1>4, <2>5, <2>6, <2>14 DEF Accounts!FindingsStand
  <2> QED
    BY <2>7, <2>8, <2>9, <2>10, <2>11, <2>12, <2>13, <2>15
<1> QED
  BY <1>1, <1>5, <1>6 DEF Accounts!CreateUser

LEMMA UpsertStep ==
    ASSUME Accounts!AccountsInv, NEW v \in Visitor, Accounts!UpsertDan(v)
    PROVE  Accounts!AccountsInv'
<1>1. PICK r \in Accounts!Visit : r = visit[v]
  BY DEF Accounts!AccountsInv, Accounts!TypeOK
<1>2. r.at = "upsert" /\ r.who \in NationalId /\ r.as \in Accounts!Known
  BY <1>1 DEF Accounts!UpsertDan, Accounts!FindingsStand, Accounts!AccountsInv
<1>3. Accounts!Away \in Accounts!Visit /\ Accounts!Away.at = "idle"
  BY DEF Accounts!Away, Accounts!Visit
<1>4. UNCHANGED <<user, identity, consents>>
  BY DEF Accounts!UpsertDan
<1>5. CASE visit' = [visit EXCEPT ![v] = Accounts!Away] /\ UNCHANGED dan
  BY <1>3, <1>4, <1>5, VisitMoves
<1>6. ASSUME NEW q, q = [at |-> "mark", who |-> r.who, as |-> r.as],
             visit' = [visit EXCEPT ![v] = q],
             dan' = [dan EXCEPT ![r.as] = r.who],
             ~Accounts!HeldBySomeoneElse(r.as, r.who)
      PROVE  Accounts!AccountsInv'
  <2> USE DEF Accounts!AccountsInv
  <2>1. r.as \in User /\ r.who # None
    BY <1>2, PartsAssumption DEF Accounts!Known
  <2>2. /\ q \in Accounts!Visit /\ q.at = "mark"
        /\ q.who = r.who /\ q.as = r.as
    BY <1>2, <1>6, <2>1 DEF Accounts!Visit
  <2>3. /\ visit' \in [Visitor -> Accounts!Visit] /\ visit'[v] = q
        /\ \A w \in Visitor \ {v} : visit'[w] = visit[w]
    BY <1>6, <2>2, VisitEnds
  <2>4. /\ dan' \in [User -> NationalId \cup {None}] /\ dan'[r.as] = r.who
        /\ \A w \in User \ {r.as} : dan'[w] = dan[w]
    BY <1>2, <1>6, <2>1 DEF Accounts!TypeOK
  <2>5. \A w \in User \ {r.as} : dan[w] # r.who
    BY <1>6 DEF Accounts!HeldBySomeoneElse
  <2>6. Accounts!Known' = Accounts!Known
    BY <1>4 DEF Accounts!Known
  <2>7. \A m : Accounts!WithEmail(m)' = Accounts!WithEmail(m)
    BY <1>4, <2>6 DEF Accounts!WithEmail
  <2>8. Accounts!TypeOK'
    BY <1>4, <2>3, <2>4 DEF Accounts!TypeOK
  <2>9. Accounts!VerifiedHasIdentity'
    <3>1. \A u \in Accounts!Known : u \in User
      BY DEF Accounts!Known
    <3> QED
      BY <1>4, <2>1, <2>4, <2>5, <2>6, <3>1 DEF Accounts!VerifiedHasIdentity
  <2>10. Accounts!ConsentsOfUsers' /\ Accounts!EveryoneIsReachable'
    BY <1>4, <2>6 DEF Accounts!ConsentsOfUsers, Accounts!EveryoneIsReachable
  <2>11. Accounts!IdentityMatchesMail' /\ Accounts!MailsAreUnique'
    BY <1>4, <2>6 DEF Accounts!IdentityMatchesMail, Accounts!MailsAreUnique
  <2>12. Accounts!FindingsStand'
    <3>1. \A u \in Accounts!Known : u \in User /\ (dan[u] # None => dan'[u] # None)
      BY <2>1, <2>4 DEF Accounts!Known
    <3> QED
      BY <1>2, <2>1, <2>2, <2>3, <2>4, <2>6, <2>7, <3>1
        DEF Accounts!FindingsStand
  <2> QED
    BY <2>8, <2>9, <2>10, <2>11, <2>12
<1> QED
  BY <1>1, <1>5, <1>6 DEF Accounts!UpsertDan, Accounts!NationalIdIsFree,
     Accounts!At, Accounts!Leave

LEMMA MarkStep ==
    ASSUME Accounts!AccountsInv, NEW v \in Visitor, Accounts!MarkDanVerified(v)
    PROVE  Accounts!AccountsInv'
<1> USE DEF Accounts!AccountsInv
<1>1. PICK r \in Accounts!Visit : r = visit[v]
  BY DEF Accounts!TypeOK
<1>2. r.at = "mark" /\ r.as \in Accounts!Known /\ dan[r.as] # None
  BY <1>1 DEF Accounts!MarkDanVerified, Accounts!FindingsStand
<1>3. /\ r.as \in User /\ user[r.as] # None
      /\ user[r.as] \in Accounts!UserRow
  BY <1>2 DEF Accounts!Known, Accounts!TypeOK
<1>4. PICK row : row = [user[r.as] EXCEPT !.tier = 2]
  OBVIOUS
<1>5. /\ user' = [user EXCEPT ![r.as] = row]
      /\ visit' = [visit EXCEPT ![v] = Accounts!Away]
      /\ UNCHANGED <<identity, dan, consents>>
  BY <1>1, <1>4 DEF Accounts!MarkDanVerified, Accounts!Leave
<1>6. /\ row \in Accounts!UserRow /\ row # None
      /\ row.email = user[r.as].email
  BY <1>3, <1>4, PartsAssumption DEF Accounts!UserRow
<1>7. /\ user' \in [User -> Accounts!UserRow \cup {None}] /\ user'[r.as] = row
      /\ \A w \in User \ {r.as} : user'[w] = user[w]
  BY <1>3, <1>5, <1>6 DEF Accounts!TypeOK
<1>8. /\ Accounts!Away \in Accounts!Visit /\ Accounts!Away.at = "idle"
  BY DEF Accounts!Away, Accounts!Visit
<1>9. /\ visit' \in [Visitor -> Accounts!Visit] /\ visit'[v].at = "idle"
      /\ \A w \in Visitor \ {v} : visit'[w] = visit[w]
  BY <1>5, <1>8, VisitEnds
<1>10. Accounts!Known' = Accounts!Known
  BY <1>2, <1>3, <1>6, <1>7 DEF Accounts!Known
<1>11. \A u \in Accounts!Known : u \in User /\ user'[u].email = user[u].email
  BY <1>6, <1>7 DEF Accounts!Known
<1>12. \A m : Accounts!WithEmail(m)' = Accounts!WithEmail(m)
  BY <1>10, <1>11 DEF Accounts!WithEmail
<1>13. Accounts!TypeOK'
  BY <1>5, <1>7, <1>9 DEF Accounts!TypeOK
<1>14. Accounts!VerifiedHasIdentity'
  BY <1>2, <1>5, <1>7, <1>10, <1>11 DEF Accounts!VerifiedHasIdentity
<1>15. Accounts!ConsentsOfUsers' /\ Accounts!EveryoneIsReachable'
  BY <1>5, <1>10 DEF Accounts!ConsentsOfUsers, Accounts!EveryoneIsReachable
<1>16. Accounts!IdentityMatchesMail' /\ Accounts!MailsAreUnique'
  BY <1>5, <1>10, <1>11 DEF Accounts!IdentityMatchesMail, Accounts!MailsAreUnique
<1>17. Accounts!FindingsStand'
  BY <1>5, <1>9, <1>10, <1>12 DEF Accounts!FindingsStand
<1> QED
  BY <1>13, <1>14, <1>15, <1>16, <1>17

LEMMA AccountsStep ==
    Accounts!AccountsInv /\ [Accounts!Next]_av =>
      /\ Accounts!AccountsInv'
      /\ \A s \in Accounts!Sub : identity[s] # None => identity'[s] = identity[s]
<1> SUFFICES ASSUME Accounts!AccountsInv, [Accounts!Next]_av
             PROVE  /\ Accounts!AccountsInv'
                    /\ \A s \in Accounts!Sub :
                         identity[s] # None => identity'[s] = identity[s]
  OBVIOUS
<1>1. CASE UNCHANGED av
  BY <1>1, ConsentsMove DEF av, Accounts!AccountsInv, Accounts!ConsentsOfUsers
<1>2. CASE \/ Accounts!ConsentExpires
           \/ \E s \in {"google"} \cup User : Accounts!Initiate(s)
  <2>1. consents' \subseteq {"google"} \cup Accounts!Known
    BY <1>2 DEF Accounts!AccountsInv, Accounts!ConsentsOfUsers,
                Accounts!ConsentExpires, Accounts!Initiate
  <2>2. UNCHANGED <<user, identity, dan, visit>>
    BY <1>2 DEF Accounts!ConsentExpires, Accounts!Initiate
  <2> QED
    BY <2>1, <2>2, ConsentsMove
<1>3. ASSUME NEW v \in Visitor,
             \/ Accounts!FindByEmail(v) \/ Accounts!CheckNationalId(v)
             \/ Accounts!VisitFails(v)
             \/ \E p \in Phone : Accounts!FindByPhone(v, p)
             \/ \E g \in Google : Accounts!CompleteGoogle(v, g)
             \/ \E u \in User, n \in NationalId : Accounts!CompleteDan(v, u, n)
      PROVE  Accounts!AccountsInv' /\ UNCHANGED identity
  BY <1>3, LookUpStep
    DEF Accounts!FindByEmail, Accounts!CheckNationalId, Accounts!VisitFails,
        Accounts!FindByPhone, Accounts!CompleteGoogle, Accounts!CompleteDan
<1>4. ASSUME NEW v \in Visitor, Accounts!UpsertDan(v) \/ Accounts!MarkDanVerified(v)
      PROVE  Accounts!AccountsInv' /\ UNCHANGED identity
  BY <1>4, UpsertStep, MarkStep DEF Accounts!UpsertDan, Accounts!MarkDanVerified
<1> QED
  BY <1>1, <1>2, <1>3, <1>4, LinkStep, CreateStep DEF Accounts!Next

LEMMA AccountsIsInv == Spec => []Accounts!AccountsInv
<1>1. Init => Accounts!Init
  BY DEF Init
<1>2. [Next]_vars => [Accounts!Next]_av
  BY DEF Next, vars, av
<1>3. Accounts!AccountsInv /\ [Accounts!Next]_av => Accounts!AccountsInv'
  BY AccountsStep
<1> QED
  BY <1>1, <1>2, <1>3, AccountsInit, PTL DEF Spec

\* A user of tier 2 has a DAN verification on record and no two users share a
\* national id, whatever completeDan handlers overlap or fail half way.
THEOREM TierTwoIsVerified == Spec => []VerifiedHasIdentity
<1>1. Accounts!AccountsInv => VerifiedHasIdentity
  BY DEF Accounts!AccountsInv, VerifiedHasIdentity
<1> QED
  BY <1>1, AccountsIsInv, PTL

\* A sign-in method leads to one user for good, and every user can be reached
\* by one (linkIdentity's upsert, create's two inserts in one statement).
THEOREM IdentitiesStay == Spec => IdentitiesAreStable
<1> DEFINE Stable ==
      /\ \A s \in Accounts!Sub : identity[s] # None => identity'[s] = identity[s]
      /\ \A u \in User : user'[u] # None => \E s \in Accounts!Sub : identity'[s] = u
<1>1. Accounts!AccountsInv /\ [Accounts!Next]_av => [Stable]_av
  <2> SUFFICES ASSUME Accounts!AccountsInv, [Accounts!Next]_av PROVE Stable
    OBVIOUS
  <2>1. Accounts!AccountsInv'
    BY AccountsStep
  <2>2. \A u \in User : user'[u] # None => \E s \in Accounts!Sub : identity'[s] = u
    BY <2>1 DEF Accounts!AccountsInv, Accounts!EveryoneIsReachable, Accounts!Known
  <2> QED
    BY <2>2, AccountsStep
<1>2. [Next]_vars => [Accounts!Next]_av
  BY DEF Next, vars, av
<1>3. [Stable]_av => [Stable]_(Accounts!accountVars)
  BY DEF av, Accounts!accountVars
<1>4. Spec => [][Stable]_(Accounts!accountVars)
  BY <1>1, <1>2, <1>3, AccountsIsInv, PTL DEF Spec
<1> QED
  BY <1>4 DEF IdentitiesAreStable, Accounts!IdentitiesAreStable

(***************************************************************************)
(* SignIn                                                                  *)
(***************************************************************************)
LEMMA PagesInit == SignIn!Init => SignIn!PagesInv
<1> SUFFICES ASSUME SignIn!Init PROVE SignIn!PagesInv
  OBVIOUS
<1> QED
  BY DEF SignIn!Init, SignIn!PagesInv, SignIn!TypeOK, SignIn!CodesAreSent,
         SignIn!AnswersAreKeptByKey, SignIn!PhoneOrNone, SignIn!NoRequest,
         SignIn!NoAsk, SignIn!OtpRequest, SignIn!BannerQuery

\* The mutation of the login page follows its box, and outlives the page.
LEMMA RequestFollows ==
    ASSUME SignIn!PagesInv,
           \/ SignIn!Show("app") \/ SignIn!Show("login")
           \/ \E p \in Customer : request' = SignIn!Typed(p)
    PROVE  /\ request' \in SignIn!OtpRequest
           /\ request' # SignIn!NoRequest =>
                request'.asked \in Customer /\ request'.shown \in Customer
<1>1. PICK r \in SignIn!OtpRequest : r = request
  BY DEF SignIn!PagesInv, SignIn!TypeOK
<1>2. r # SignIn!NoRequest => r.asked \in Customer /\ r.shown \in Customer
  BY <1>1 DEF SignIn!PagesInv, SignIn!CodesAreSent
<1>3. CASE request' = [r EXCEPT !.there = FALSE]
  <2>1. /\ request' \in SignIn!OtpRequest
        /\ request'.asked = r.asked /\ request'.shown = r.shown
    BY <1>3 DEF SignIn!OtpRequest
  <2>2. r = SignIn!NoRequest => request' = SignIn!NoRequest
    <3>1. r = SignIn!NoRequest => r.asked = None /\ r.shown = None
      BY DEF SignIn!NoRequest
    <3>2. request'.there = FALSE
      BY <1>3 DEF SignIn!OtpRequest
    <3> QED
      BY <2>1, <3>1, <3>2 DEF SignIn!OtpRequest, SignIn!NoRequest
  <2> QED
    BY <1>2, <2>1, <2>2
<1>4. ASSUME NEW p \in Customer, r.there, request' = [r EXCEPT !.shown = p]
      PROVE  /\ request' \in SignIn!OtpRequest
             /\ request' # SignIn!NoRequest =>
                  request'.asked \in Customer /\ request'.shown \in Customer
  BY <1>2, <1>4 DEF SignIn!OtpRequest, SignIn!NoRequest, SignIn!PhoneOrNone
<1>5. CASE request' = r
  BY <1>2, <1>5
<1> QED
  BY <1>1, <1>3, <1>4, <1>5 DEF SignIn!Show, SignIn!Typed

\* Signing in or out while the banner asks is what crossed remembers.
LEMMA BannerAnswers ==
    ASSUME SignIn!PagesInv, NEW s, SignIn!Signed(s), UNCHANGED <<banner, bannerAsk>>
    PROVE  /\ SignIn!AnswersAreKeptByKey'
           /\ crossed' \in BOOLEAN /\ signedIn' = s
<1>1. /\ crossed' = (crossed \/ bannerAsk # SignIn!NoAsk)
      /\ crossed \in BOOLEAN /\ signedIn' = s
  BY DEF SignIn!PagesInv, SignIn!TypeOK, SignIn!Signed
<1> QED
  BY <1>1 DEF SignIn!PagesInv, SignIn!AnswersAreKeptByKey

LEMMA PagesStep == SignIn!PagesInv /\ [SignIn!Next]_gv => SignIn!PagesInv'
<1> SUFFICES ASSUME SignIn!PagesInv, [SignIn!Next]_gv PROVE SignIn!PagesInv'
  OBVIOUS
<1> USE DEF SignIn!PagesInv, SignIn!TypeOK, SignIn!CodesAreSent,
            SignIn!PhoneOrNone
<1>1. CASE UNCHANGED gv
  BY <1>1 DEF gv, SignIn!AnswersAreKeptByKey
<1>2. ASSUME NEW p \in Customer, SignIn!Type(p)
      PROVE  SignIn!PagesInv'
  <2>1. /\ request' \in SignIn!OtpRequest
        /\ request' # SignIn!NoRequest =>
             request'.asked \in Customer /\ request'.shown \in Customer
    BY <1>2, RequestFollows DEF SignIn!Type
  <2> QED
    BY <1>2, <2>1 DEF SignIn!Type, SignIn!AnswersAreKeptByKey
<1>3. CASE SignIn!RequestOtp
  BY <1>3 DEF SignIn!RequestOtp,
         SignIn!AnswersAreKeptByKey, SignIn!NoRequest, SignIn!NoAsk,
         SignIn!OtpRequest, SignIn!BannerQuery
<1>4. CASE SignIn!OtpRequested
  BY <1>4 DEF SignIn!OtpRequested,
         SignIn!AnswersAreKeptByKey, SignIn!NoRequest, SignIn!NoAsk,
         SignIn!OtpRequest, SignIn!BannerQuery
<1>5. CASE SignIn!OtpNotRequested
  BY <1>5 DEF SignIn!OtpNotRequested,
         SignIn!AnswersAreKeptByKey, SignIn!NoRequest, SignIn!NoAsk,
         SignIn!OtpRequest, SignIn!BannerQuery
<1>6. CASE SignIn!Resend
  BY <1>6 DEF SignIn!Resend, SignIn!AnswersAreKeptByKey
<1>7. CASE SignIn!LoginWithOtp
  BY <1>7 DEF SignIn!LoginWithOtp, SignIn!AnswersAreKeptByKey
<1>8. CASE SignIn!LoggedIn
  <2>1. /\ request' \in SignIn!OtpRequest
        /\ request' # SignIn!NoRequest =>
             request'.asked \in Customer /\ request'.shown \in Customer
    BY <1>8, RequestFollows DEF SignIn!LoggedIn
  <2>2. /\ SignIn!AnswersAreKeptByKey'
        /\ crossed' \in BOOLEAN /\ signedIn' = verifying
    BY <1>8, BannerAnswers DEF SignIn!LoggedIn
  <2> QED
    BY <1>8, <2>1, <2>2 DEF SignIn!LoggedIn, SignIn!Show
<1>9. CASE SignIn!NotLoggedIn
  BY <1>9 DEF SignIn!NotLoggedIn, SignIn!AnswersAreKeptByKey
<1>10. CASE SignIn!Back
  <2>1. /\ request' \in SignIn!OtpRequest
        /\ request' # SignIn!NoRequest =>
             request'.asked \in Customer /\ request'.shown \in Customer
    BY <1>10, RequestFollows DEF SignIn!Back
  <2> QED
    BY <1>10, <2>1 DEF SignIn!Back, SignIn!Show, SignIn!AnswersAreKeptByKey
<1>11. CASE SignIn!ClearSession
  <2>1. /\ SignIn!AnswersAreKeptByKey'
        /\ crossed' \in BOOLEAN /\ signedIn' = None
    BY <1>11, BannerAnswers DEF SignIn!ClearSession
  <2> QED
    BY <1>11, <2>1 DEF SignIn!ClearSession
<1>12. CASE SignIn!Redirect
  <2>1. /\ request' \in SignIn!OtpRequest
        /\ request' # SignIn!NoRequest =>
             request'.asked \in Customer /\ request'.shown \in Customer
    BY <1>12, RequestFollows DEF SignIn!Redirect
  <2> QED
    BY <1>12, <2>1 DEF SignIn!Redirect, SignIn!Show, SignIn!AnswersAreKeptByKey
<1>13. CASE SignIn!Load
  BY <1>13 DEF SignIn!Load,
         SignIn!AnswersAreKeptByKey, SignIn!NoRequest, SignIn!NoAsk,
         SignIn!OtpRequest, SignIn!BannerQuery
<1>14. CASE SignIn!AskBanner
  BY <1>14 DEF SignIn!AskBanner, SignIn!Key,
         SignIn!AnswersAreKeptByKey, SignIn!NoRequest, SignIn!NoAsk,
         SignIn!OtpRequest, SignIn!BannerQuery
<1>15. CASE SignIn!BannerRead
  BY <1>15 DEF SignIn!BannerRead,
         SignIn!AnswersAreKeptByKey, SignIn!NoRequest, SignIn!NoAsk,
         SignIn!OtpRequest, SignIn!BannerQuery
<1>16. CASE SignIn!BannerFails
  BY <1>16 DEF SignIn!BannerFails,
         SignIn!AnswersAreKeptByKey, SignIn!NoRequest, SignIn!NoAsk,
         SignIn!OtpRequest, SignIn!BannerQuery
<1>17. CASE SignIn!CollectBanner
  BY <1>17 DEF SignIn!CollectBanner,
         SignIn!AnswersAreKeptByKey, SignIn!NoRequest, SignIn!NoAsk,
         SignIn!OtpRequest, SignIn!BannerQuery
<1> QED
  BY <1>1, <1>2, <1>3, <1>4, <1>5, <1>6, <1>7, <1>8, <1>9, <1>10, <1>11, <1>12,
     <1>13, <1>14, <1>15, <1>16, <1>17
    DEF SignIn!Next

LEMMA PagesIsInv == Spec => []SignIn!PagesInv
<1>1. Init => SignIn!Init
  BY DEF Init
<1>2. [Next]_vars => [SignIn!Next]_gv
  BY DEF Next, vars, gv
<1> QED
  BY <1>1, <1>2, PagesInit, PagesStep, PTL DEF Spec

\* The OTP page asks for the code of a phone one was sent to, and the banner
\* never shows the rental of another customer of the tab, unless the phone was
\* edited under way or a query outlived its session.
THEOREM PagesAreOfTheirCustomer == Spec => []PagesNameTheirCustomer
<1>1. SignIn!PagesInv => PagesNameTheirCustomer
  BY DEF SignIn!PagesInv, PagesNameTheirCustomer, SignIn!PagesNameTheirCustomer,
         SignIn!CodesAreSent, SignIn!AnswersAreKeptByKey, SignIn!TypeOK, SignIn!Key
<1> QED
  BY <1>1, PagesIsInv, PTL

(***************************************************************************)
(* Heartbeats                                                              *)
(***************************************************************************)
LEMMA TimeFacts ==
    /\ MaxTime \in Nat /\ HeartbeatTimeout \in Nat
    /\ None \notin Heartbeats!Time
    /\ \A t \in Heartbeats!Time : t \in Int
BY PartsAssumption DEF Heartbeats!Time

LEMMA OnlineInit == Heartbeats!Init => Heartbeats!OnlineInv
<1> SUFFICES ASSUME Heartbeats!Init PROVE Heartbeats!OnlineInv
  OBVIOUS
<1>1. 0 \in Heartbeats!Time
  BY TimeFacts DEF Heartbeats!Time
<1>2. Heartbeats!TypeOK
  BY <1>1 DEF Heartbeats!Init, Heartbeats!TypeOK
<1> QED
  BY <1>2 DEF Heartbeats!Init, Heartbeats!OnlineInv, Heartbeats!SpokenBefore,
              Heartbeats!TimesAreHeard

\* What a cabinet has said stays said.
LEMMA HeardStays ==
    ASSUME Heartbeats!OnlineInv, now' = now,
           spoke' \in [Cabinet -> Heartbeats!Time \cup {None}],
           undated' \in [Cabinet -> Heartbeats!Time \cup {None}],
           \A c \in Cabinet : spoke'[c] = spoke[c] \/ spoke'[c] = now,
           \A c \in Cabinet : undated'[c] = undated[c] \/ undated'[c] = now
    PROVE  /\ \A c \in Cabinet, t \in Heartbeats!Time :
                Heartbeats!Heard(c, t) => Heartbeats!Heard(c, t)'
           /\ Heartbeats!SpokenBefore'
<1>1. /\ now \in Heartbeats!Time /\ now # None
      /\ spoke \in [Cabinet -> Heartbeats!Time \cup {None}]
      /\ undated \in [Cabinet -> Heartbeats!Time \cup {None}]
      /\ Heartbeats!SpokenBefore
  BY TimeFacts DEF Heartbeats!OnlineInv, Heartbeats!TypeOK
<1>2. Heartbeats!SpokenBefore'
  BY <1>1, TimeFacts DEF Heartbeats!SpokenBefore
<1>3. ASSUME NEW c \in Cabinet, NEW t \in Heartbeats!Time, Heartbeats!Heard(c, t)
      PROVE  Heartbeats!Heard(c, t)'
  BY <1>1, <1>3, TimeFacts DEF Heartbeats!Heard, Heartbeats!SpokenBefore
<1> QED
  BY <1>2, <1>3

LEMMA OnlineStep == Heartbeats!OnlineInv /\ [Heartbeats!Next]_hv => Heartbeats!OnlineInv'
<1> SUFFICES ASSUME Heartbeats!OnlineInv, [Heartbeats!Next]_hv PROVE Heartbeats!OnlineInv'
  OBVIOUS
<1> USE DEF Heartbeats!OnlineInv
<1>1. CASE UNCHANGED hv
  BY <1>1 DEF hv, Heartbeats!TypeOK, Heartbeats!SpokenBefore,
              Heartbeats!TimesAreHeard, Heartbeats!Heard
<1>2. CASE Heartbeats!Tick
  <2>1. /\ now' = now + 1 /\ now' \in Heartbeats!Time
        /\ now \in Heartbeats!Time
        /\ UNCHANGED <<mqttDeviceId, lastHeartbeatAt, heartbeats, touching,
                       inTransit, spoke, undated, assigned>>
    BY <1>2, TimeFacts DEF Heartbeats!Tick, Heartbeats!TypeOK, Heartbeats!Time
  <2>2. Heartbeats!TypeOK'
    BY <2>1 DEF Heartbeats!TypeOK
  <2>3. ASSUME NEW x \in Heartbeats!Time \cup {None}, x # None => x <= now
        PROVE  x # None => x <= now'
    BY <2>1, <2>3, TimeFacts
  <2>4. Heartbeats!SpokenBefore'
    BY <2>1, <2>3 DEF Heartbeats!TypeOK, Heartbeats!SpokenBefore
  <2> QED
    BY <2>1, <2>2, <2>4 DEF Heartbeats!TimesAreHeard, Heartbeats!Heard
<1>3. CASE Heartbeats!Drop \/ Heartbeats!Restart
  <2>1. /\ inTransit' \subseteq inTransit /\ touching' \subseteq touching
        /\ \/ heartbeats' = heartbeats
           \/ heartbeats' = [c \in Cabinet |-> None]
        /\ UNCHANGED <<now, mqttDeviceId, lastHeartbeatAt, spoke, undated,
                       assigned>>
    BY <1>3 DEF Heartbeats!Drop, Heartbeats!Restart
  <2>2. Heartbeats!TypeOK' /\ Heartbeats!SpokenBefore'
    BY <2>1 DEF Heartbeats!TypeOK, Heartbeats!SpokenBefore
  <2> QED
    BY <2>1, <2>2 DEF Heartbeats!TimesAreHeard, Heartbeats!Heard
<1>4. ASSUME NEW c \in Cabinet, Heartbeats!AssignDevice(c)
      PROVE  Heartbeats!OnlineInv'
  <2>1. Heartbeats!TypeOK' /\ Heartbeats!SpokenBefore'
    BY <1>4 DEF Heartbeats!AssignDevice, Heartbeats!TypeOK, Heartbeats!SpokenBefore
  <2> QED
    BY <1>4, <2>1
      DEF Heartbeats!AssignDevice, Heartbeats!TimesAreHeard, Heartbeats!Heard
<1>5. ASSUME NEW c \in Cabinet, NEW dated \in BOOLEAN, Heartbeats!Publish(c, dated)
      PROVE  Heartbeats!OnlineInv'
  <2>1. PICK m : m = [from |-> c, sent |-> now, dated |-> dated]
    OBVIOUS
  <2>2. /\ inTransit' = inTransit \cup {m}
        /\ spoke' = [spoke EXCEPT ![c] = now]
        /\ UNCHANGED <<now, mqttDeviceId, lastHeartbeatAt, heartbeats,
                       touching, undated, assigned>>
    BY <1>5, <2>1 DEF Heartbeats!Publish
  <2>3. m \in Heartbeats!Message /\ m.from = c /\ m.sent = now
    BY <2>1 DEF Heartbeats!Message, Heartbeats!TypeOK
  <2>4. /\ spoke' \in [Cabinet -> Heartbeats!Time \cup {None}]
        /\ \A d \in Cabinet : spoke'[d] = spoke[d] \/ spoke'[d] = now
        /\ spoke'[c] = now /\ now \in Heartbeats!Time
    BY <2>2 DEF Heartbeats!TypeOK
  <2>5. /\ \A d \in Cabinet, t \in Heartbeats!Time :
             Heartbeats!Heard(d, t) => Heartbeats!Heard(d, t)'
        /\ Heartbeats!SpokenBefore'
    BY <2>2, <2>4, HeardStays DEF Heartbeats!TypeOK
  <2>6. Heartbeats!TypeOK'
    BY <2>2, <2>3, <2>4 DEF Heartbeats!TypeOK
  <2>7. Heartbeats!Heard(c, now)'
    BY <2>2, <2>4, TimeFacts DEF Heartbeats!Heard
  <2>8. Heartbeats!TimesAreHeard'
    BY <2>2, <2>3, <2>5, <2>6, <2>7
      DEF Heartbeats!TimesAreHeard, Heartbeats!TypeOK, Heartbeats!Message,
          Heartbeats!Touch
  <2> QED
    BY <2>2, <2>5, <2>6, <2>8
<1>6. ASSUME NEW m \in inTransit, Heartbeats!HandleMessage(m)
      PROVE  Heartbeats!OnlineInv'
  <2>1. PICK t : t = Heartbeats!SeenAt(m)
    OBVIOUS
  <2>2. PICK q : q = [from |-> m.from, seenAt |-> t]
    OBVIOUS
  <2>3. /\ heartbeats' = [heartbeats EXCEPT ![m.from] = t]
        /\ touching' = touching \cup {q}
        /\ undated' = IF m.dated THEN undated ELSE [undated EXCEPT ![m.from] = now]
        /\ inTransit' \subseteq inTransit
        /\ UNCHANGED <<now, mqttDeviceId, lastHeartbeatAt, spoke, assigned>>
    BY <1>6, <2>1, <2>2 DEF Heartbeats!HandleMessage
  <2>4. /\ m.from \in Cabinet /\ t \in Heartbeats!Time /\ q \in Heartbeats!Touch
        /\ q.from = m.from /\ q.seenAt = t /\ now \in Heartbeats!Time
        /\ t = IF m.dated THEN m.sent ELSE now
    BY <2>1, <2>2
      DEF Heartbeats!SeenAt, Heartbeats!TypeOK, Heartbeats!Message, Heartbeats!Touch
  <2>5. /\ undated' \in [Cabinet -> Heartbeats!Time \cup {None}]
        /\ \A d \in Cabinet : undated'[d] = undated[d] \/ undated'[d] = now
        /\ ~m.dated => undated'[m.from] = now
    BY <2>3, <2>4 DEF Heartbeats!TypeOK
  <2>6. /\ \A d \in Cabinet, x \in Heartbeats!Time :
             Heartbeats!Heard(d, x) => Heartbeats!Heard(d, x)'
        /\ Heartbeats!SpokenBefore'
    BY <2>3, <2>5, HeardStays DEF Heartbeats!TypeOK
  <2>7. Heartbeats!TypeOK'
    BY <2>3, <2>4, <2>5 DEF Heartbeats!TypeOK
  <2>8. Heartbeats!Heard(m.from, t)'
    <3>1. CASE m.dated
      BY <2>4, <2>6, <3>1 DEF Heartbeats!TimesAreHeard
    <3>2. CASE ~m.dated
      BY <2>3, <2>4, <2>5, <3>2, TimeFacts DEF Heartbeats!Heard
    <3> QED
      BY <3>1, <3>2
  <2>9. /\ \A x \in inTransit' : Heartbeats!Heard(x.from, x.sent)'
        /\ \A x \in touching' : Heartbeats!Heard(x.from, x.seenAt)'
    BY <2>3, <2>4, <2>6, <2>7, <2>8
      DEF Heartbeats!TimesAreHeard, Heartbeats!TypeOK, Heartbeats!Message,
          Heartbeats!Touch
  <2>10. \A c \in Cabinet :
           heartbeats'[c] # None => Heartbeats!Heard(c, heartbeats[c])'
    BY <2>3, <2>4, <2>6, <2>7, <2>8
      DEF Heartbeats!TimesAreHeard, Heartbeats!TypeOK
  <2>11. lastHeartbeatAt' # None =>
           \E c \in assigned' : Heartbeats!Heard(c, lastHeartbeatAt)'
    BY <2>3, <2>6 DEF Heartbeats!TimesAreHeard, Heartbeats!TypeOK
  <2> QED
    BY <2>3, <2>6, <2>7, <2>9, <2>10, <2>11 DEF Heartbeats!TimesAreHeard
<1>7. ASSUME NEW t \in touching, Heartbeats!TouchHeartbeat(t)
      PROVE  Heartbeats!OnlineInv'
  <2>1. /\ touching' \subseteq touching
        /\ \/ lastHeartbeatAt' = lastHeartbeatAt
           \/ mqttDeviceId = t.from /\ lastHeartbeatAt' = t.seenAt
        /\ UNCHANGED <<now, mqttDeviceId, heartbeats, inTransit, spoke, undated,
                       assigned>>
    BY <1>7 DEF Heartbeats!TouchHeartbeat, Heartbeats!StationOf
  <2>2. t.from \in Cabinet /\ t.seenAt \in Heartbeats!Time
    BY DEF Heartbeats!TypeOK, Heartbeats!Touch
  <2>3. Heartbeats!TypeOK' /\ Heartbeats!SpokenBefore'
    BY <2>1, <2>2 DEF Heartbeats!TypeOK, Heartbeats!SpokenBefore
  <2>4. lastHeartbeatAt' # None =>
          \E c \in assigned : Heartbeats!Heard(c, lastHeartbeatAt')
    <3>1. CASE lastHeartbeatAt' = lastHeartbeatAt
      BY <3>1 DEF Heartbeats!TimesAreHeard
    <3>2. CASE mqttDeviceId = t.from /\ lastHeartbeatAt' = t.seenAt
      <4>1. t.from # None
        BY <2>2, PartsAssumption
      <4> QED
        BY <3>2, <4>1 DEF Heartbeats!TimesAreHeard
    <3> QED
      BY <2>1, <3>1, <3>2
  <2> QED
    BY <2>1, <2>3, <2>4 DEF Heartbeats!TimesAreHeard, Heartbeats!Heard
<1> QED
  BY <1>1, <1>2, <1>3, <1>4, <1>5, <1>6, <1>7 DEF Heartbeats!Next

LEMMA OnlineIsInv == Spec => []Heartbeats!OnlineInv
<1>1. Init => Heartbeats!Init
  BY DEF Init
<1>2. [Next]_vars => [Heartbeats!Next]_hv
  BY DEF Next, vars, hv
<1> QED
  BY <1>1, <1>2, OnlineInit, OnlineStep, PTL DEF Spec

\* A silent cabinet goes offline, however late, repeated or reordered its
\* messages arrive and whenever the process restarts (recordCabinetSeen,
\* touchHeartbeat, isOnline, requireOnlineCabinet).
THEOREM OnlineMeansAlive == Spec => []NoFalseOnline
<1>1. ASSUME Heartbeats!OnlineInv PROVE NoFalseOnline
  <2> USE DEF Heartbeats!OnlineInv
  <2>1. /\ now \in Heartbeats!Time /\ assigned \subseteq Cabinet
        /\ spoke \in [Cabinet -> Heartbeats!Time \cup {None}]
        /\ undated \in [Cabinet -> Heartbeats!Time \cup {None}]
    BY <1>1 DEF Heartbeats!TypeOK
  <2>2. ASSUME NEW c \in Cabinet, NEW t \in Heartbeats!Time,
               Heartbeats!Heard(c, t), Heartbeats!Recent(t)
        PROVE  Heartbeats!Alive(c)
    BY <2>1, <2>2, TimeFacts
      DEF Heartbeats!Heard, Heartbeats!Recent, Heartbeats!Alive
  <2>3. Heartbeats!Recent(lastHeartbeatAt) =>
          \E c \in assigned : Heartbeats!Alive(c)
    BY <1>1, <2>1, <2>2
      DEF Heartbeats!TypeOK, Heartbeats!TimesAreHeard, Heartbeats!Recent
  <2>4. ASSUME mqttDeviceId # None, heartbeats[mqttDeviceId] # None,
               Heartbeats!Recent(heartbeats[mqttDeviceId])
        PROVE  mqttDeviceId \in assigned /\ Heartbeats!Alive(mqttDeviceId)
    BY <1>1, <2>1, <2>2, <2>4 DEF Heartbeats!TypeOK, Heartbeats!TimesAreHeard
  <2> QED
    BY <2>3, <2>4
      DEF NoFalseOnline, Heartbeats!NoFalseOnline, Heartbeats!IsOnline,
          Heartbeats!RequireOnlineCabinet
<1> QED
  BY <1>1, OnlineIsInv, PTL

(***************************************************************************)
(* StationEditor                                                           *)
(***************************************************************************)
LEMMA EditorInit == StationEditor!Init => StationEditor!EditorInv
<1> SUFFICES ASSUME StationEditor!Init PROVE StationEditor!EditorInv
  OBVIOUS
<1>0. /\ None \notin Station /\ MaxVersion \in Nat \ {0}
      /\ Station \cap {"list", "create"} = {}
  BY PartsAssumption DEF PartsAssumption
<1> USE <1>0
      DEF StationEditor!Init, StationEditor!Version, StationEditor!Blank,
          StationEditor!NotSaving, StationEditor!NotDeleting
<1>1. form \in StationEditor!Form /\ saving \in StationEditor!Save
      /\ deleting \in StationEditor!Delete
  BY DEF StationEditor!Form, StationEditor!Save, StationEditor!Delete
<1>2. rows \in [Station -> StationEditor!Version] /\ list = rows
      /\ slotted \subseteq Station /\ told = {}
  OBVIOUS
<1>3. StationEditor!TypeOK
  <2>1. route \in {"list", "create"} \cup Station /\ landing \in BOOLEAN
    OBVIOUS
  <2> QED
    BY <1>1, <1>2, <2>1 DEF StationEditor!TypeOK
<1>4. StationEditor!ListIsBehind
  BY <1>2 DEF StationEditor!ListIsBehind
<1> QED
  BY <1>2, <1>3, <1>4
    DEF StationEditor!EditorInv, StationEditor!SavesTheStationShown,
        StationEditor!CreatedIsWhole, StationEditor!FormIsOfTheRoute,
        StationEditor!RequestsNameStations

LEMMA EditorStep == StationEditor!EditorInv /\ [StationEditor!Next]_ev => StationEditor!EditorInv'
<1> SUFFICES ASSUME StationEditor!EditorInv, [StationEditor!Next]_ev PROVE StationEditor!EditorInv'
  OBVIOUS
<1>0. /\ None \notin Station /\ MaxVersion \in Nat \ {0}
      /\ Station \cap {"list", "create"} = {}
  BY PartsAssumption DEF PartsAssumption
<1> USE <1>0 DEF StationEditor!EditorInv, StationEditor!TypeOK,
            StationEditor!SavesTheStationShown, StationEditor!CreatedIsWhole,
            StationEditor!ListIsBehind, StationEditor!FormIsOfTheRoute,
            StationEditor!RequestsNameStations, StationEditor!Version,
            StationEditor!Form, StationEditor!Save, StationEditor!Delete,
            StationEditor!Blank, StationEditor!NotSaving,
            StationEditor!NotDeleting
<1>1. CASE UNCHANGED ev
  BY <1>1 DEF ev
<1>2. CASE StationEditor!Edit
  <2>1. /\ form' \in StationEditor!Form
        /\ form'.of = form.of /\ form'.ver = form.ver /\ form'.edited = TRUE
        /\ route # "list"
        /\ UNCHANGED <<rows, slotted, list, route, landing, saving, deleting, told>>
    BY <1>2 DEF StationEditor!Edit
  <2>2. StationEditor!TypeOK' /\ StationEditor!ListIsBehind'
    BY <2>1
  <2>3. /\ StationEditor!SavesTheStationShown' /\ StationEditor!CreatedIsWhole'
        /\ StationEditor!RequestsNameStations' /\ StationEditor!FormIsOfTheRoute'
    BY <2>1
  <2> QED
    BY <2>2, <2>3
<1>3. CASE StationEditor!ResetEditor
  BY <1>3 DEF StationEditor!ResetEditor, StationEditor!Filled, StationEditor!Selected
<1>4. CASE StationEditor!Submit
  BY <1>4 DEF StationEditor!Submit, StationEditor!Selected
<1>5. CASE StationEditor!Update
  BY <1>5 DEF StationEditor!Update
<1>6. CASE StationEditor!InsertStation
  <2>1. StationEditor!TypeOK'
    <3>1. PICK s \in Station : saving' = [saving EXCEPT !.at = "slots", !.target = s]
      BY <1>6 DEF StationEditor!InsertStation, StationEditor!AfterInsert
    <3>2. saving' \in StationEditor!Save
      BY <3>1
    <3>3. rows' \in [Station -> StationEditor!Version]
      BY <1>6 DEF StationEditor!InsertStation
    <3> QED
      BY <1>6, <3>2, <3>3 DEF StationEditor!InsertStation
  <2>2. /\ StationEditor!SavesTheStationShown' /\ StationEditor!CreatedIsWhole'
        /\ StationEditor!RequestsNameStations'
    BY <1>6 DEF StationEditor!InsertStation, StationEditor!AfterInsert
  <2>3. StationEditor!ListIsBehind'
    BY <1>6 DEF StationEditor!InsertStation, StationEditor!AfterInsert
  <2>4. StationEditor!FormIsOfTheRoute'
    BY <1>6 DEF StationEditor!InsertStation, StationEditor!AfterInsert
  <2> QED
    BY <2>1, <2>2, <2>3, <2>4
<1>7. CASE StationEditor!CreateSlots
  <2>1. /\ saving.at = "slots" /\ saving.target \in Station
        /\ slotted' = slotted \cup {saving.target}
        /\ UNCHANGED <<rows, list, route, landing, form, deleting, told>>
    BY <1>7 DEF StationEditor!CreateSlots
  <2>2. /\ saving' \in StationEditor!Save /\ saving'.at = "answer"
        /\ saving'.target = saving.target
    BY <1>7 DEF StationEditor!CreateSlots
  <2>3. StationEditor!TypeOK' /\ StationEditor!ListIsBehind'
    BY <2>1, <2>2
  <2>4. /\ StationEditor!SavesTheStationShown' /\ StationEditor!CreatedIsWhole'
        /\ StationEditor!RequestsNameStations' /\ StationEditor!FormIsOfTheRoute'
    BY <2>1, <2>2
  <2> QED
    BY <2>3, <2>4
<1>8. CASE StationEditor!SaveFails
  <2>1. UNCHANGED <<rows, slotted, list, route, landing, form, deleting, told>>
    BY <1>8 DEF StationEditor!SaveFails
  <2>2. saving' \in StationEditor!Save /\ saving'.at = "error"
    <3>1. /\ saving' = [StationEditor!NotSaving EXCEPT !.at = "error"]
          /\ StationEditor!NotSaving \in StationEditor!Save
      BY <1>8 DEF StationEditor!SaveFails
    <3> QED
      BY <3>1
  <2>3. StationEditor!TypeOK' /\ StationEditor!ListIsBehind'
    BY <2>1, <2>2
  <2>4. /\ StationEditor!SavesTheStationShown' /\ StationEditor!CreatedIsWhole'
        /\ StationEditor!RequestsNameStations' /\ StationEditor!FormIsOfTheRoute'
    BY <2>1, <2>2
  <2> QED
    BY <2>3, <2>4
<1>9. CASE StationEditor!SaveSucceeds
  <2>1. StationEditor!TypeOK'
    BY <1>9 DEF StationEditor!SaveSucceeds
  <2>2. /\ StationEditor!SavesTheStationShown' /\ StationEditor!CreatedIsWhole'
        /\ StationEditor!RequestsNameStations'
    BY <1>9 DEF StationEditor!SaveSucceeds
  <2>3. StationEditor!ListIsBehind'
    BY <1>9 DEF StationEditor!SaveSucceeds
  <2>4. StationEditor!FormIsOfTheRoute'
    BY <1>9 DEF StationEditor!SaveSucceeds
  <2> QED
    BY <2>1, <2>2, <2>3, <2>4
<1>10. CASE StationEditor!SoftDelete
  BY <1>10 DEF StationEditor!SoftDelete
<1>11. CASE StationEditor!DeleteFails
  BY <1>11 DEF StationEditor!DeleteFails
<1>12. CASE StationEditor!DeleteSucceeds
  <2>1. StationEditor!TypeOK'
    BY <1>12 DEF StationEditor!DeleteSucceeds
  <2>2. /\ StationEditor!SavesTheStationShown' /\ StationEditor!CreatedIsWhole'
        /\ StationEditor!RequestsNameStations'
    BY <1>12 DEF StationEditor!DeleteSucceeds
  <2>3. StationEditor!ListIsBehind'
    BY <1>12 DEF StationEditor!DeleteSucceeds
  <2>4. StationEditor!FormIsOfTheRoute'
    BY <1>12 DEF StationEditor!DeleteSucceeds
  <2> QED
    BY <2>1, <2>2, <2>3, <2>4
<1>13. CASE StationEditor!Lands
  <2>1. StationEditor!TypeOK' /\ StationEditor!ListIsBehind'
    BY <1>13 DEF StationEditor!Lands
  <2>2. /\ StationEditor!SavesTheStationShown' /\ StationEditor!CreatedIsWhole'
        /\ StationEditor!RequestsNameStations' /\ StationEditor!FormIsOfTheRoute'
    BY <1>13 DEF StationEditor!Lands
  <2> QED
    BY <2>1, <2>2
<1>14. CASE StationEditor!Refetch
  <2>1. /\ list' = rows
        /\ UNCHANGED <<rows, slotted, route, landing, saving, deleting, told>>
    BY <1>14 DEF StationEditor!Refetch
  <2>2. \A s \in Station : list[s] > 0 => rows[s] > 0
    OBVIOUS
  <2>3. CASE form' = form /\ (route \in Station => rows[route] = list[route])
    BY <2>1, <2>3
  <2>4. CASE route \in Station /\ form' = StationEditor!Filled(route, rows)
    <3>1. form' \in StationEditor!Form
      BY <2>4 DEF StationEditor!Filled
    <3>2. form'.of = route /\ form'.ver = rows[route]
      BY <2>4 DEF StationEditor!Filled
    <3>3. StationEditor!TypeOK' /\ StationEditor!ListIsBehind'
      BY <2>1, <3>1
    <3>4. /\ StationEditor!SavesTheStationShown' /\ StationEditor!CreatedIsWhole'
          /\ StationEditor!RequestsNameStations'
      BY <2>1
    <3>5. StationEditor!FormIsOfTheRoute'
      BY <2>1, <2>2, <2>4, <3>2
    <3> QED
      BY <3>3, <3>4, <3>5
  <2> QED
    BY <1>14, <2>2, <2>3, <2>4
      DEF StationEditor!Refetch, StationEditor!ResetForm, StationEditor!Selected
<1>15. ASSUME NEW r \in {"list", "create"} \cup Station, StationEditor!Navigate(r)
      PROVE  StationEditor!EditorInv'
  <2>0. /\ form' = StationEditor!ResetForm(r, list)
        /\ route' = r /\ landing' = FALSE
        /\ UNCHANGED <<rows, slotted, list, saving, deleting, told>>
    BY <1>15 DEF StationEditor!Navigate
  <2>1. StationEditor!TypeOK'
    <3>1. form' \in StationEditor!Form
      BY <2>0 DEF StationEditor!ResetForm, StationEditor!Filled,
         StationEditor!Selected
    <3> QED
      BY <2>0, <3>1
  <2>2. /\ StationEditor!SavesTheStationShown' /\ StationEditor!CreatedIsWhole'
        /\ StationEditor!RequestsNameStations'
    BY <1>15 DEF StationEditor!Navigate, StationEditor!ResetForm, StationEditor!Filled,
                 StationEditor!Selected
  <2>3. StationEditor!ListIsBehind'
    BY <1>15 DEF StationEditor!Navigate, StationEditor!ResetForm, StationEditor!Filled,
                 StationEditor!Selected
  <2>4. StationEditor!FormIsOfTheRoute'
    BY <1>15 DEF StationEditor!Navigate, StationEditor!ResetForm, StationEditor!Filled,
                 StationEditor!Selected
  <2> QED
    BY <2>1, <2>2, <2>3, <2>4
<1>16. ASSUME NEW s \in Station, StationEditor!PressDelete(s)
      PROVE  StationEditor!EditorInv'
  BY <1>16 DEF StationEditor!PressDelete, StationEditor!Selected
<1>17. ASSUME NEW s \in Station, StationEditor!OtherAdmin(s)
      PROVE  StationEditor!EditorInv'
  BY <1>17 DEF StationEditor!OtherAdmin
<1> QED
  BY <1>1, <1>2, <1>3, <1>4, <1>5, <1>6, <1>7, <1>8, <1>9, <1>10, <1>11, <1>12,
     <1>13, <1>14, <1>15, <1>16, <1>17
    DEF StationEditor!Next

LEMMA EditorIsInv == Spec => []StationEditor!EditorInv
<1>1. Init => StationEditor!Init
  BY DEF Init
<1>2. [Next]_vars => [StationEditor!Next]_ev
  BY DEF Next, vars, ev
<1> QED
  BY <1>1, <1>2, EditorInit, EditorStep, PTL DEF Spec

\* What the station editor saves was filled from the station it is saved to,
\* whatever mutation, refetch and navigation came in between (resetEditor and
\* the snapshot key of stations-screen.tsx).
THEOREM EditsReachTheirStation == Spec => []SavesTheStationShown
<1>1. StationEditor!EditorInv => SavesTheStationShown
  BY DEF StationEditor!EditorInv, SavesTheStationShown
<1> QED
  BY <1>1, EditorIsInv, PTL

\* A station the screen has reported as created has its slots, although they
\* are inserted by a statement of their own (StationsRepository.create).
THEOREM CreatedStationsAreWhole == Spec => []CreatedIsWhole
<1>1. StationEditor!EditorInv => CreatedIsWhole
  BY DEF StationEditor!EditorInv, CreatedIsWhole
<1> QED
  BY <1>1, EditorIsInv, PTL

(***************************************************************************)
(* ReturnPage                                                              *)
(***************************************************************************)
LEMMA SelectedIsListed ==
    ASSUME NEW l \in ReturnPage!Lists, NEW k \in Station \cup {None}
    PROVE  ReturnPage!Selected(l, k) \in Station \cup {None}
<1>1. CASE l = <<>>
  BY <1>1 DEF ReturnPage!Selected
<1>2. ASSUME NEW s \in Station, l = <<s>>
      PROVE  ReturnPage!Selected(l, k) \in Station \cup {None}
  BY <1>2 DEF ReturnPage!Selected
<1>3. ASSUME NEW s \in Station, NEW t \in Station, l = <<s, t>>
      PROVE  ReturnPage!Selected(l, k) \in Station \cup {None}
  BY <1>3 DEF ReturnPage!Selected
<1> QED
  BY <1>1, <1>2, <1>3 DEF ReturnPage!Lists

LEMMA SeenIsSight ==
    ASSUME ReturnPage!TypeOK
    PROVE  /\ ReturnPage!Seen \in ReturnPage!Sight
           /\ ReturnPage!Seen.rental = known
           /\ ReturnPage!Seen.to = ReturnPage!Selected(options, picked)
BY SelectedIsListed DEF ReturnPage!TypeOK, ReturnPage!Seen, ReturnPage!Sight

LEMMA ReceiptInit == ReturnPage!Init => ReturnPage!ReceiptInv
<1> SUFFICES ASSUME ReturnPage!Init PROVE ReturnPage!ReceiptInv
  OBVIOUS
<1> USE DEF ReturnPage!Init
<1>1. ReturnPage!Unpressed \in ReturnPage!Pressing /\ ReturnPage!Unpressed.at = "unused"
  BY DEF ReturnPage!Unpressed, ReturnPage!Pressing, ReturnPage!Unseen, ReturnPage!Sight
<1>2. presses \in [Tap -> ReturnPage!Pressing] /\ ReturnPage!Pressed = {}
  BY <1>1 DEF ReturnPage!Pressed
<1>3. options \in ReturnPage!Lists
  BY DEF ReturnPage!Lists
<1>4. ReturnPage!TypeOK
  BY <1>2, <1>3 DEF ReturnPage!TypeOK
<1> QED
  BY <1>2, <1>4
    DEF ReturnPage!ReceiptInv, ReturnPage!ReceiptIsOfARide,
        ReturnPage!PressIsSent, ReturnPage!CallbackSeesThePress

\* The page changes, the presses do not: a change their callback would see is
\* on record.
LEMMA PageMoves ==
    ASSUME ReturnPage!ReceiptInv, ReturnPage!TypeOK',
           UNCHANGED <<ride, presses, attached, receipt>>,
           meddled \subseteq meddled',
           attached # None /\ attached \notin meddled' =>
             /\ known' = known
             /\ ReturnPage!Selected(options', picked')
                  = ReturnPage!Selected(options, picked)
    PROVE  ReturnPage!ReceiptInv'
<1> USE DEF ReturnPage!ReceiptInv
<1>1. ReturnPage!Pressed' = ReturnPage!Pressed
  BY DEF ReturnPage!Pressed
<1>2. ReturnPage!ReceiptIsOfARide' /\ ReturnPage!PressIsSent'
  BY <1>1 DEF ReturnPage!ReceiptIsOfARide, ReturnPage!ReceiptNamesTheReturn,
              ReturnPage!PressIsSent
<1>3. ReturnPage!CallbackSeesThePress'
  <2> SUFFICES ASSUME NEW p \in ReturnPage!Pressed, p \notin meddled'
               PROVE  /\ ReturnPage!SeenByCallback(p)'.rental = presses[p].of
                      /\ ReturnPage!SeenByCallback(p)'.to = presses[p].to
    BY <1>1 DEF ReturnPage!CallbackSeesThePress
  <2>1. /\ ReturnPage!SeenByCallback(p).rental = presses[p].of
        /\ ReturnPage!SeenByCallback(p).to = presses[p].to
    BY DEF ReturnPage!CallbackSeesThePress
  <2>2. p # None
    BY PartsAssumption DEF ReturnPage!Pressed
  <2> QED
    BY <2>1, <2>2 DEF ReturnPage!SeenByCallback, ReturnPage!Seen
<1> QED
  BY <1>2, <1>3

\* A press keeps what it sent and what its callback sees, whatever becomes of it.
LEMMA PressesMove ==
    ASSUME ReturnPage!ReceiptInv, ReturnPage!TypeOK', ReturnPage!ReceiptIsOfARide',
           attached' # None => attached' \in ReturnPage!Pressed',
           ReturnPage!Pressed' \subseteq ReturnPage!Pressed,
           \A p \in ReturnPage!Pressed' :
             /\ presses'[p].of = presses[p].of /\ presses'[p].to = presses[p].to
             /\ ReturnPage!SeenByCallback(p)' = ReturnPage!SeenByCallback(p)
             /\ p \in meddled => p \in meddled'
             /\ presses'[p].at = "returned" => ride'[presses[p].of] = presses[p].to
    PROVE  ReturnPage!ReceiptInv'
<1> USE DEF ReturnPage!ReceiptInv
<1>1. ReturnPage!PressIsSent'
  BY DEF ReturnPage!PressIsSent
<1>2. ReturnPage!CallbackSeesThePress'
  BY DEF ReturnPage!CallbackSeesThePress
<1> QED
  BY <1>1, <1>2

LEMMA UnpressedIsPress ==
    ReturnPage!Unpressed \in ReturnPage!Pressing /\ ReturnPage!Unpressed.at = "unused"
BY DEF ReturnPage!Unpressed, ReturnPage!Pressing, ReturnPage!Unseen, ReturnPage!Sight

\* A page that goes leaves what it last showed to the callback of its press.
LEMMA ReturnPageStep ==
    ASSUME ReturnPage!ReceiptInv,
           \/ ReturnPage!OpenReturn \/ ReturnPage!ReadActive
           \/ ReturnPage!ReadStations \/ ReturnPage!ClearReceipt
           \/ \E s \in Station : ReturnPage!Pick(s)
           \/ \E r \in Rental : ReturnPage!StartRental(r)
    PROVE  ReturnPage!ReceiptInv'
<1> USE DEF ReturnPage!ReceiptInv
<1>1. CASE ReturnPage!OpenReturn
  <2>1. ReturnPage!TypeOK'
    BY <1>1 DEF ReturnPage!OpenReturn, ReturnPage!TypeOK
  <2> QED
    BY <1>1, <2>1, PageMoves DEF ReturnPage!OpenReturn
<1>2. CASE ReturnPage!ReadActive
  <2>1. known' \in Rental \cup {None}
    BY <1>2 DEF ReturnPage!ReadActive, ReturnPage!Active
  <2>2. /\ UNCHANGED <<ride, onPage, options, picked, attached, presses, receipt>>
        /\ meddled' = IF known' # known /\ attached # None
                      THEN meddled \cup {attached} ELSE meddled
    BY <1>2 DEF ReturnPage!ReadActive, ReturnPage!Meddles
  <2>3. ReturnPage!TypeOK'
    BY <2>1, <2>2 DEF ReturnPage!TypeOK
  <2> QED
    BY <2>2, <2>3, PageMoves
<1>3. CASE ReturnPage!ReadStations
  <2>1. /\ UNCHANGED <<ride, onPage, known, picked, attached, presses, receipt>>
        /\ options' \in ReturnPage!Lists
        /\ meddled' = IF ReturnPage!Selected(options', picked)
                           # ReturnPage!Selected(options, picked)
                         /\ attached # None
                      THEN meddled \cup {attached} ELSE meddled
    BY <1>3 DEF ReturnPage!ReadStations, ReturnPage!Meddles
  <2>2. ReturnPage!TypeOK'
    BY <2>1 DEF ReturnPage!TypeOK
  <2> QED
    BY <2>1, <2>2, PageMoves
<1>4. ASSUME NEW s \in Station, ReturnPage!Pick(s)
      PROVE  ReturnPage!ReceiptInv'
  <2>1. /\ UNCHANGED <<ride, onPage, known, options, attached, presses, receipt>>
        /\ picked' = s /\ ReturnPage!Selected(options, s) = s
        /\ meddled' = IF s # ReturnPage!Selected(options, picked)
                         /\ attached # None
                      THEN meddled \cup {attached} ELSE meddled
    BY <1>4 DEF ReturnPage!Pick, ReturnPage!Meddles, ReturnPage!Selected
  <2>2. ReturnPage!TypeOK'
    BY <2>1 DEF ReturnPage!TypeOK
  <2> QED
    BY <2>1, <2>2, PageMoves
<1>5. CASE ReturnPage!ClearReceipt
  <2>1. ReturnPage!TypeOK' /\ ReturnPage!ReceiptIsOfARide'
    BY <1>5 DEF ReturnPage!ClearReceipt, ReturnPage!TypeOK, ReturnPage!ReceiptIsOfARide
  <2> QED
    BY <1>5, <2>1 DEF ReturnPage!ClearReceipt, ReturnPage!PressIsSent,
      ReturnPage!CallbackSeesThePress, ReturnPage!Pressed,
      ReturnPage!SeenByCallback, ReturnPage!Seen
<1>6. ASSUME NEW r \in Rental, ReturnPage!StartRental(r)
      PROVE  ReturnPage!ReceiptInv'
  <2>1. /\ ride[r] = "none" /\ ride' = [ride EXCEPT ![r] = "active"]
        /\ UNCHANGED <<onPage, known, options, picked, attached, presses, receipt,
                       meddled>>
    BY <1>6 DEF ReturnPage!StartRental
  <2>2. /\ ride' \in [Rental -> {"none", "active"} \cup Station]
        /\ \A q \in Rental : ride[q] \in Station => ride'[q] = ride[q]
    BY <2>1, PartsAssumption DEF ReturnPage!TypeOK
  <2>3. ReturnPage!TypeOK'
    BY <2>1, <2>2 DEF ReturnPage!TypeOK
  <2>4. receipt # None => receipt.of \in Rental
    BY DEF ReturnPage!TypeOK, ReturnPage!Receipt
  <2>5. ReturnPage!ReceiptIsOfARide'
    BY <2>1, <2>2, <2>4
      DEF ReturnPage!ReceiptIsOfARide, ReturnPage!ReceiptNamesTheReturn
  <2>6. ReturnPage!Pressed' = ReturnPage!Pressed
    BY <2>1 DEF ReturnPage!Pressed
  <2>7. ReturnPage!PressIsSent'
    BY <2>1, <2>2, <2>6 DEF ReturnPage!PressIsSent
  <2>8. ReturnPage!CallbackSeesThePress'
    BY <2>1, <2>6 DEF ReturnPage!CallbackSeesThePress,
      ReturnPage!SeenByCallback, ReturnPage!Seen
  <2> QED
    BY <2>3, <2>5, <2>7, <2>8
<1> QED
  BY <1>1, <1>2, <1>3, <1>4, <1>5, <1>6

LEMMA LeaveStep ==
    ASSUME ReturnPage!ReceiptInv, ReturnPage!Leave
    PROVE  ReturnPage!ReceiptInv'
<1> USE DEF ReturnPage!ReceiptInv
<1>1. /\ attached' = None /\ onPage' = None /\ options' = <<>> /\ picked' = None
      /\ UNCHANGED <<ride, known, receipt, meddled>>
  BY DEF ReturnPage!Leave, ReturnPage!PageGone
<1>2. presses' \in [Tap -> ReturnPage!Pressing]
      /\ \A p \in Tap :
           /\ presses'[p].at = presses[p].at
           /\ presses'[p].of = presses[p].of /\ presses'[p].to = presses[p].to
           /\ presses'[p].saw = IF attached = p THEN ReturnPage!Seen ELSE presses[p].saw
  <2>1. CASE attached = None
    <3>1. presses' = presses
      BY <2>1 DEF ReturnPage!Leave
    <3> QED
      BY <2>1, <3>1, PartsAssumption DEF ReturnPage!TypeOK
  <2>2. CASE attached # None
    <3>1. attached \in Tap /\ ReturnPage!Seen \in ReturnPage!Sight
      BY <2>2, SeenIsSight DEF ReturnPage!TypeOK
    <3>2. PICK r \in ReturnPage!Pressing : r = presses[attached]
      BY <3>1 DEF ReturnPage!TypeOK
    <3>3. PICK x \in ReturnPage!Sight : x = ReturnPage!Seen
      BY <3>1
    <3>4. PICK q : q = [r EXCEPT !.saw = x]
      OBVIOUS
    <3>5. presses' = [presses EXCEPT ![attached] = q]
      BY <2>2, <3>2, <3>3, <3>4 DEF ReturnPage!Leave
    <3>6. /\ q \in ReturnPage!Pressing /\ q.saw = x
          /\ q.at = r.at /\ q.of = r.of /\ q.to = r.to
      BY <3>4 DEF ReturnPage!Pressing
    <3> QED
      BY <3>1, <3>2, <3>3, <3>5, <3>6 DEF ReturnPage!TypeOK
  <2> QED
    BY <2>1, <2>2
<1>3. ReturnPage!TypeOK'
  BY <1>1, <1>2 DEF ReturnPage!TypeOK, ReturnPage!Lists
<1>4. ReturnPage!Pressed' = ReturnPage!Pressed
  BY <1>2 DEF ReturnPage!Pressed
<1>5. ReturnPage!ReceiptIsOfARide'
  BY <1>1 DEF ReturnPage!ReceiptIsOfARide, ReturnPage!ReceiptNamesTheReturn
<1>6. \A p \in Tap : ReturnPage!SeenByCallback(p)' = ReturnPage!SeenByCallback(p)
  BY <1>1, <1>2, PartsAssumption DEF ReturnPage!SeenByCallback
<1>7. \A p \in ReturnPage!Pressed : p \in Tap
  BY DEF ReturnPage!Pressed
<1>8. \A p \in ReturnPage!Pressed :
        presses'[p].at = "returned" => ride'[presses[p].of] = presses[p].to
  BY <1>1, <1>2, <1>7 DEF ReturnPage!PressIsSent
<1> QED
  BY <1>1, <1>2, <1>3, <1>4, <1>5, <1>6, <1>7, <1>8, PressesMove

LEMMA ReturnStep ==
    ASSUME ReturnPage!ReceiptInv, NEW p \in Tap, ReturnPage!Return(p)
    PROVE  ReturnPage!ReceiptInv'
<1> USE DEF ReturnPage!ReceiptInv
<1>1. PICK q : q = [ReturnPage!Unpressed EXCEPT !.at = "sent", !.of = onPage,
                      !.to = ReturnPage!Selected(options, picked)]
  OBVIOUS
<1>2. /\ onPage \in Rental /\ attached = None /\ attached' = p
      /\ ReturnPage!Selected(options, picked) \in Station
      /\ presses[p] = ReturnPage!Unpressed
      /\ presses' = [presses EXCEPT ![p] = q]
      /\ meddled' = IF known = onPage THEN meddled ELSE meddled \cup {p}
      /\ UNCHANGED <<ride, onPage, known, options, picked, receipt>>
  BY <1>1, SelectedIsListed DEF ReturnPage!Return, ReturnPage!TypeOK
<1>3. /\ q \in ReturnPage!Pressing /\ q.at = "sent" /\ q.of = onPage
      /\ q.to = ReturnPage!Selected(options, picked)
  BY <1>1, <1>2 DEF ReturnPage!Unpressed, ReturnPage!Pressing, ReturnPage!Unseen,
                    ReturnPage!Sight
<1>4. /\ presses' \in [Tap -> ReturnPage!Pressing] /\ presses'[p] = q
      /\ \A t \in Tap \ {p} : presses'[t] = presses[t]
  BY <1>2, <1>3 DEF ReturnPage!TypeOK
<1>5. ReturnPage!TypeOK'
  BY <1>2, <1>4 DEF ReturnPage!TypeOK
<1>6. ReturnPage!Pressed' = ReturnPage!Pressed \cup {p}
  BY <1>3, <1>4 DEF ReturnPage!Pressed
<1>7. ReturnPage!ReceiptIsOfARide'
  BY <1>2 DEF ReturnPage!ReceiptIsOfARide, ReturnPage!ReceiptNamesTheReturn
<1>8. p \notin ReturnPage!Pressed
  BY <1>2, UnpressedIsPress DEF ReturnPage!Pressed
<1>9. ReturnPage!PressIsSent'
  BY <1>2, <1>3, <1>4, <1>6, <1>8 DEF ReturnPage!PressIsSent, ReturnPage!Pressed
<1>10. ASSUME NEW t \in ReturnPage!Pressed', t \notin meddled'
       PROVE  /\ ReturnPage!SeenByCallback(t)'.rental = presses'[t].of
              /\ ReturnPage!SeenByCallback(t)'.to = presses'[t].to
  <2>1. CASE t = p
    BY <1>2, <1>3, <1>4, <1>10, <2>1
      DEF ReturnPage!SeenByCallback, ReturnPage!Seen
  <2>2. CASE t # p
    <3>1. t \in ReturnPage!Pressed \ meddled /\ t \in Tap /\ t # None
      BY <1>2, <1>6, <1>10, <2>2, PartsAssumption DEF ReturnPage!Pressed
    <3>2. ReturnPage!SeenByCallback(t)' = ReturnPage!SeenByCallback(t)
      BY <1>2, <1>4, <2>2, <3>1 DEF ReturnPage!SeenByCallback
    <3> QED
      BY <1>4, <2>2, <3>1, <3>2 DEF ReturnPage!CallbackSeesThePress
  <2> QED
    BY <2>1, <2>2
<1>11. ReturnPage!CallbackSeesThePress'
  BY <1>10 DEF ReturnPage!CallbackSeesThePress
<1> QED
  BY <1>5, <1>7, <1>9, <1>11

LEMMA AnswerStep ==
    ASSUME ReturnPage!ReceiptInv, NEW p \in Tap, ReturnPage!ServerAnswers(p)
    PROVE  ReturnPage!ReceiptInv'
<1> USE DEF ReturnPage!ReceiptInv
<1>1. PICK r \in ReturnPage!Pressing : r = presses[p]
  BY DEF ReturnPage!TypeOK
<1>2. /\ r.at = "sent" /\ p \in ReturnPage!Pressed
      /\ UNCHANGED <<onPage, known, options, picked, attached, receipt, meddled>>
  BY <1>1 DEF ReturnPage!ServerAnswers, ReturnPage!Pressed
<1>3. r.of \in Rental /\ r.to \in Station
  BY <1>1, <1>2 DEF ReturnPage!PressIsSent
<1>4. PICK x \in {"returned", "refused"} :
        /\ presses' = [presses EXCEPT ![p] = [r EXCEPT !.at = x]]
        /\ \/ /\ r.of \in ReturnPage!Active
              /\ ride' = [ride EXCEPT ![r.of] = r.to]
           \/ x = "refused" /\ ride' = ride
  BY <1>1 DEF ReturnPage!ServerAnswers
<1>5. PICK q : q = [r EXCEPT !.at = x]
  OBVIOUS
<1>6. /\ q \in ReturnPage!Pressing /\ q.at = x /\ q.of = r.of /\ q.to = r.to
      /\ q.saw = r.saw
  BY <1>5 DEF ReturnPage!Pressing
<1>7. presses' = [presses EXCEPT ![p] = q]
  BY <1>4, <1>5, Zenon
<1>8. /\ presses' \in [Tap -> ReturnPage!Pressing] /\ presses'[p] = q
      /\ \A t \in Tap \ {p} : presses'[t] = presses[t]
  BY <1>6, <1>7 DEF ReturnPage!TypeOK
<1>9. /\ ride' \in [Rental -> {"none", "active"} \cup Station]
      /\ \A t \in Rental : ride[t] \in Station => ride'[t] = ride[t]
      /\ x = "returned" => ride'[r.of] = r.to
  <2>1. CASE r.of \in ReturnPage!Active /\ ride' = [ride EXCEPT ![r.of] = r.to]
    BY <1>3, <2>1, PartsAssumption DEF ReturnPage!TypeOK, ReturnPage!Active
  <2>2. CASE x = "refused" /\ ride' = ride
    BY <2>2 DEF ReturnPage!TypeOK
  <2> QED
    BY <1>4, <2>1, <2>2, Zenon
<1>10. ReturnPage!TypeOK'
  BY <1>2, <1>8, <1>9 DEF ReturnPage!TypeOK
<1>11. ReturnPage!Pressed' = ReturnPage!Pressed
  BY <1>2, <1>6, <1>8 DEF ReturnPage!Pressed
<1>12. receipt # None => receipt.of \in Rental
  BY DEF ReturnPage!TypeOK, ReturnPage!Receipt
<1>13. ReturnPage!ReceiptIsOfARide'
  BY <1>2, <1>9, <1>12
    DEF ReturnPage!ReceiptIsOfARide, ReturnPage!ReceiptNamesTheReturn
<1>14. \A t \in Tap : /\ presses'[t].of = presses[t].of
                      /\ presses'[t].to = presses[t].to
                      /\ presses'[t].saw = presses[t].saw
  BY <1>1, <1>6, <1>8
<1>15. \A t \in Tap : ReturnPage!SeenByCallback(t)' = ReturnPage!SeenByCallback(t)
  BY <1>2, <1>14 DEF ReturnPage!SeenByCallback, ReturnPage!Seen
<1>16. \A t \in ReturnPage!Pressed :
         /\ t \in Tap
         /\ presses'[t].at = "returned" => ride'[presses[t].of] = presses[t].to
  BY <1>1, <1>6, <1>8, <1>9 DEF ReturnPage!PressIsSent, ReturnPage!Pressed
<1>17. attached' # None => attached' \in ReturnPage!Pressed'
  BY <1>2, <1>11 DEF ReturnPage!PressIsSent
<1> QED
  BY <1>2, <1>10, <1>11, <1>13, <1>14, <1>15, <1>16, <1>17, PressesMove

LEMMA ReturnedStep ==
    ASSUME ReturnPage!ReceiptInv, NEW p \in Tap, ReturnPage!Returned(p)
    PROVE  ReturnPage!ReceiptInv'
<1> USE DEF ReturnPage!ReceiptInv
<1>1. /\ presses[p].at = "returned" /\ p \in ReturnPage!Pressed
      /\ attached' = None /\ onPage' = None /\ options' = <<>> /\ picked' = None
      /\ meddled' = meddled \ {p}
      /\ UNCHANGED <<ride, known>>
  BY DEF ReturnPage!Returned, ReturnPage!PageGone, ReturnPage!Pressed
<1>2. /\ presses[p].of \in Rental /\ presses[p].to \in Station
      /\ ride[presses[p].of] = presses[p].to
  BY <1>1 DEF ReturnPage!PressIsSent
<1>3. /\ ReturnPage!SeenByCallback(p).rental \in Rental \cup {None}
      /\ ReturnPage!SeenByCallback(p).to \in Station \cup {None}
  BY SeenIsSight
    DEF ReturnPage!TypeOK, ReturnPage!SeenByCallback, ReturnPage!Sight, ReturnPage!Pressing
<1>4. /\ ReturnPage!StartStation(p) \in Rental
      /\ ReturnPage!EndStation(p) \in Station
      /\ p \notin meddled => /\ ReturnPage!StartStation(p) = presses[p].of
                             /\ ReturnPage!EndStation(p) = presses[p].to
  BY <1>1, <1>2, <1>3
    DEF ReturnPage!StartStation, ReturnPage!EndStation,
        ReturnPage!CallbackSeesThePress
<1>5. /\ receipt' \in ReturnPage!Receipt
      /\ receipt'.of = presses[p].of /\ receipt'.from = ReturnPage!StartStation(p)
      /\ receipt'.to = ReturnPage!EndStation(p) /\ receipt'.sure = (p \notin meddled)
  BY <1>2, <1>4 DEF ReturnPage!Returned, ReturnPage!Receipt
<1>6. ReturnPage!ReceiptIsOfARide'
  BY <1>1, <1>2, <1>4, <1>5
    DEF ReturnPage!ReceiptIsOfARide, ReturnPage!ReceiptNamesTheReturn
<1>7. ASSUME NEW t \in Tap
      PROVE  /\ presses'[t] \in ReturnPage!Pressing
             /\ t = p => presses'[t].at = "unused"
             /\ t # p =>
                  /\ presses'[t].at = presses[t].at
                  /\ presses'[t].of = presses[t].of
                  /\ presses'[t].to = presses[t].to
                  /\ presses'[t].saw =
                       IF attached = t THEN ReturnPage!Seen ELSE presses[t].saw
  <2>1. CASE t = p
    BY <2>1, UnpressedIsPress DEF ReturnPage!Returned
  <2>2. CASE t # p /\ t = attached
    <3>1. PICK r \in ReturnPage!Pressing : r = presses[t]
      BY DEF ReturnPage!TypeOK
    <3>2. PICK x \in ReturnPage!Sight : x = ReturnPage!Seen
      BY SeenIsSight
    <3>3. PICK q : q = [r EXCEPT !.saw = x]
      OBVIOUS
    <3>4. presses'[t] = q
      <4>1. presses'[t] = [presses[t] EXCEPT !.saw = ReturnPage!Seen]
        BY <2>2 DEF ReturnPage!Returned
      <4> QED
        BY <3>1, <3>2, <3>3, <4>1
    <3>5. /\ q \in ReturnPage!Pressing /\ q.saw = x
          /\ q.at = r.at /\ q.of = r.of /\ q.to = r.to
      BY <3>3 DEF ReturnPage!Pressing
    <3>6. /\ presses'[t] \in ReturnPage!Pressing /\ presses'[t].saw = ReturnPage!Seen
          /\ presses'[t].at = presses[t].at /\ presses'[t].of = presses[t].of
          /\ presses'[t].to = presses[t].to
      BY <3>1, <3>2, <3>4, <3>5, Zenon
    <3> QED
      BY <2>2, <3>6, Zenon
  <2>3. CASE t # p /\ t # attached
    <3>1. presses'[t] = presses[t]
      BY <2>3 DEF ReturnPage!Returned
    <3> QED
      BY <2>3, <3>1 DEF ReturnPage!TypeOK
  <2> QED
    BY <2>1, <2>2, <2>3
<1>8. presses' \in [Tap -> ReturnPage!Pressing]
  <2>1. presses' = [t \in Tap |-> presses'[t]]
    BY DEF ReturnPage!Returned
  <2> QED
    BY <1>7, <2>1
<1>9. ReturnPage!TypeOK'
  BY <1>1, <1>5, <1>8 DEF ReturnPage!TypeOK, ReturnPage!Lists
<1>10. \A t \in ReturnPage!Pressed' : t \in ReturnPage!Pressed /\ t # p /\ t \in Tap
  BY <1>7 DEF ReturnPage!Pressed
<1>11. \A t \in ReturnPage!Pressed' :
         ReturnPage!SeenByCallback(t)' = ReturnPage!SeenByCallback(t)
  BY <1>1, <1>7, <1>10, PartsAssumption DEF ReturnPage!SeenByCallback
<1>12. \A t \in ReturnPage!Pressed' :
         presses'[t].at = "returned" => ride'[presses[t].of] = presses[t].to
  BY <1>1, <1>7, <1>10 DEF ReturnPage!PressIsSent
<1> QED
  BY <1>1, <1>6, <1>7, <1>9, <1>10, <1>11, <1>12, PressesMove

LEMMA NotReturnedStep ==
    ASSUME ReturnPage!ReceiptInv, NEW p \in Tap, ReturnPage!NotReturned(p)
    PROVE  ReturnPage!ReceiptInv'
<1> USE DEF ReturnPage!ReceiptInv
<1>1. /\ presses' = [presses EXCEPT ![p] = ReturnPage!Unpressed]
      /\ attached' = IF attached = p THEN None ELSE attached
      /\ meddled' = meddled \ {p}
      /\ UNCHANGED <<ride, onPage, known, options, picked, receipt>>
  BY DEF ReturnPage!NotReturned
<1>2. /\ presses' \in [Tap -> ReturnPage!Pressing] /\ presses'[p].at = "unused"
      /\ \A t \in Tap \ {p} : presses'[t] = presses[t]
  BY <1>1, UnpressedIsPress DEF ReturnPage!TypeOK
<1>3. ReturnPage!TypeOK'
  BY <1>1, <1>2 DEF ReturnPage!TypeOK
<1>4. ReturnPage!ReceiptIsOfARide'
  BY <1>1 DEF ReturnPage!ReceiptIsOfARide, ReturnPage!ReceiptNamesTheReturn
<1>5. ReturnPage!Pressed' = ReturnPage!Pressed \ {p} /\ ReturnPage!Pressed \subseteq Tap
  BY <1>2 DEF ReturnPage!Pressed
<1>6. attached' # None => attached' \in ReturnPage!Pressed'
  BY <1>1, <1>5 DEF ReturnPage!PressIsSent
<1>7. \A t \in ReturnPage!Pressed' :
         ReturnPage!SeenByCallback(t)' = ReturnPage!SeenByCallback(t)
  BY <1>1, <1>2, <1>5, PartsAssumption DEF ReturnPage!SeenByCallback, ReturnPage!Seen
<1>8. \A t \in ReturnPage!Pressed' :
         presses'[t].at = "returned" => ride'[presses[t].of] = presses[t].to
  BY <1>1, <1>2, <1>5 DEF ReturnPage!PressIsSent
<1> QED
  BY <1>1, <1>2, <1>3, <1>4, <1>5, <1>6, <1>7, <1>8, PressesMove

LEMMA ReceiptStep ==
    ReturnPage!ReceiptInv /\ [ReturnPage!Next]_rv => ReturnPage!ReceiptInv'
<1> SUFFICES ASSUME ReturnPage!ReceiptInv, [ReturnPage!Next]_rv
             PROVE  ReturnPage!ReceiptInv'
  OBVIOUS
<1>1. CASE UNCHANGED rv
  <2>1. ReturnPage!TypeOK'
    BY <1>1 DEF rv, ReturnPage!ReceiptInv, ReturnPage!TypeOK
  <2> QED
    BY <1>1, <2>1, PageMoves DEF rv
<1> QED
  BY <1>1, ReturnPageStep, LeaveStep, ReturnStep, AnswerStep, ReturnedStep,
     NotReturnedStep
    DEF ReturnPage!Next

LEMMA ReceiptIsInv == Spec => []ReturnPage!ReceiptInv
<1>1. Init => ReturnPage!Init
  BY DEF Init
<1>2. [Next]_vars => [ReturnPage!Next]_rv
  BY DEF Next, vars, rv
<1> QED
  BY <1>1, <1>2, ReceiptInit, ReceiptStep, PTL DEF Spec

\* The receipt of a return tells where the bank was taken and where it went
\* (onSuccess of the return page), unless the page came to show another rental
\* or station while the press was pending.
THEOREM ReceiptsNameTheReturn == Spec => []ReceiptNamesTheReturn
<1>1. ReturnPage!ReceiptInv => ReceiptNamesTheReturn
  BY DEF ReturnPage!ReceiptInv, ReturnPage!ReceiptIsOfARide,
         ReceiptNamesTheReturn, ReturnPage!ReceiptNamesTheReturn
<1> QED
  BY <1>1, ReceiptIsInv, PTL

(***************************************************************************)
(* SlotReports                                                             *)
(***************************************************************************)

\* Every way a cabinet may tell the status of a slot is read as that status.
LEMMA ReportsAreRead ==
    ASSUME NEW s \in SlotReports!SlotStatus, NEW r \in SlotReports!Reports(s)
    PROVE  SlotReports!NormalizeSlotStatus(r) = s
<1>1. CASE s = "empty"
  BY <1>1 DEF SlotReports!SlotStatus, SlotReports!Reports, SlotReports!Flag,
              SlotReports!NormalizeSlotStatus
<1>2. CASE s = "occupied"
  BY <1>2 DEF SlotReports!SlotStatus, SlotReports!Reports, SlotReports!Flag,
              SlotReports!NormalizeSlotStatus
<1>3. CASE s = "faulty"
  BY <1>3 DEF SlotReports!SlotStatus, SlotReports!Reports, SlotReports!Flag,
              SlotReports!NormalizeSlotStatus
<1> QED
  BY <1>1, <1>2, <1>3 DEF SlotReports!SlotStatus

\* A message joins the queue: what it says is now said last, if it says
\* anything.
LEMMA AppendTells ==
    ASSUME NEW q \in Seq(SlotReports!Reading), NEW s
    PROVE  /\ s \in SlotReports!Reading => SlotReports!Tells(Append(q, s), s)
           /\ SlotReports!Tells(q, s) => SlotReports!Tells(Append(q, None), s)
           /\ SlotReports!TellsNothing(q) => SlotReports!TellsNothing(Append(q, None))
<1>1. ASSUME NEW x \in SlotReports!Reading
      PROVE  /\ Len(Append(q, x)) = Len(q) + 1 /\ Len(q) \in Nat
             /\ Append(q, x)[Len(q) + 1] = x
             /\ \A i \in 1..Len(q) : Append(q, x)[i] = q[i]
  OBVIOUS
<1>2. None \in SlotReports!Reading
  BY DEF SlotReports!Reading
<1>3. ASSUME s \in SlotReports!Reading
      PROVE  SlotReports!Tells(Append(q, s), s)
  BY <1>1, <1>3 DEF SlotReports!Tells
<1>4. ASSUME SlotReports!Tells(q, s)
      PROVE  SlotReports!Tells(Append(q, None), s)
  <2>1. PICK i \in 1..Len(q) : q[i] = s /\ \A j \in i + 1..Len(q) : q[j] = None
    BY <1>4 DEF SlotReports!Tells
  <2>2. i \in 1..Len(q) + 1 /\ Append(q, None)[i] = s
    BY <1>1, <1>2, <2>1
  <2>3. ASSUME NEW j \in i + 1..Len(q) + 1
        PROVE  Append(q, None)[j] = None
    <3>1. CASE j = Len(q) + 1
      BY <1>1, <1>2, <3>1
    <3>2. CASE j \in i + 1..Len(q)
      BY <1>1, <1>2, <2>1, <3>2
    <3> QED
      BY <1>1, <1>2, <3>1, <3>2
  <2> QED
    BY <1>1, <1>2, <2>2, <2>3 DEF SlotReports!Tells
<1>5. ASSUME SlotReports!TellsNothing(q)
      PROVE  SlotReports!TellsNothing(Append(q, None))
  BY <1>1, <1>2, <1>5 DEF SlotReports!TellsNothing
<1> QED
  BY <1>3, <1>4, <1>5

\* The first message leaves the queue.
LEMMA TailTells ==
    ASSUME NEW q \in Seq(SlotReports!Reading), q # <<>>, NEW s
    PROVE  /\ Tail(q) \in Seq(SlotReports!Reading)
           /\ Head(q) \in SlotReports!Reading
           /\ SlotReports!Tells(q, s) =>
                \/ SlotReports!Tells(Tail(q), s)
                \/ Head(q) = s /\ SlotReports!TellsNothing(Tail(q))
           /\ SlotReports!TellsNothing(q) =>
                Head(q) = None /\ SlotReports!TellsNothing(Tail(q))
<1>1. /\ Len(q) \in Nat /\ Len(q) > 0 /\ Len(Tail(q)) = Len(q) - 1
      /\ \A i \in 1..Len(q) - 1 : Tail(q)[i] = q[i + 1]
      /\ Head(q) = q[1]
      /\ Tail(q) \in Seq(SlotReports!Reading) /\ Head(q) \in SlotReports!Reading
  OBVIOUS
<1>2. ASSUME SlotReports!Tells(q, s)
      PROVE  \/ SlotReports!Tells(Tail(q), s)
             \/ Head(q) = s /\ SlotReports!TellsNothing(Tail(q))
  <2>1. PICK i \in 1..Len(q) : q[i] = s /\ \A j \in i + 1..Len(q) : q[j] = None
    BY <1>2 DEF SlotReports!Tells
  <2>2. CASE i = 1
    BY <1>1, <2>1, <2>2 DEF SlotReports!TellsNothing
  <2>3. CASE i # 1
    <3>1. i - 1 \in 1..Len(Tail(q)) /\ Tail(q)[i - 1] = s
      BY <1>1, <2>1, <2>3
    <3>2. \A j \in (i - 1) + 1..Len(Tail(q)) : Tail(q)[j] = None
      BY <1>1, <2>1, <2>3
    <3> QED
      BY <3>1, <3>2 DEF SlotReports!Tells
  <2> QED
    BY <2>2, <2>3
<1>3. ASSUME SlotReports!TellsNothing(q)
      PROVE  Head(q) = None /\ SlotReports!TellsNothing(Tail(q))
  BY <1>1, <1>3 DEF SlotReports!TellsNothing
<1> QED
  BY <1>1, <1>2, <1>3

LEMMA SettledInit == SlotReports!Init => SlotReports!SettledInv
<1> SUFFICES ASSUME SlotReports!Init PROVE SlotReports!SettledInv
  OBVIOUS
<1>1. SlotReports!Idle \in SlotReports!Handling
  BY DEF SlotReports!Idle, SlotReports!Handling, SlotReports!Reading
<1> QED
  BY <1>1 DEF SlotReports!Init, SlotReports!SettledInv, SlotReports!TypeOK

LEMMA PublishStep ==
    ASSUME SlotReports!SettledInv,
           \/ \E s \in SlotReports!SlotStatus : SlotReports!Publish(s)
           \/ SlotReports!PublishUnreadable
    PROVE  SlotReports!SettledInv'
<1>1. queued \in Seq(SlotReports!Reading) /\ SlotReports!TypeOK
  BY DEF SlotReports!SettledInv, SlotReports!TypeOK
<1>2. ASSUME NEW s \in SlotReports!SlotStatus, SlotReports!Publish(s)
      PROVE  SlotReports!SettledInv'
  <2>1. /\ queued' = Append(queued, s) /\ reported' = s
        /\ spoilt' = (spoilt /\ ~SlotReports!Quiet)
        /\ UNCHANGED <<stored, handler>>
    BY <1>2, ReportsAreRead DEF SlotReports!Publish
  <2>2. s \in SlotReports!Reading /\ queued' \in Seq(SlotReports!Reading)
    BY <1>1, <2>1 DEF SlotReports!Reading
  <2>3. SlotReports!Tells(queued', reported')
    BY <1>1, <2>1, <2>2, AppendTells
  <2>4. SlotReports!Busy' = SlotReports!Busy
    BY <2>1 DEF SlotReports!Busy
  <2>5. ~spoilt' => SlotReports!OneHandles
    BY <2>1 DEF SlotReports!SettledInv, SlotReports!OneHandles, SlotReports!Quiet
  <2>6. SlotReports!OneHandles' = SlotReports!OneHandles
    BY <2>4 DEF SlotReports!OneHandles
  <2>7. SlotReports!TypeOK'
    BY <1>1, <2>1, <2>2 DEF SlotReports!TypeOK
  <2> QED
    BY <2>3, <2>5, <2>6, <2>7 DEF SlotReports!SettledInv, SlotReports!ReportIsKept
<1>3. CASE SlotReports!PublishUnreadable
  <2>1. /\ queued' = Append(queued, None)
        /\ UNCHANGED <<stored, reported, handler, spoilt>>
    BY <1>3 DEF SlotReports!PublishUnreadable
  <2>2. queued' \in Seq(SlotReports!Reading)
    BY <1>1, <2>1 DEF SlotReports!Reading
  <2>3. /\ SlotReports!Tells(queued, reported) => SlotReports!Tells(queued', reported)
        /\ SlotReports!TellsNothing(queued) => SlotReports!TellsNothing(queued')
    BY <1>1, <2>1, AppendTells
  <2>4. SlotReports!Busy' = SlotReports!Busy
    BY <2>1 DEF SlotReports!Busy
  <2>5. SlotReports!OneHandles' = SlotReports!OneHandles
    BY <2>4 DEF SlotReports!OneHandles
  <2>6. SlotReports!ReportIsKept => SlotReports!ReportIsKept'
    BY <2>1, <2>3, <2>4 DEF SlotReports!ReportIsKept
  <2>7. SlotReports!TypeOK'
    BY <1>1, <2>1, <2>2 DEF SlotReports!TypeOK
  <2> QED
    BY <2>1, <2>5, <2>6, <2>7 DEF SlotReports!SettledInv
<1> QED
  BY <1>2, <1>3

LEMMA LoseStep ==
    ASSUME SlotReports!SettledInv, SlotReports!Lose
    PROVE  SlotReports!SettledInv'
<1>1. /\ queued \in Seq(SlotReports!Reading) /\ queued # <<>>
      /\ queued' = Tail(queued)
      /\ spoilt' = (spoilt \/ \A i \in 2..Len(queued) : queued[i] = None)
      /\ UNCHANGED <<stored, reported, handler>> /\ SlotReports!TypeOK
  BY DEF SlotReports!SettledInv, SlotReports!TypeOK, SlotReports!Lose
<1>2. SlotReports!TypeOK'
  <2>1. queued' \in Seq(SlotReports!Reading)
    BY <1>1
  <2>2. spoilt' \in BOOLEAN
    BY <1>1 DEF SlotReports!TypeOK
  <2> QED
    BY <1>1, <2>1, <2>2 DEF SlotReports!TypeOK
<1>3. SlotReports!Busy' = SlotReports!Busy
  BY <1>1 DEF SlotReports!Busy
<1>4. ASSUME ~spoilt'
      PROVE  ~spoilt /\ ~SlotReports!TellsNothing(Tail(queued))
  <2>1. PICK i \in 2..Len(queued) : queued[i] # None
    BY <1>1, <1>4
  <2>2. i - 1 \in 1..Len(Tail(queued)) /\ Tail(queued)[i - 1] # None
    BY <1>1, <2>1
  <2> QED
    BY <1>1, <1>4, <2>2 DEF SlotReports!TellsNothing
<1>5. ~spoilt' => SlotReports!Tells(queued', reported')
  BY <1>1, <1>4, TailTells DEF SlotReports!SettledInv, SlotReports!ReportIsKept
<1>6. ~spoilt' => SlotReports!OneHandles'
  BY <1>3, <1>4 DEF SlotReports!SettledInv, SlotReports!OneHandles
<1> QED
  BY <1>2, <1>5, <1>6 DEF SlotReports!SettledInv, SlotReports!ReportIsKept

LEMMA HandleStep ==
    ASSUME SlotReports!SettledInv, NEW h \in Handler,
           SlotReports!HandleSlotMessage(h)
    PROVE  SlotReports!SettledInv'
<1>1. PICK q : q = [at |-> "touch", status |-> Head(queued)]
  OBVIOUS
<1>2. /\ queued \in Seq(SlotReports!Reading) /\ queued # <<>>
      /\ queued' \in {queued, Tail(queued)}
      /\ handler' = [handler EXCEPT ![h] = q]
      /\ spoilt' = (spoilt \/ SlotReports!Busy # {})
      /\ UNCHANGED <<stored, reported>> /\ SlotReports!TypeOK
  BY <1>1
    DEF SlotReports!SettledInv, SlotReports!TypeOK, SlotReports!HandleSlotMessage
<1>3. /\ Tail(queued) \in Seq(SlotReports!Reading)
      /\ Head(queued) \in SlotReports!Reading
  BY <1>2
<1>4. q \in SlotReports!Handling /\ q.at = "touch" /\ q.status = Head(queued)
  BY <1>1, <1>3 DEF SlotReports!Handling
<1>5. /\ handler' \in [Handler -> SlotReports!Handling] /\ handler'[h] = q
      /\ \A g \in Handler \ {h} : handler'[g] = handler[g]
  BY <1>2, <1>4 DEF SlotReports!TypeOK
<1>6. SlotReports!TypeOK'
  BY <1>2, <1>3, <1>5 DEF SlotReports!TypeOK
<1>7. ASSUME ~spoilt'
      PROVE  SlotReports!OneHandles' /\ SlotReports!ReportIsKept'
  <2>1. ~spoilt /\ SlotReports!Busy = {}
    BY <1>2, <1>7 DEF SlotReports!TypeOK
  <2>2. SlotReports!Busy' = {h}
    BY <1>4, <1>5, <2>1 DEF SlotReports!Busy
  <2>3. SlotReports!ReportIsKept
    BY <2>1 DEF SlotReports!SettledInv
  <2>4. /\ SlotReports!Tells(queued, reported) =>
             \/ SlotReports!Tells(Tail(queued), reported)
             \/ /\ Head(queued) = reported
                /\ SlotReports!TellsNothing(Tail(queued))
        /\ SlotReports!TellsNothing(queued) =>
             Head(queued) = None /\ SlotReports!TellsNothing(Tail(queued))
    BY <1>2, TailTells
  <2>5. SlotReports!OneHandles'
    BY <2>2 DEF SlotReports!OneHandles
  <2>6. SlotReports!ReportIsKept'
    BY <1>2, <1>4, <1>5, <2>1, <2>2, <2>3, <2>4 DEF SlotReports!ReportIsKept
  <2> QED
    BY <2>5, <2>6
<1> QED
  BY <1>6, <1>7 DEF SlotReports!SettledInv

LEMMA SyncStep ==
    ASSUME SlotReports!SettledInv, NEW h \in Handler,
           SlotReports!SeenRecorded(h) \/ SlotReports!SyncSlotStatus(h)
    PROVE  SlotReports!SettledInv'
<1>1. PICK r \in SlotReports!Handling : r = handler[h]
  BY DEF SlotReports!SettledInv, SlotReports!TypeOK
<1>2. SlotReports!TypeOK /\ UNCHANGED <<reported, queued, spoilt>>
  BY DEF SlotReports!SettledInv, SlotReports!SeenRecorded, SlotReports!SyncSlotStatus
<1>3. /\ SlotReports!Idle \in SlotReports!Handling /\ SlotReports!Idle.at = "idle"
      /\ r.at # "idle"
  BY <1>1 DEF SlotReports!Idle, SlotReports!Handling, SlotReports!Reading,
              SlotReports!SeenRecorded, SlotReports!SyncSlotStatus
<1>4. h \in SlotReports!Busy
  BY <1>1, <1>3 DEF SlotReports!Busy
<1>5. ASSUME NEW q \in SlotReports!Handling, handler' = [handler EXCEPT ![h] = q]
      PROVE  /\ handler' \in [Handler -> SlotReports!Handling] /\ handler'[h] = q
             /\ \A g \in Handler \ {h} : handler'[g] = handler[g]
             /\ q.at = "idle" => SlotReports!Busy' = SlotReports!Busy \ {h}
             /\ q.at # "idle" => SlotReports!Busy' = SlotReports!Busy
             /\ ~spoilt => SlotReports!OneHandles'
  <2>1. /\ handler' \in [Handler -> SlotReports!Handling] /\ handler'[h] = q
        /\ \A g \in Handler \ {h} : handler'[g] = handler[g]
    BY <1>2, <1>5 DEF SlotReports!TypeOK
  <2>2. /\ q.at = "idle" => SlotReports!Busy' = SlotReports!Busy \ {h}
        /\ q.at # "idle" => SlotReports!Busy' = SlotReports!Busy
    BY <1>4, <2>1 DEF SlotReports!Busy
  <2>3. ~spoilt => SlotReports!OneHandles'
    BY <2>2 DEF SlotReports!SettledInv, SlotReports!OneHandles
  <2> QED
    BY <2>1, <2>2, <2>3
<1>6. CASE SlotReports!SyncSlotStatus(h)
  <2>1. /\ r.at = "sync" /\ stored' = r.status
        /\ handler' = [handler EXCEPT ![h] = SlotReports!Idle]
    BY <1>1, <1>6 DEF SlotReports!SyncSlotStatus
  <2>2. stored' \in SlotReports!SlotStatus /\ r.status # None
    BY <2>1 DEF SlotReports!Handling, SlotReports!Reading
  <2>3. /\ handler' \in [Handler -> SlotReports!Handling]
        /\ SlotReports!Busy' = SlotReports!Busy \ {h}
        /\ ~spoilt => SlotReports!OneHandles'
    BY <1>3, <1>5, <2>1
  <2>4. SlotReports!TypeOK'
    BY <1>2, <2>2, <2>3 DEF SlotReports!TypeOK
  <2>5. ASSUME ~spoilt
        PROVE  SlotReports!ReportIsKept'
    <3>1. SlotReports!Busy = {h} /\ SlotReports!Busy' = {}
      BY <1>4, <2>3, <2>5 DEF SlotReports!SettledInv, SlotReports!OneHandles
    <3>2. SlotReports!ReportIsKept
      BY <2>5 DEF SlotReports!SettledInv
    <3> QED
      BY <1>1, <1>2, <2>1, <2>2, <3>1, <3>2 DEF SlotReports!ReportIsKept
  <2> QED
    BY <1>2, <2>3, <2>4, <2>5 DEF SlotReports!SettledInv
<1>7. CASE SlotReports!SeenRecorded(h)
  <2>1. stored' = stored
    BY <1>7 DEF SlotReports!SeenRecorded
  <2>2. CASE r.status = None
    <3>1. handler' = [handler EXCEPT ![h] = SlotReports!Idle]
      BY <1>1, <1>7, <2>2 DEF SlotReports!SeenRecorded, SlotReports!TypeOK
    <3>2. /\ handler' \in [Handler -> SlotReports!Handling]
          /\ SlotReports!Busy' = SlotReports!Busy \ {h}
          /\ \A g \in Handler \ {h} : handler'[g] = handler[g]
          /\ ~spoilt => SlotReports!OneHandles'
      BY <1>3, <1>5, <3>1
    <3>3. SlotReports!TypeOK'
      BY <1>2, <2>1, <3>2 DEF SlotReports!TypeOK
    <3>4. ASSUME ~spoilt
          PROVE  SlotReports!ReportIsKept'
      <4>1. SlotReports!Busy = {h} /\ SlotReports!Busy' = {}
        BY <1>4, <3>2, <3>4 DEF SlotReports!SettledInv, SlotReports!OneHandles
      <4>2. SlotReports!ReportIsKept /\ reported # None
        BY <3>4, <1>2, PartsAssumption DEF SlotReports!SettledInv, SlotReports!TypeOK
      <4> QED
        BY <1>1, <1>2, <2>1, <2>2, <4>1, <4>2 DEF SlotReports!ReportIsKept
    <3> QED
      BY <1>2, <3>2, <3>3, <3>4 DEF SlotReports!SettledInv
  <2>3. CASE r.status # None
    <3>1. PICK q : q = [r EXCEPT !.at = "sync"]
      OBVIOUS
    <3>2. q \in SlotReports!Handling /\ q.at = "sync" /\ q.status = r.status
      BY <2>3, <3>1 DEF SlotReports!Handling
    <3>3. handler' = [handler EXCEPT ![h] = q]
      BY <1>1, <1>7, <2>3, <3>1 DEF SlotReports!SeenRecorded, SlotReports!TypeOK
    <3>4. /\ handler' \in [Handler -> SlotReports!Handling] /\ handler'[h] = q
          /\ SlotReports!Busy' = SlotReports!Busy
          /\ \A g \in Handler \ {h} : handler'[g] = handler[g]
          /\ ~spoilt => SlotReports!OneHandles'
      BY <1>5, <3>2, <3>3
    <3>5. SlotReports!TypeOK'
      BY <1>2, <2>1, <3>4 DEF SlotReports!TypeOK
    <3>6. \A g \in SlotReports!Busy : handler'[g].status = handler[g].status
      BY <1>1, <3>2, <3>4 DEF SlotReports!Busy
    <3>7. ~spoilt => SlotReports!ReportIsKept'
      BY <1>2, <2>1, <3>4, <3>6 DEF SlotReports!SettledInv, SlotReports!ReportIsKept
    <3> QED
      BY <1>2, <3>4, <3>5, <3>7 DEF SlotReports!SettledInv
  <2> QED
    BY <2>2, <2>3
<1> QED
  BY <1>6, <1>7

LEMMA SettledStep == SlotReports!SettledInv /\ [SlotReports!Next]_xv => SlotReports!SettledInv'
<1> SUFFICES ASSUME SlotReports!SettledInv, [SlotReports!Next]_xv
             PROVE  SlotReports!SettledInv'
  OBVIOUS
<1>1. CASE UNCHANGED xv
  BY <1>1 DEF xv, SlotReports!SettledInv, SlotReports!TypeOK,
     SlotReports!OneHandles, SlotReports!ReportIsKept, SlotReports!Busy
<1>2. CASE SlotReports!Restart
  <2>1. SlotReports!Idle \in SlotReports!Handling
    BY DEF SlotReports!Idle, SlotReports!Handling, SlotReports!Reading
  <2> QED
    BY <1>2, <2>1
      DEF SlotReports!Restart, SlotReports!SettledInv, SlotReports!TypeOK
<1> QED
  BY <1>1, <1>2, PublishStep, LoseStep, HandleStep, SyncStep DEF SlotReports!Next

LEMMA SettledIsInv == Spec => []SlotReports!SettledInv
<1>1. Init => SlotReports!Init
  BY DEF Init
<1>2. [Next]_vars => [SlotReports!Next]_xv
  BY DEF Next, vars, xv
<1> QED
  BY <1>1, <1>2, SettledInit, SettledStep, PTL DEF Spec

\* Once its messages are handled, the slot's row says what the cabinet told
\* last (handleSlotMessage), unless a report was lost, two were handled at
\* once or a handler died since the last report sent in quiet.
THEOREM SettledSlotsAreReported == Spec => []SettledSlotIsReported
<1>1. ASSUME SlotReports!SettledInv PROVE SettledSlotIsReported
  <2>1. SlotReports!Quiet => ~SlotReports!Tells(queued, reported)
    BY DEF SlotReports!Quiet, SlotReports!Tells
  <2> QED
    BY <1>1, <2>1
      DEF SettledSlotIsReported, SlotReports!SettledSlotIsReported,
          SlotReports!SettledInv, SlotReports!ReportIsKept, SlotReports!Quiet
<1> QED
  BY <1>1, SettledIsInv, PTL

(***************************************************************************)
(* Offers                                                                  *)
(***************************************************************************)
LEMMA AvailableSlotsAreCounted ==
    /\ Offers!AvailableSlots \in 0..Offers!Cardinality(Slot)
    /\ Offers!AvailableSlots > 0 => \E s \in Slot : Offers!BankIsIdle(s)
<1> DEFINE Idle == {s \in Slot : Offers!BankIsIdle(s)}
<1>1. Idle \subseteq Slot
  OBVIOUS
<1>2. /\ IsFiniteSet(Idle)
      /\ Cardinality(Idle) \in Nat /\ Cardinality(Slot) \in Nat
      /\ Cardinality(Idle) <= Cardinality(Slot)
  BY <1>1, FS_Subset, FS_CardinalityType, PartsAssumption DEF PartsAssumption
<1>3. Cardinality(Idle) > 0 => Idle # {}
  BY <1>2, FS_EmptySet
<1>4. /\ Offers!AvailableSlots = Cardinality(Idle)
      /\ Offers!Cardinality(Slot) = Cardinality(Slot)
  BY DEF Offers!AvailableSlots, Offers!Cardinality, Cardinality
<1>5. Idle # {} => \E s \in Slot : Offers!BankIsIdle(s)
  BY DEF Offers!BankIsIdle
<1> HIDE DEF Idle
<1> QED
  BY <1>2, <1>3, <1>4, <1>5

\* A page that shows nothing is owed nothing.
LEMMA NothingIsOffered ==
    /\ Offers!NoOffer \in Offers!Shown /\ Offers!NoOffer.kind = None
    /\ offer.kind = None /\ verdict = None
         => Offers!Stands /\ Offers!OffersAreHonoured /\ Offers!SlotsAreOffered
<1>1. None \notin Offers!Kind
  BY PartsAssumption DEF PartsAssumption
<1> QED
  BY <1>1 DEF Offers!NoOffer, Offers!Shown, Offers!Kind, Offers!Stands,
     Offers!OffersAreHonoured, Offers!SlotsAreOffered, Offers!Excluded

LEMMA OffersInit == Offers!Init => Offers!OffersInv
BY NothingIsOffered DEF Offers!Init, Offers!OffersInv, Offers!TypeOK,
   Offers!CountedBeforeOffering, Offers!OfferIsFresh

\* What is shown, when it is: an offer of this kind or none.
LEMMA OfferIsShown ==
    ASSUME NEW kind \in Offers!Kind, NEW s \in Slot \cup {None},
           NEW stands \in BOOLEAN, Offers!Offer(kind, s, stands)
    PROVE  /\ offer' \in Offers!Shown /\ verdict' = None
           /\ \/ ~stands /\ offer'.kind = None
              \/ stands /\ offer'.kind = kind /\ offer'.slot = s
BY DEF Offers!Offer, Offers!Shown, Offers!NoOffer

\* A page that shows a new offer and awaits its answer.
LEMMA ShowStep ==
    ASSUME Offers!OffersInv,
           UNCHANGED <<slots, place, renter>>,
           offer' \in Offers!Shown, verdict' = None, counted' = None,
           changed' \in BOOLEAN, ~changed' => Offers!Stands',
           offer'.kind = "slot" => offer'.slot \in Slot
    PROVE  Offers!OffersInv'
<1>1. None \notin Offers!Answer
  BY PartsAssumption DEF PartsAssumption
<1> QED
  BY <1>1 DEF Offers!OffersInv, Offers!TypeOK, Offers!OffersAreHonoured,
     Offers!CountedBeforeOffering, Offers!SlotsAreOffered, Offers!OfferIsFresh,
     Offers!Excluded, Offers!Answer

LEMMA OffersStep == Offers!OffersInv /\ [Offers!Next]_fv => Offers!OffersInv'
<1> SUFFICES ASSUME Offers!OffersInv, [Offers!Next]_fv
             PROVE  Offers!OffersInv'
  OBVIOUS
<1>0. /\ None \notin Offers!Kind \cup Offers!Answer
      /\ None \notin 0..Offers!Cardinality(Slot)
      /\ Offers!NoOffer.kind = None
  BY PartsAssumption, NothingIsOffered DEF PartsAssumption
<1>1. CASE UNCHANGED fv
  BY <1>1 DEF fv, Offers!OffersInv, Offers!TypeOK, Offers!OffersAreHonoured,
     Offers!CountedBeforeOffering, Offers!SlotsAreOffered, Offers!OfferIsFresh,
     Offers!Stands, Offers!AvailableSlots, Offers!BankIsIdle, Offers!IsEmpty,
     Offers!Excluded, Offers!Contradicted
<1>2. CASE Offers!FindNearby
  <2>1. Offers!Offer("nearby", None, place.active /\ Offers!AvailableSlots > 0)
    BY <1>2 DEF Offers!FindNearby
  <2>2. /\ offer' \in Offers!Shown /\ verdict' = None
        /\ \/ offer'.kind = None
           \/ Offers!AvailableSlots > 0 /\ offer'.kind = "nearby"
    BY <2>1, OfferIsShown, AvailableSlotsAreCounted DEF Offers!Kind, Offers!OffersInv, Offers!TypeOK, Offers!Place
  <2>3. Offers!Stands'
    BY <1>0, <1>2, <2>2 DEF Offers!FindNearby, Offers!Rows, Offers!Stands, Offers!Kind,
       Offers!AvailableSlots, Offers!BankIsIdle
  <2> QED
    BY <1>0, <1>2, <2>2, <2>3, ShowStep DEF Offers!FindNearby, Offers!Rows, Offers!Ask, Offers!Kind
<1>3. CASE Offers!FindDetail
  <2>1. /\ offer' = offer /\ offer.kind = None /\ verdict' = verdict /\ verdict = None
        /\ counted' = Offers!AvailableSlots /\ changed' = FALSE
        /\ UNCHANGED <<slots, place, renter>>
    BY <1>0, <1>3 DEF Offers!FindDetail, Offers!Ask, Offers!Rows
  <2>2. /\ Offers!Stands' /\ Offers!OffersAreHonoured' /\ Offers!SlotsAreOffered'
    BY <1>0, <2>1 DEF Offers!Stands, Offers!OffersAreHonoured, Offers!SlotsAreOffered,
       Offers!Excluded, Offers!Kind
  <2>3. /\ Offers!AvailableSlots' = Offers!AvailableSlots
        /\ counted' \in 0..Offers!Cardinality(Slot)
    BY <2>1, AvailableSlotsAreCounted DEF Offers!AvailableSlots, Offers!BankIsIdle
  <2> QED
    BY <2>1, <2>2, <2>3
      DEF Offers!OffersInv, Offers!TypeOK, Offers!CountedBeforeOffering,
          Offers!OfferIsFresh
<1>4. CASE Offers!PreviewStart
  <2> DEFINE will == /\ Offers!BankIsIdle(offer.slot)
                     /\ renter.funded /\ ~renter.renting
  <2>1. /\ Offers!Offer("exact", offer.slot, will)
        /\ offer.kind = "slot" /\ offer.slot \in Slot /\ counted = None
    BY <1>0, <1>4 DEF Offers!PreviewStart, Offers!OffersInv, Offers!SlotsAreOffered,
       Offers!CountedBeforeOffering, Offers!Kind, Offers!TypeOK
  <2>2. will \in BOOLEAN
    BY DEF Offers!OffersInv, Offers!TypeOK, Offers!Renter, Offers!BankIsIdle
  <2> HIDE DEF will
  <2>3. /\ offer' \in Offers!Shown /\ verdict' = None
        /\ \/ offer'.kind = None
           \/ will /\ offer'.kind = "exact" /\ offer'.slot = offer.slot
    BY <2>1, <2>2, OfferIsShown DEF Offers!Kind
  <2>4. Offers!Stands'
    BY <1>0, <1>4, <2>1, <2>3 DEF will, Offers!PreviewStart, Offers!Rows,
       Offers!Stands, Offers!Kind, Offers!BankIsIdle
  <2> QED
    BY <1>0, <1>4, <2>1, <2>3, <2>4, ShowStep
      DEF Offers!PreviewStart, Offers!Rows, Offers!Kind
<1>5. CASE Offers!GetReturnStations
  <2> DEFINE room == place.active /\ \E s \in Slot : Offers!IsEmpty(s)
  <2>1. Offers!Offer("return", None, room)
    BY <1>5 DEF Offers!GetReturnStations
  <2>2. room \in BOOLEAN
    BY DEF Offers!OffersInv, Offers!TypeOK, Offers!Place
  <2> HIDE DEF room
  <2>3. /\ offer' \in Offers!Shown /\ verdict' = None
        /\ offer'.kind = None \/ (room /\ offer'.kind = "return")
    BY <2>1, <2>2, OfferIsShown DEF Offers!Kind
  <2>4. Offers!Stands'
    BY <1>0, <1>5, <2>3 DEF room, Offers!GetReturnStations, Offers!Rows,
       Offers!Stands, Offers!Kind, Offers!IsEmpty
  <2> QED
    BY <1>0, <1>5, <2>3, <2>4, ShowStep
      DEF Offers!GetReturnStations, Offers!Rows, Offers!Ask, Offers!Kind
<1>6. CASE Offers!Accept
  <2>1. /\ UNCHANGED <<slots, place, renter, counted, offer, changed>>
        /\ offer.kind # "slot"
    BY <1>6 DEF Offers!Accept, Offers!Rows
  <2>2. verdict' = CASE offer.kind = "exact" -> Offers!StartAnswer(offer.slot)
                     [] offer.kind \in {"return", "detail"} -> Offers!AutoReturnAnswer
                     [] OTHER -> Offers!AutoStartAnswer
    BY <1>6 DEF Offers!Accept
  <2>3. \A s : /\ Offers!StartAnswer(s) \in Offers!Answer
               /\ Offers!BankIsIdle(s) => Offers!StartAnswer(s) # "slot"
               /\ place.online = "yes" => Offers!StartAnswer(s) # "offline"
               /\ ~renter.renting => Offers!StartAnswer(s) # "active"
               /\ renter.funded => Offers!StartAnswer(s) # "funds"
    BY DEF Offers!StartAnswer, Offers!Answer
  <2>4. /\ Offers!AutoStartAnswer \in Offers!Answer
        /\ (\E s \in Slot : Offers!BankIsIdle(s))
             => /\ Offers!AutoStartAnswer # "slot"
                /\ place.online = "yes" => Offers!AutoStartAnswer # "offline"
    BY <2>3 DEF Offers!AutoStartAnswer, Offers!Answer
  <2>5. /\ Offers!AutoReturnAnswer \in Offers!Answer
        /\ (\E s \in Slot : Offers!IsEmpty(s))
             => /\ Offers!AutoReturnAnswer # "slot"
                /\ renter.renting => Offers!AutoReturnAnswer # "active"
    BY DEF Offers!AutoReturnAnswer, Offers!Answer
  <2>6. verdict' \in Offers!Answer
    BY <2>2, <2>3, <2>4, <2>5
  <2>7. ASSUME ~changed PROVE verdict' \notin Offers!Excluded(offer.kind)
    <3>1. Offers!Stands
      BY <2>7 DEF Offers!OffersInv, Offers!OfferIsFresh
    <3>2. CASE offer.kind = "detail"
      <4>1. (\A s \in Slot : ~Offers!Contradicted(s))
              => \E s \in Slot : Offers!IsEmpty(s)
        BY <3>1, <3>2 DEF Offers!Stands, Offers!Contradicted, Offers!IsEmpty
      <4> QED
        BY <2>2, <2>5, <3>2, <4>1 DEF Offers!Excluded
    <3>3. CASE offer.kind # "detail"
      BY <2>2, <2>3, <2>4, <2>5, <3>1, <3>3, AvailableSlotsAreCounted
        DEF Offers!Stands, Offers!Excluded
    <3> QED
      BY <3>2, <3>3
  <2>8. Offers!OfferIsFresh'
    BY <2>1 DEF Offers!OffersInv, Offers!OfferIsFresh, Offers!Stands,
       Offers!AvailableSlots, Offers!BankIsIdle, Offers!IsEmpty
  <2>9. Offers!Excluded(offer.kind)' = Offers!Excluded(offer.kind)
    BY <2>1 DEF Offers!Excluded, Offers!Contradicted
  <2> QED
    BY <2>1, <2>6, <2>7, <2>8, <2>9
      DEF Offers!OffersInv, Offers!TypeOK, Offers!OffersAreHonoured,
          Offers!CountedBeforeOffering, Offers!SlotsAreOffered
<1>7. CASE Offers!Leave
  <2>1. /\ UNCHANGED <<slots, place, renter, counted, changed>>
        /\ verdict' = None /\ offer' \in Offers!Shown /\ offer'.kind = None
    BY <1>0, <1>7, NothingIsOffered DEF Offers!Leave, Offers!Rows
  <2>2. Offers!AvailableSlots' = Offers!AvailableSlots
    BY <2>1 DEF Offers!AvailableSlots, Offers!BankIsIdle
  <2>3. Offers!Stands' /\ Offers!OffersAreHonoured' /\ Offers!SlotsAreOffered'
    BY <1>0, <2>1 DEF Offers!Stands, Offers!OffersAreHonoured,
       Offers!SlotsAreOffered, Offers!Excluded, Offers!Kind
  <2> QED
    BY <2>1, <2>2, <2>3
      DEF Offers!OffersInv, Offers!TypeOK, Offers!CountedBeforeOffering,
          Offers!OfferIsFresh
<1>8. CASE Offers!RowsChange
  <2>1. /\ changed' = TRUE /\ UNCHANGED <<counted, offer, verdict>>
    BY <1>8 DEF Offers!RowsChange
  <2>2. /\ slots' \in [Slot -> Offers!SlotRow]
        /\ place' \in Offers!Place /\ renter' \in Offers!Renter
    BY <1>8 DEF Offers!RowsChange, Offers!OffersInv, Offers!TypeOK
  <2> QED
    BY <2>1, <2>2 DEF Offers!OffersInv, Offers!TypeOK, Offers!OffersAreHonoured,
       Offers!CountedBeforeOffering, Offers!SlotsAreOffered, Offers!OfferIsFresh
<1>9. ASSUME NEW s \in Slot \cup {None}, Offers!ResolveQr(s)
      PROVE  Offers!OffersInv'
  <2>1. /\ UNCHANGED <<slots, place, renter, changed>> /\ counted' = None
        /\ ~changed => counted = Offers!AvailableSlots
        /\ counted \in 0..Offers!Cardinality(Slot)
    BY <1>9 DEF Offers!ResolveQr, Offers!Rows, Offers!OffersInv, Offers!TypeOK,
       Offers!OfferIsFresh
  <2>2. CASE s \in Slot
    <3>1. /\ Offers!Offer("slot", s, Offers!DetectedRentable(s))
          /\ Offers!DetectedRentable(s) \in BOOLEAN
      BY <1>9, <2>2 DEF Offers!ResolveQr, Offers!DetectedRentable
    <3>2. /\ offer' \in Offers!Shown /\ verdict' = None
          /\ offer'.kind = None \/ (offer'.kind = "slot" /\ offer'.slot = s)
      BY <3>1, OfferIsShown DEF Offers!Kind
    <3>3. Offers!Stands'
      BY <1>0, <3>2 DEF Offers!Stands, Offers!Kind
    <3> QED
      BY <1>0, <2>1, <2>2, <3>2, <3>3, ShowStep
        DEF Offers!Kind, Offers!OffersInv, Offers!TypeOK
  <2>3. CASE s \notin Slot
    <3> DEFINE able == place.online = "yes" /\ counted > 0
    <3>1. Offers!Offer("auto", None, able) /\ able \in BOOLEAN
      BY <1>9, <2>3 DEF Offers!ResolveQr
    <3> HIDE DEF able
    <3>2. /\ offer' \in Offers!Shown /\ verdict' = None
          /\ offer'.kind = None \/ (able /\ offer'.kind = "auto")
      BY <3>1, OfferIsShown DEF Offers!Kind
    <3>3. ~changed' => Offers!Stands'
      BY <1>0, <2>1, <3>2 DEF able, Offers!Stands, Offers!Kind,
         Offers!AvailableSlots, Offers!BankIsIdle
    <3> QED
      BY <1>0, <2>1, <3>2, <3>3, ShowStep
        DEF Offers!Kind, Offers!OffersInv, Offers!TypeOK
  <2> QED
    BY <2>2, <2>3
<1>10. CASE Offers!ShowDetail
  <2> DEFINE room == \E s \in Slot : slots[s].status = "empty"
  <2>1. Offers!Offer("detail", None, room) /\ room \in BOOLEAN
    BY <1>10 DEF Offers!ShowDetail
  <2> HIDE DEF room
  <2>2. /\ offer' \in Offers!Shown /\ verdict' = None
        /\ offer'.kind = None \/ (room /\ offer'.kind = "detail")
    BY <2>1, OfferIsShown DEF Offers!Kind
  <2>3. Offers!Stands'
    BY <1>0, <1>10, <2>2 DEF room, Offers!ShowDetail, Offers!Rows, Offers!Stands, Offers!Kind
  <2> QED
    BY <1>0, <1>10, <2>2, <2>3, ShowStep
      DEF Offers!ShowDetail, Offers!Rows, Offers!Kind, Offers!OffersInv, Offers!TypeOK
<1> QED
  BY <1>1, <1>2, <1>3, <1>4, <1>5, <1>6, <1>7, <1>8, <1>9, <1>10 DEF Offers!Next

LEMMA OffersIsInv == Spec => []Offers!OffersInv
<1>1. Init => Offers!Init
  BY DEF Init
<1>2. [Next]_vars => [Offers!Next]_fv
  BY DEF Next, vars, fv
<1> QED
  BY <1>1, <1>2, OffersInit, OffersStep, PTL DEF Spec

\* As long as no row has changed since the offer, what the page offers is
\* accepted: the queries behind the lists, the detail, resolveQr and
\* previewStart count and choose the same slots as start() and return().
THEOREM OffersHold == Spec => []OffersAreHonoured
<1>1. Offers!OffersInv => OffersAreHonoured
  BY DEF Offers!OffersInv, OffersAreHonoured
<1> QED
  BY <1>1, OffersIsInv, PTL

(***************************************************************************)
(* Overview                                                                *)
(***************************************************************************)
LEMMA ThreeParts ==
    ASSUME NEW S, IsFiniteSet(S), NEW A, NEW B, NEW C,
           A \cup B \cup C = S, A \cap B = {}, (A \cup B) \cap C = {}
    PROVE  /\ Cardinality(A) \in Nat /\ Cardinality(B) \in Nat /\ Cardinality(C) \in Nat
           /\ Cardinality(S) = Cardinality(A) + Cardinality(B) + Cardinality(C)
<1>1. IsFiniteSet(A) /\ IsFiniteSet(B) /\ IsFiniteSet(C) /\ IsFiniteSet(A \cup B)
  <2>1. /\ A \in SUBSET S /\ B \in SUBSET S /\ C \in SUBSET S
        /\ A \cup B \in SUBSET S
    OBVIOUS
  <2> QED
    BY <2>1, FS_Subset
<1>2. /\ Cardinality(A) \in Nat /\ Cardinality(B) \in Nat /\ Cardinality(C) \in Nat
      /\ Cardinality(A \cup B) \in Nat
  BY <1>1, FS_CardinalityType
<1>3. Cardinality(A \cup B) = Cardinality(A) + Cardinality(B) - Cardinality(A \cap B)
  BY <1>1, FS_Union
<1>4. Cardinality(S) = Cardinality(A \cup B) + Cardinality(C) - Cardinality((A \cup B) \cap C)
  BY <1>1, FS_Union
<1>5. Cardinality(A \cap B) = 0 /\ Cardinality((A \cup B) \cap C) = 0
  BY FS_EmptySet
<1> QED
  BY <1>2, <1>3, <1>4, <1>5

\* The instance's own Cardinality is that of the library.
LEMMA OverviewCardinality == \A S : Overview!Cardinality(S) = Cardinality(S)
BY DEF Overview!Cardinality, Cardinality

LEMMA StatusesAddUp ==
    ASSUME Overview!TypeOK
    PROVE  /\ Cardinality(Overview!Created) \in Nat
           /\ Overview!StationCounts(Overview!ByStatus) = Cardinality(Overview!Created)
<1> DEFINE In(t) == {s \in Station : stations[s].status = t}
<1>1. IsFiniteSet(Overview!Created)
  BY PartsAssumption, FS_Subset DEF PartsAssumption, Overview!Created
<1>2. /\ In("active") \cup In("inactive") \cup In("maintenance") = Overview!Created
      /\ In("active") \cap In("inactive") = {}
      /\ (In("active") \cup In("inactive")) \cap In("maintenance") = {}
  BY DEF Overview!TypeOK, Overview!Created, Overview!Status
<1>3. \A t \in Overview!Status : Overview!ByStatus[t] = Cardinality(In(t))
  BY OverviewCardinality DEF Overview!ByStatus, Overview!CountOf
<1> HIDE DEF In
<1> QED
  BY <1>1, <1>2, <1>3, ThreeParts, FS_CardinalityType
    DEF Overview!StationCounts, Overview!Sum, Overview!Status

LEMMA CabinetsAddUp ==
    ASSUME Overview!TypeOK
    PROVE  /\ Overview!Records \in [Overview!CabinetState -> Nat]
           /\ Overview!TotalStations(Overview!Records) = Cardinality(Overview!Created)
<1> DEFINE With(c) == {s \in Overview!Created : stations[s].cabinet = c}
<1>1. IsFiniteSet(Overview!Created)
  BY PartsAssumption, FS_Subset DEF PartsAssumption, Overview!Created
<1>2. /\ With("none") \cup With("fresh") \cup With("old") = Overview!Created
      /\ With("none") \cap With("fresh") = {}
      /\ (With("none") \cup With("fresh")) \cap With("old") = {}
  BY DEF Overview!TypeOK, Overview!Created, Overview!CabinetState
<1>3. /\ \A c \in Overview!CabinetState : Overview!Records[c] = Cardinality(With(c))
      /\ Overview!Records = [c \in Overview!CabinetState |-> Overview!Records[c]]
  BY OverviewCardinality DEF Overview!Records, Overview!CountOf
<1> HIDE DEF With
<1>4. /\ Cardinality(With("none")) \in Nat /\ Cardinality(With("fresh")) \in Nat
      /\ Cardinality(With("old")) \in Nat
      /\ Cardinality(Overview!Created) = Cardinality(With("none")) + Cardinality(With("fresh")) + Cardinality(With("old"))
  BY <1>1, <1>2, ThreeParts
<1> QED
  BY <1>3, <1>4 DEF Overview!TotalStations, Overview!CabinetState

LEMMA OverviewInit == Overview!Init => Overview!OverviewInv
<1> SUFFICES ASSUME Overview!Init PROVE Overview!OverviewInv
  OBVIOUS
<1>1. stations \in [Station -> [status : Overview!Status \cup {"none"},
                                cabinet : Overview!CabinetState]]
  BY DEF Overview!Init, Overview!Status, Overview!CabinetState
<1>2. /\ completed \in [rows : Nat, today : Nat] /\ completed.today <= completed.rows
  BY DEF Overview!Init
<1>3. /\ writes \in 0..MaxWrites /\ since = Overview!Idle
      /\ Overview!Idle \in 0..Overview!Idle
  <2>1. MaxWrites \in Nat
    BY PartsAssumption DEF PartsAssumption
  <2>2. writes = 0 /\ since = Overview!Idle
    BY Zenon DEF Overview!Init
  <2> QED
    BY <2>1, <2>2 DEF Overview!Idle
<1>4. snapshot = Overview!NoAnswer /\ snapshot.writes = Overview!Idle
  BY Zenon DEF Overview!Init, Overview!NoAnswer
<1>5. gathered = <<>> /\ failed = FALSE
  BY Zenon DEF Overview!Init
<1>6. DOMAIN gathered = {}
  BY <1>5
<1>7. failed \in BOOLEAN
  BY <1>5, Zenon
<1> QED
  BY <1>1, <1>2, <1>3, <1>4, <1>6, <1>7 DEF Overview!OverviewInv, Overview!TypeOK,
     Overview!TodayIsCompleted, Overview!CountsLag

\* What the rest of the system writes, one row at a time.
LEMMA OverviewWriteStep ==
    ASSUME Overview!OverviewInv, Overview!Write,
           stations' \in [Station -> [status : Overview!Status \cup {"none"},
                                      cabinet : Overview!CabinetState]],
           completed' \in [rows : Nat, today : Nat],
           completed'.rows \in {completed.rows, completed.rows + 1},
           completed'.today \in {completed.today, completed.today + 1},
           completed'.today <= completed'.rows,
           Cardinality(Overview!Created)' \in {Cardinality(Overview!Created),
                                               Cardinality(Overview!Created) + 1}
    PROVE  Overview!OverviewInv'
<1>1. /\ writes \in Nat /\ writes' = writes + 1 /\ writes' \in 0..MaxWrites
      /\ UNCHANGED <<gathered, since, snapshot, failed>>
  BY PartsAssumption
    DEF PartsAssumption, Overview!Write, Overview!OverviewInv, Overview!TypeOK
<1>2. Overview!TypeOK' /\ Overview!TodayIsCompleted'
  BY <1>1 DEF Overview!OverviewInv, Overview!TypeOK, Overview!TodayIsCompleted,
     Overview!Idle
<1>3. Cardinality(Overview!Created) \in Nat
  BY StatusesAddUp DEF Overview!OverviewInv
<1>4. ASSUME since # Overview!Idle, NEW n \in Nat, NEW m \in {n, n + 1}, NEW figure,
             Overview!Lags(figure, n)
      PROVE  figure \in Nat /\ figure <= m /\ m - figure <= writes' - since'
  <2>1. since \in Nat
    BY PartsAssumption
      DEF PartsAssumption, Overview!OverviewInv, Overview!TypeOK, Overview!Idle
  <2> QED
    BY <1>1, <1>4, <2>1 DEF Overview!Lags
<1>5. Overview!CountsLag'
  <2> SUFFICES ASSUME since # Overview!Idle PROVE Overview!CountsLag'
    BY <1>1 DEF Overview!CountsLag, Overview!Idle
  <2>1. /\ since <= writes /\ since \in Nat
        /\ "completed" \in DOMAIN gathered =>
              Overview!Lags(gathered["completed"], completed.rows)
        /\ "today" \in DOMAIN gathered =>
              Overview!Lags(gathered["today"], completed.today)
        /\ "byStatus" \in DOMAIN gathered =>
              Overview!Lags(Overview!StationCounts(gathered["byStatus"]),
                            Cardinality(Overview!Created))
        /\ "records" \in DOMAIN gathered =>
              /\ gathered["records"] \in [Overview!CabinetState -> Nat]
              /\ Overview!Lags(Overview!TotalStations(gathered["records"]),
                               Cardinality(Overview!Created))
    BY PartsAssumption, OverviewCardinality
      DEF PartsAssumption, Overview!OverviewInv, Overview!CountsLag, Overview!TypeOK,
          Overview!Idle
  <2>2. completed.rows \in Nat /\ completed.today \in Nat
    BY DEF Overview!OverviewInv, Overview!TypeOK
  <2>3. /\ "completed" \in DOMAIN gathered =>
              Overview!Lags(gathered["completed"], completed.rows)'
        /\ "today" \in DOMAIN gathered =>
              Overview!Lags(gathered["today"], completed.today)'
    BY <1>1, <1>4, <2>1, <2>2 DEF Overview!Lags
  <2>4. /\ "byStatus" \in DOMAIN gathered =>
              Overview!Lags(Overview!StationCounts(gathered["byStatus"]),
                            Cardinality(Overview!Created))'
        /\ "records" \in DOMAIN gathered =>
              Overview!Lags(Overview!TotalStations(gathered["records"]),
                            Cardinality(Overview!Created))'
    BY <1>1, <1>3, <1>4, <2>1 DEF Overview!Lags
  <2> QED
    BY <1>1, <2>1, <2>3, <2>4, OverviewCardinality DEF Overview!CountsLag
<1> QED
  BY <1>1, <1>2, <1>5 DEF Overview!OverviewInv, Overview!FiguresAgree

LEMMA OverviewStep == Overview!OverviewInv /\ [Overview!Next]_wv => Overview!OverviewInv'
<1> SUFFICES ASSUME Overview!OverviewInv, [Overview!Next]_wv
             PROVE  Overview!OverviewInv'
  OBVIOUS
<1>0. /\ Cardinality(Overview!Created) \in Nat
      /\ IsFiniteSet(Overview!Created)
      /\ completed \in [rows : Nat, today : Nat] /\ completed.today <= completed.rows
      /\ stations \in [Station -> [status : Overview!Status \cup {"none"},
                                   cabinet : Overview!CabinetState]]
  BY StatusesAddUp, PartsAssumption, FS_Subset
    DEF PartsAssumption, Overview!OverviewInv, Overview!Created, Overview!TypeOK,
        Overview!TodayIsCompleted
<1>1. CASE UNCHANGED wv
  BY <1>1 DEF wv, Overview!OverviewInv, Overview!TypeOK, Overview!TodayIsCompleted,
     Overview!CountsLag, Overview!Lags, Overview!Created, Overview!FiguresAgree,
     Overview!StationCounts, Overview!Sum, Overview!TotalStations
<1>2. CASE Overview!CompleteRental
  <2>1. /\ completed' \in [rows : Nat, today : Nat]
        /\ completed'.rows = completed.rows + 1
        /\ completed'.today = completed.today + 1
        /\ completed'.today <= completed'.rows
    BY <1>0, <1>2 DEF Overview!CompleteRental
  <2>2. Overview!Created' = Overview!Created
    BY <1>2 DEF Overview!CompleteRental, Overview!Created
  <2> QED
    BY <1>0, <1>2, <2>1, <2>2, OverviewWriteStep DEF Overview!CompleteRental
<1>3. ASSUME NEW s \in Station, Overview!CreateStation(s)
      PROVE  Overview!OverviewInv'
  <2>1. /\ Overview!Created' = Overview!Created \cup {s}
        /\ stations' \in [Station -> [status : Overview!Status \cup {"none"},
                                      cabinet : Overview!CabinetState]]
    BY <1>0, <1>3 DEF Overview!CreateStation, Overview!Created, Overview!Status,
       Overview!CabinetState
  <2>2. Cardinality(Overview!Created)' \in {Cardinality(Overview!Created),
                                            Cardinality(Overview!Created) + 1}
    BY <1>0, <2>1, FS_AddElement
  <2> QED
    BY <1>0, <1>3, <2>1, <2>2, OverviewWriteStep DEF Overview!CreateStation
<1>4. ASSUME NEW s \in Station, Overview!ChangeStatus(s) \/ Overview!ChangeCabinet(s)
      PROVE  Overview!OverviewInv'
  <2>1. /\ Overview!Created' = Overview!Created
        /\ stations' \in [Station -> [status : Overview!Status \cup {"none"},
                                      cabinet : Overview!CabinetState]]
    BY <1>0, <1>4 DEF Overview!ChangeStatus, Overview!ChangeCabinet, Overview!Created,
       Overview!Status, Overview!CabinetState
  <2> QED
    BY <1>0, <1>4, <2>1, OverviewWriteStep
      DEF Overview!ChangeStatus, Overview!ChangeCabinet
<1>5. CASE Overview!Ask
  <2>1. /\ UNCHANGED <<stations, completed, writes, snapshot, failed>>
        /\ since' = writes /\ DOMAIN gathered' = {}
    BY <1>5 DEF Overview!Ask, Overview!database
  <2>2. writes \in Nat /\ writes \in 0..Overview!Idle
    BY PartsAssumption
      DEF PartsAssumption, Overview!OverviewInv, Overview!TypeOK, Overview!Idle
  <2> QED
    BY <2>1, <2>2 DEF Overview!OverviewInv, Overview!TypeOK, Overview!TodayIsCompleted,
       Overview!CountsLag, Overview!FiguresAgree
<1>6. CASE Overview!Answered
  <2>1. /\ UNCHANGED <<stations, completed, writes>>
        /\ since' = Overview!Idle /\ DOMAIN gathered' = {} /\ failed' = FALSE
        /\ since # Overview!Idle /\ DOMAIN gathered = Overview!Query
    BY <1>6 DEF Overview!Answered, Overview!database
  <2>2. /\ Overview!Lags(gathered["completed"], completed.rows)
        /\ Overview!Lags(gathered["today"], completed.today)
        /\ Overview!Lags(Overview!StationCounts(gathered["byStatus"]),
                         Cardinality(Overview!Created))
        /\ gathered["records"] \in [Overview!CabinetState -> Nat]
        /\ Overview!Lags(Overview!TotalStations(gathered["records"]),
                         Cardinality(Overview!Created))
        /\ since <= writes /\ since \in Nat /\ writes \in 0..MaxWrites
    BY <2>1, PartsAssumption, OverviewCardinality
      DEF PartsAssumption, Overview!OverviewInv, Overview!CountsLag, Overview!TypeOK,
          Overview!Query, Overview!Idle
  <2>3. /\ snapshot'.writes = writes - since
        /\ snapshot'.stations = Overview!TotalStations(gathered["records"])
        /\ snapshot'.inStatus = Overview!StationCounts(gathered["byStatus"])
        /\ snapshot'.health = Overview!CalculateCabinetHealth(gathered["records"])
        /\ snapshot'.completed = gathered["completed"]
        /\ snapshot'.today = gathered["today"]
    BY <1>6 DEF Overview!Answered
  <2>4. /\ snapshot'.health.online + snapshot'.health.offline <= snapshot'.stations
        /\ snapshot'.stations \in Nat
    BY <2>2, <2>3 DEF Overview!CalculateCabinetHealth, Overview!TotalStations,
       Overview!CabinetState
  <2>5. Overview!FiguresAgree'
    <3>1. completed.rows \in Nat /\ completed.today \in Nat
      BY <1>0
    <3>2. /\ gathered["today"] - gathered["completed"] <= writes - since
          /\ \A m, n : /\ Overview!Lags(m, Cardinality(Overview!Created))
                       /\ Overview!Lags(n, Cardinality(Overview!Created))
                       => m - n <= writes - since
      BY <1>0, <2>2, <3>1 DEF Overview!Lags
    <3>3. /\ snapshot'.today - snapshot'.completed <= snapshot'.writes
          /\ snapshot'.inStatus - snapshot'.stations <= snapshot'.writes
          /\ snapshot'.stations - snapshot'.inStatus <= snapshot'.writes
      BY <2>2, <2>3, <3>2, Zenon
    <3> QED
      BY <2>4, <3>3, Zenon DEF Overview!FiguresAgree
  <2>6. Overview!TypeOK'
    <3>1. writes - since \in 0..Overview!Idle /\ Overview!Idle \in 0..Overview!Idle
      BY <2>2, PartsAssumption DEF PartsAssumption, Overview!Idle
    <3>2. failed' \in BOOLEAN /\ DOMAIN gathered' \subseteq Overview!Query
      BY <2>1
    <3> QED
      BY <2>1, <2>3, <3>1, <3>2, Zenon DEF Overview!OverviewInv, Overview!TypeOK
  <2> QED
    BY <2>1, <2>5, <2>6 DEF Overview!OverviewInv, Overview!TodayIsCompleted,
       Overview!CountsLag, Overview!Idle
<1>7. CASE Overview!Fails
  <2>1. /\ UNCHANGED <<stations, completed, writes, snapshot>>
        /\ since' = Overview!Idle /\ DOMAIN gathered' = {} /\ failed' = TRUE
    BY <1>7 DEF Overview!Fails, Overview!database
  <2> QED
    BY <2>1, PartsAssumption
      DEF PartsAssumption, Overview!OverviewInv, Overview!TypeOK,
          Overview!TodayIsCompleted, Overview!CountsLag, Overview!FiguresAgree,
          Overview!Idle
<1>8. ASSUME NEW q \in Overview!Query, Overview!Count(q)
      PROVE  Overview!OverviewInv'
  <2>1. /\ UNCHANGED <<stations, completed, writes, since, snapshot, failed>>
        /\ since # Overview!Idle /\ q \notin DOMAIN gathered
        /\ DOMAIN gathered' = DOMAIN gathered \cup {q}
        /\ gathered'[q] = Overview!Value(q)
        /\ \A r \in DOMAIN gathered : gathered'[r] = gathered[r]
    BY <1>8 DEF Overview!Count, Overview!database
  <2>2. /\ Overview!Created' = Overview!Created
        /\ since <= writes /\ since \in Nat /\ writes \in Nat
    BY <2>1, PartsAssumption
      DEF PartsAssumption, Overview!Created, Overview!OverviewInv,
          Overview!CountsLag, Overview!TypeOK, Overview!Idle
  <2>4. /\ q = "completed" => Overview!Lags(gathered'["completed"], completed.rows)
        /\ q = "today" => Overview!Lags(gathered'["today"], completed.today)
    BY <1>0, <2>1, <2>2 DEF Overview!Value, Overview!Lags
  <2>5. q = "byStatus" =>
          Overview!Lags(Overview!StationCounts(gathered'["byStatus"]),
                        Cardinality(Overview!Created))
    BY <1>0, <2>1, <2>2, StatusesAddUp
      DEF Overview!Value, Overview!Lags, Overview!OverviewInv
  <2>6. q = "records" =>
          /\ gathered'["records"] \in [Overview!CabinetState -> Nat]
          /\ Overview!Lags(Overview!TotalStations(gathered'["records"]),
                           Cardinality(Overview!Created))
    BY <1>0, <2>1, <2>2, CabinetsAddUp
      DEF Overview!Value, Overview!Lags, Overview!OverviewInv
  <2>7. Overview!CountsLag'
    <3>1. Overview!CountsLag
      BY DEF Overview!OverviewInv
    <3> QED
      BY <2>1, <2>2, <2>4, <2>5, <2>6, <3>1, OverviewCardinality
        DEF Overview!CountsLag, Overview!Lags
  <2> QED
    BY <2>1, <2>7 DEF Overview!OverviewInv, Overview!TypeOK, Overview!TodayIsCompleted,
       Overview!FiguresAgree
<1> QED
  BY <1>1, <1>2, <1>3, <1>4, <1>5, <1>6, <1>7, <1>8 DEF Overview!Next

LEMMA OverviewIsInv == Spec => []Overview!OverviewInv
<1>1. Init => Overview!Init
  BY DEF Init
<1>2. [Next]_vars => [Overview!Next]_wv
  BY DEF Next, vars, wv
<1> QED
  BY <1>1, <1>2, OverviewInit, OverviewStep, PTL DEF Spec

\* However many stations there are and whatever is written between the
\* queries of getOverviewSnapshot, the dashboard's figures contradict each
\* other by no more than those writes.
THEOREM FiguresDriftLittle == Spec => []FiguresDriftByWrites
<1>1. Overview!OverviewInv => FiguresDriftByWrites
  BY DEF Overview!OverviewInv, FiguresDriftByWrites, Overview!FiguresDriftByWrites,
     Overview!Shown
<1> QED
  BY <1>1, OverviewIsInv, PTL

(***************************************************************************)
(* AdminLists                                                              *)
(***************************************************************************)
LEMMA ListsCardinality == \A S : AdminLists!Cardinality(S) = Cardinality(S)
BY DEF AdminLists!Cardinality, Cardinality

LEMMA ListBounds ==
    /\ MaxRows \in Nat /\ Limit \in Nat \ {0} /\ MaxRows \div Limit \in Nat
    /\ \A p \in AdminLists!Pages : p \in Nat \ {0}
    /\ 1 \in AdminLists!Pages
BY PartsAssumption DEF PartsAssumption, AdminLists!Pages

LEMMA RowsHaveTimes ==
    ASSUME AdminLists!TypeOK, NEW r \in 1..created PROVE CreatedAt[r] \in Nat
<1>1. created \in 0..MaxRows /\ MaxRows \in Nat /\ CreatedAt \in [1..MaxRows -> Nat]
  BY PartsAssumption DEF PartsAssumption, AdminLists!TypeOK
<1>2. r \in 1..MaxRows
  BY <1>1
<1> QED
  BY <1>1, <1>2

\* The rows a filter selects are finitely many and among those created.
LEMMA MatchingRows ==
    ASSUME AdminLists!TypeOK, NEW f \in AdminLists!Filter
    PROVE  /\ AdminLists!Matching(f) \in SUBSET (1..created)
           /\ IsFiniteSet(AdminLists!Matching(f))
           /\ Cardinality(AdminLists!Matching(f)) \in 0..MaxRows
<1>1. created \in Nat /\ created <= MaxRows
  BY ListBounds DEF AdminLists!TypeOK
<1>2. AdminLists!Matching(f) \in SUBSET (1..created)
  BY <1>1 DEF AdminLists!TypeOK, AdminLists!Matching, AdminLists!Filter
<1>3. IsFiniteSet(1..created) /\ Cardinality(1..created) = created
  BY <1>1, FS_Interval
<1>4. /\ IsFiniteSet(AdminLists!Matching(f))
      /\ Cardinality(AdminLists!Matching(f)) <= Cardinality(1..created)
  BY <1>2, <1>3, FS_Subset
<1> QED
  BY <1>1, <1>2, <1>3, <1>4, FS_CardinalityType, ListBounds

\* A row that matches is not among those listed before it.
LEMMA NewerRows ==
    ASSUME AdminLists!TypeOK, NEW f \in AdminLists!Filter,
           NEW r \in AdminLists!Matching(f)
    PROVE  /\ AdminLists!Newer(r, f) \in Nat
           /\ Cardinality(AdminLists!Matching(f)) >= AdminLists!Newer(r, f) + 1
<1> DEFINE M == AdminLists!Matching(f)
           Before == {q \in M : CreatedAt[q] > CreatedAt[r]}
<1>1. M \in SUBSET (1..created) /\ IsFiniteSet(M) /\ Cardinality(M) \in Nat
  BY MatchingRows
<1>2. AdminLists!Newer(r, f) = Cardinality(Before)
  BY ListsCardinality DEF AdminLists!Newer
<1>3. Before \cup {r} \in SUBSET M /\ Before \in SUBSET M /\ r \notin Before
  <2>1. CreatedAt[r] \in Nat
    BY <1>1, RowsHaveTimes
  <2> QED
    BY <2>1
<1> HIDE DEF M, Before
<1>4. /\ IsFiniteSet(Before) /\ Cardinality(Before) \in Nat
      /\ Cardinality(Before \cup {r}) <= Cardinality(M)
  BY <1>1, <1>3, FS_Subset, FS_CardinalityType
<1>5. Cardinality(Before \cup {r}) = Cardinality(Before) + 1
  BY <1>3, <1>4, FS_AddElement
<1> QED
  BY <1>1, <1>2, <1>4, <1>5 DEF M

LEMMA WholePages ==
    ASSUME NEW a \in Nat, NEW b \in Nat \ {0}
    PROVE  a < (a \div b) * b + b
OBVIOUS

\* The pages of a list hold all its rows.
LEMMA PagesHoldAll ==
    ASSUME NEW n \in Nat
    PROVE  n <= AdminLists!TotalPages(n) * Limit
<1>1. Limit \in Nat \ {0}
  BY ListBounds
<1>2. CASE n = 0
  BY <1>1, <1>2 DEF AdminLists!TotalPages
<1>3. CASE n # 0
  <2> DEFINE p == (n + Limit - 1) \div Limit
  <2>1. n + Limit - 1 \in Nat
    BY <1>1
  <2>2. n + Limit - 1 < p * Limit + Limit /\ p \in Nat
    BY <1>1, <2>1, WholePages
  <2>3. AdminLists!TotalPages(n) = p
    BY <1>3 DEF AdminLists!TotalPages
  <2> HIDE DEF p
  <2>4. p * Limit \in Nat
    BY <1>1, <2>2
  <2> QED
    BY <1>1, <2>2, <2>3, <2>4
<1> QED
  BY <1>2, <1>3

LEMMA ListRecords ==
    /\ AdminLists!Unanswered \in AdminLists!Answer
    /\ AdminLists!Unread \in AdminLists!Reading
    /\ AdminLists!Unread.total = MaxRows + 1 /\ AdminLists!Unread.rows = {0}
    /\ AdminLists!Unanswered.rows = {0}
<1>1. MaxRows \in Nat
  BY ListBounds
<1>2. 0 \in 0..MaxRows /\ MaxRows + 1 \in 0..(MaxRows + 1)
  BY <1>1
<1>3. {0} \in AdminLists!Listed
  BY DEF AdminLists!Listed
<1> QED
  BY <1>2, <1>3, Zenon DEF AdminLists!Unanswered, AdminLists!Unread, AdminLists!Answer,
     AdminLists!Reading

LEMMA BrowsingInit == AdminLists!Init => AdminLists!BrowsingInv
<1> SUFFICES ASSUME AdminLists!Init PROVE AdminLists!BrowsingInv
  OBVIOUS
<1>1. /\ created \in 0..MaxRows /\ open \subseteq 1..created /\ page = 1
      /\ filter = "all" /\ answer = AdminLists!Unanswered
      /\ reading = AdminLists!Unread
      /\ kept = [k \in AdminLists!Filter \X AdminLists!Pages |-> AdminLists!Unanswered]
      /\ unseen = AdminLists!Sought("all")
  BY DEF AdminLists!Init
<1>2. /\ AdminLists!Unanswered \in AdminLists!Answer
      /\ AdminLists!Unread \in AdminLists!Reading
      /\ AdminLists!Unread.total = MaxRows + 1 /\ AdminLists!Unread.rows = {0}
  BY ListRecords
<1>3. AdminLists!TypeOK
  <2>1. unseen \subseteq 1..created
    BY <1>1 DEF AdminLists!Sought, AdminLists!Matching
  <2> QED
    BY <1>1, <1>2, <2>1, ListBounds DEF AdminLists!TypeOK, AdminLists!Filter
<1>4. /\ unseen = AdminLists!Sought(filter) /\ (page - 1) * Limit = 0
      /\ filter \in AdminLists!Filter
  BY <1>1, ListBounds DEF AdminLists!Filter
<1>5. AdminLists!UnseenAreAhead
  <2>1. \A r \in unseen : r \in AdminLists!Matching(filter)
    BY <1>4 DEF AdminLists!Sought
  <2> QED
    BY <1>3, <1>4, <2>1, NewerRows DEF AdminLists!UnseenAreAhead, AdminLists!IsAfter
<1> QED
  BY <1>1, <1>2, <1>3, <1>5
    DEF AdminLists!BrowsingInv, AdminLists!AnswerPromisesMore,
        AdminLists!ReadingPromisesMore

LEMMA ListsKeepTypes ==
    ASSUME AdminLists!TypeOK, [AdminLists!Next]_lv PROVE AdminLists!TypeOK'
<1>1. /\ AdminLists!Unanswered \in AdminLists!Answer
      /\ AdminLists!Unread \in AdminLists!Reading
      /\ AdminLists!Unread.total = MaxRows + 1
  BY ListRecords
<1>2. \A f \in AdminLists!Filter : AdminLists!Matching(f) \in SUBSET (1..created)
  BY MatchingRows
<1>3. ASSUME NEW f \in AdminLists!Filter, NEW p \in AdminLists!Pages,
             AdminLists!Show(f, p),
             unseen' \in {AdminLists!Spoilt, unseen, AdminLists!Sought(f)}
      PROVE  AdminLists!TypeOK'
  BY <1>1, <1>2, <1>3 DEF AdminLists!Show, AdminLists!Sought, AdminLists!TypeOK
<1>4. CASE UNCHANGED lv
  BY <1>4 DEF lv, AdminLists!TypeOK
<1>5. CASE \E f \in AdminLists!Filter : AdminLists!Choose(f)
  BY <1>3, <1>5, ListBounds DEF AdminLists!Choose
<1>6. CASE AdminLists!ChooseDates
  BY <1>3, <1>6, ListBounds DEF AdminLists!ChooseDates, AdminLists!Filter,
     AdminLists!TypeOK
<1>7. CASE AdminLists!NextPage
  <2>1. page + 1 \in AdminLists!Pages /\ filter \in AdminLists!Filter
    BY <1>7, ListBounds DEF AdminLists!NextPage, AdminLists!TypeOK, AdminLists!Pages
  <2> QED
    BY <1>3, <1>7, <2>1 DEF AdminLists!NextPage
<1>8. CASE AdminLists!PreviousPage
  <2>1. page - 1 \in AdminLists!Pages /\ filter \in AdminLists!Filter
    BY <1>8, ListBounds DEF AdminLists!PreviousPage, AdminLists!TypeOK,
       AdminLists!Pages
  <2> QED
    BY <1>3, <1>8, <2>1 DEF AdminLists!PreviousPage
<1>9. CASE AdminLists!ReadRows
  <2>1. PICK s \in AdminLists!FindMany(filter, page) :
           reading' = [reading EXCEPT !.rows = s]
    BY <1>9 DEF AdminLists!ReadRows
  <2>3. s \in AdminLists!Listed
    BY <1>2, ListBounds DEF AdminLists!FindMany, AdminLists!TypeOK, AdminLists!Listed
  <2>2. reading' \in AdminLists!Reading
    BY <2>1, <2>3 DEF AdminLists!TypeOK, AdminLists!Reading
  <2> QED
    BY <1>9, <2>2 DEF AdminLists!ReadRows, AdminLists!TypeOK
<1>10. CASE AdminLists!ReadTotal
  <2>1. AdminLists!Cardinality(AdminLists!Matching(filter)) \in 0..(MaxRows + 1)
    BY MatchingRows, ListsCardinality, ListBounds DEF AdminLists!TypeOK
  <2>2. reading' \in AdminLists!Reading
    BY <1>10, <2>1 DEF AdminLists!ReadTotal, AdminLists!TypeOK, AdminLists!Reading
  <2> QED
    BY <1>10, <2>2 DEF AdminLists!ReadTotal, AdminLists!TypeOK
<1>11. CASE AdminLists!Answered
  <2>1. reading \in AdminLists!Answer
    <3>1. /\ reading \in AdminLists!Reading /\ reading.total # MaxRows + 1
      BY <1>1, <1>11 DEF AdminLists!Answered, AdminLists!TypeOK
    <3> QED
      BY <3>1, ListBounds DEF AdminLists!Reading, AdminLists!Answer
  <2>2. unseen' = AdminLists!Spoilt \/ unseen' \subseteq 1..created
    BY <1>11 DEF AdminLists!Answered, AdminLists!TypeOK, AdminLists!Spoilt
  <2>3. kept' \in [AdminLists!Filter \X AdminLists!Pages -> AdminLists!Answer]
    BY <1>11, <2>1 DEF AdminLists!Answered, AdminLists!TypeOK
  <2> QED
    BY <1>1, <1>11, <2>1, <2>2, <2>3 DEF AdminLists!Answered, AdminLists!TypeOK
<1>12. CASE AdminLists!ReadFails
  BY <1>1, <1>12 DEF AdminLists!ReadFails, AdminLists!TypeOK
<1>13. CASE AdminLists!Forget
  BY <1>1, <1>13 DEF AdminLists!Forget, AdminLists!TypeOK
<1>14. CASE AdminLists!Create
  <2>1. /\ created' \in 0..MaxRows /\ open' \subseteq 1..created'
        /\ 1..created \subseteq 1..created'
    BY <1>14, ListBounds DEF AdminLists!Create, AdminLists!TypeOK
  <2> QED
    BY <1>14, <2>1 DEF AdminLists!Create, AdminLists!TypeOK
<1>15. CASE AdminLists!Leave
  BY <1>15 DEF AdminLists!Leave, AdminLists!TypeOK
<1> QED
  BY <1>4, <1>5, <1>6, <1>7, <1>8, <1>9, <1>10, <1>11, <1>12, <1>13, <1>14, <1>15
    DEF AdminLists!Next

\* Newer rows can only be added before a row.
LEMMA MoreAreNewer ==
    ASSUME NEW T, IsFiniteSet(T), NEW S \in SUBSET T, NEW r
    PROVE  Cardinality({q \in S : CreatedAt[q] > CreatedAt[r]})
              <= Cardinality({q \in T : CreatedAt[q] > CreatedAt[r]})
<1> DEFINE Before(S0) == {q \in S0 : CreatedAt[q] > CreatedAt[r]}
<1>1. Before(T) \in SUBSET T /\ Before(S) \in SUBSET Before(T)
  OBVIOUS
<1> QED
  BY <1>1, FS_Subset

\* A screen that asks for another page, and knows which rows are ahead.
LEMMA ShowKeepsPromises ==
    ASSUME AdminLists!TypeOK', reading' = AdminLists!Unread,
           unseen' # AdminLists!Spoilt => /\ answer' = AdminLists!Unanswered
                                          /\ AdminLists!UnseenAreAhead'
    PROVE  AdminLists!BrowsingInv'
<1>1. /\ AdminLists!Unread.total' = AdminLists!Unread.total
      /\ AdminLists!Unread.rows' = AdminLists!Unread.rows
  OBVIOUS
<1> QED
  BY <1>1 DEF AdminLists!BrowsingInv, AdminLists!AnswerPromisesMore,
     AdminLists!ReadingPromisesMore, AdminLists!Unread, AdminLists!Unanswered

\* A row with a time of its own has one place, and the page that has the place
\* has the row.
LEMMA PageShowsAlone ==
    ASSUME AdminLists!TypeOK, NEW f \in AdminLists!Filter,
           NEW p \in AdminLists!Pages,
           NEW s \in AdminLists!FindMany(f, p),
           NEW r \in AdminLists!Matching(f) \cap AdminLists!Alone, r \notin s
    PROVE  AdminLists!Newer(r, f)
              \notin AdminLists!Skip(p)..(AdminLists!Skip(p) + Limit - 1)
<1> DEFINE n == AdminLists!Newer(r, f)
           a == AdminLists!Skip(p)
           Page == a..(a + Limit - 1)
<1> SUFFICES ASSUME n \in Page PROVE FALSE
  OBVIOUS
<1>1. n \in Nat
  BY NewerRows
<1>2. AdminLists!Peers(r, f) = {r}
  <2>1. \A q \in AdminLists!Matching(f) : q \in 1..MaxRows
    BY MatchingRows, ListBounds DEF AdminLists!TypeOK
  <2> QED
    BY <2>1 DEF AdminLists!Peers, AdminLists!Alone
<1>3. Cardinality({r}) = 1 /\ Cardinality({}) = 0 /\ Cardinality({n}) = 1
  BY FS_Singleton, FS_EmptySet
<1>4. /\ s \cap AdminLists!Peers(r, f) = {}
      /\ Cardinality(s \cap AdminLists!Peers(r, f))
            = Cardinality(AdminLists!PlacesOnPage(r, f, p))
  BY <1>2, ListsCardinality DEF AdminLists!FindMany
<1>5. AdminLists!PlacesOnPage(r, f, p) = (n..(n + 1 - 1)) \cap Page
  BY <1>2, <1>3, ListsCardinality DEF AdminLists!PlacesOnPage
<1> HIDE DEF n, a, Page
<1>6. n..(n + 1 - 1) = {n}
  BY <1>1
<1>7. AdminLists!PlacesOnPage(r, f, p) = {n}
  BY <1>5, <1>6
<1> QED
  BY <1>3, <1>4, <1>7

LEMMA BrowsingStep ==
    AdminLists!BrowsingInv /\ [AdminLists!Next]_lv => AdminLists!BrowsingInv'
<1> SUFFICES ASSUME AdminLists!BrowsingInv, [AdminLists!Next]_lv
             PROVE  AdminLists!BrowsingInv'
  OBVIOUS
<1>1. AdminLists!TypeOK /\ AdminLists!TypeOK'
  BY ListsKeepTypes DEF AdminLists!BrowsingInv
<1>2. /\ page \in Nat \ {0} /\ filter \in AdminLists!Filter
      /\ Limit \in Nat \ {0} /\ 1 \in AdminLists!Pages
      /\ AdminLists!Unread.total = MaxRows + 1 /\ AdminLists!Unread.rows = {0}
      /\ AdminLists!Unanswered.rows = {0}
  BY <1>1, ListBounds DEF AdminLists!TypeOK, AdminLists!Unread, AdminLists!Unanswered
<1>3. unseen # AdminLists!Spoilt =>
         /\ AdminLists!UnseenAreAhead /\ AdminLists!AnswerPromisesMore
         /\ AdminLists!ReadingPromisesMore
  BY DEF AdminLists!BrowsingInv
<1>4. ASSUME NEW f \in AdminLists!Filter, AdminLists!Show(f, 1),
             unseen' # AdminLists!Spoilt => /\ unseen' = AdminLists!Sought(f)
                                            /\ kept[<<f, 1>>] = AdminLists!Unanswered
      PROVE  AdminLists!BrowsingInv'
  <2>1. /\ page' = 1 /\ filter' = f /\ answer' = kept[<<f, 1>>]
        /\ reading' = AdminLists!Unread /\ created' = created /\ open' = open
    BY <1>4 DEF AdminLists!Show
  <2>2. /\ AdminLists!Matching(f)' = AdminLists!Matching(f)
        /\ (page' - 1) * Limit = 0
        /\ \A r : AdminLists!Newer(r, f)' = AdminLists!Newer(r, f)
    BY <1>2, <2>1 DEF AdminLists!Matching, AdminLists!Newer
  <2>3. unseen' = AdminLists!Sought(f) => AdminLists!UnseenAreAhead'
    <3>1. \A r \in AdminLists!Sought(f) : AdminLists!Newer(r, f) >= 0
      BY <1>1, NewerRows DEF AdminLists!Sought
    <3>2. AdminLists!Sought(f)' = AdminLists!Sought(f)
      BY <2>2 DEF AdminLists!Sought, AdminLists!Alone
    <3> QED
      BY <2>1, <2>2, <3>1, <3>2 DEF AdminLists!UnseenAreAhead, AdminLists!IsAfter
  <2> QED
    BY <1>1, <1>4, <2>1, <2>3, ShowKeepsPromises
<1>5. CASE UNCHANGED lv
  BY <1>3, <1>5 DEF lv, AdminLists!BrowsingInv, AdminLists!TypeOK,
     AdminLists!UnseenAreAhead, AdminLists!AnswerPromisesMore,
     AdminLists!ReadingPromisesMore, AdminLists!IsAfter, AdminLists!Newer, AdminLists!Sought,
     AdminLists!Matching
<1>6. ASSUME NEW f \in AdminLists!Filter, AdminLists!Choose(f)
      PROVE  AdminLists!BrowsingInv'
  BY <1>4, <1>6 DEF AdminLists!Choose
<1>7. CASE AdminLists!ChooseDates
  <2> DEFINE f == IF filter = "all" THEN "recent" ELSE "all"
  <2>1. /\ AdminLists!Show(f, page) /\ f \in AdminLists!Filter
        /\ unseen' # AdminLists!Spoilt => /\ unseen' = AdminLists!Sought(f)
                                          /\ page = 1
                                          /\ kept[<<f, 1>>] = AdminLists!Unanswered
    BY <1>7 DEF AdminLists!ChooseDates, AdminLists!Filter
  <2> HIDE DEF f
  <2>2. CASE page = 1
    BY <1>4, <2>1, <2>2
  <2>3. CASE page # 1
    BY <1>1, <2>1, <2>3, ShowKeepsPromises DEF AdminLists!Show
  <2> QED
    BY <2>2, <2>3
<1>8. CASE AdminLists!NextPage
  <2>1. /\ AdminLists!Show(filter, page + 1) /\ answer # AdminLists!Unanswered
        /\ unseen' # AdminLists!Spoilt =>
              /\ unseen' = unseen
              /\ kept[<<filter, page + 1>>] = AdminLists!Unanswered
    BY <1>8 DEF AdminLists!NextPage
  <2>2. /\ page' = page + 1 /\ filter' = filter /\ answer' = kept[<<filter, page + 1>>]
        /\ reading' = AdminLists!Unread /\ created' = created /\ open' = open
    BY <2>1 DEF AdminLists!Show
  <2>3. ASSUME unseen' # AdminLists!Spoilt PROVE AdminLists!UnseenAreAhead'
    <3>1. page' - 1 = page
      BY <1>2, <2>2
    <3>2. /\ unseen' = unseen /\ unseen \subseteq AdminLists!Sought(filter)
          /\ \A r \in unseen : AdminLists!IsAfter(r, page)
      BY <1>3, <2>1, <2>3 DEF AdminLists!UnseenAreAhead, AdminLists!AnswerPromisesMore
    <3> QED
      BY <2>2, <3>1, <3>2 DEF AdminLists!UnseenAreAhead, AdminLists!IsAfter,
         AdminLists!Newer, AdminLists!Sought, AdminLists!Matching
  <2> QED
    BY <1>1, <2>1, <2>2, <2>3, ShowKeepsPromises
<1>9. CASE AdminLists!PreviousPage
  BY <1>1, <1>9, ShowKeepsPromises DEF AdminLists!PreviousPage, AdminLists!Show
<1>10. CASE AdminLists!ReadRows
  <2>1. /\ UNCHANGED <<created, open, page, filter, answer, kept, unseen>>
        /\ reading.rows = {0} /\ reading'.total = reading.total
        /\ reading'.rows \in AdminLists!FindMany(filter, page)
    <3>1. PICK s \in AdminLists!FindMany(filter, page) :
             reading' = [reading EXCEPT !.rows = s]
      BY <1>10 DEF AdminLists!ReadRows
    <3>2. reading'.total = reading.total /\ reading'.rows = s
      BY <1>1, <3>1 DEF AdminLists!TypeOK, AdminLists!Reading
    <3> QED
      BY <1>2, <1>10, <3>2 DEF AdminLists!ReadRows
  <2>2. ASSUME unseen # AdminLists!Spoilt PROVE AdminLists!ReadingPromisesMore'
    <3>1. ASSUME NEW r \in unseen \ reading'.rows
          PROVE  /\ AdminLists!IsAfter(r, page)
                 /\ Cardinality(AdminLists!Matching(filter)) > page * Limit
      <4>1. /\ r \in AdminLists!Matching(filter)
            /\ AdminLists!Newer(r, filter) >= (page - 1) * Limit
        BY <1>3, <2>2, <3>1
          DEF AdminLists!UnseenAreAhead, AdminLists!IsAfter, AdminLists!Sought
      <4>2. /\ AdminLists!Newer(r, filter) \in Nat
            /\ Cardinality(AdminLists!Matching(filter)) >= AdminLists!Newer(r, filter) + 1
            /\ Cardinality(AdminLists!Matching(filter)) \in Nat
        BY <1>1, <1>2, <4>1, NewerRows, MatchingRows
      <4>3. AdminLists!Newer(r, filter) \notin
               (page - 1) * Limit..((page - 1) * Limit + Limit - 1)
        <5>1. r \in AdminLists!Alone
          BY <1>3, <2>2, <3>1 DEF AdminLists!UnseenAreAhead, AdminLists!Sought
        <5>2. page \in AdminLists!Pages /\ reading'.rows \in AdminLists!FindMany(filter, page)
          BY <1>1, <2>1 DEF AdminLists!TypeOK
        <5>3. r \in AdminLists!Matching(filter) \cap AdminLists!Alone /\ r \notin reading'.rows
          BY <3>1, <4>1, <5>1
        <5>4. AdminLists!Newer(r, filter) \notin
                 AdminLists!Skip(page)..(AdminLists!Skip(page) + Limit - 1)
          BY <1>1, <1>2, <5>2, <5>3, PageShowsAlone
        <5> QED
          BY <5>4 DEF AdminLists!Skip
      <4>4. (page - 1) * Limit + Limit = page * Limit /\ (page - 1) * Limit \in Nat
        BY <1>2
      <4>5. AdminLists!Newer(r, filter) >= page * Limit /\ page * Limit \in Nat
        BY <1>2, <4>1, <4>2, <4>3, <4>4
      <4> QED
        BY <4>2, <4>5 DEF AdminLists!IsAfter
    <3>2. reading.total # MaxRows + 1 =>
             reading.total = Cardinality(AdminLists!Matching(filter))
      BY <1>2, <1>3, <2>1, <2>2, ListsCardinality DEF AdminLists!ReadingPromisesMore
    <3> QED
      BY <1>2, <2>1, <3>1, <3>2, ListsCardinality
        DEF AdminLists!ReadingPromisesMore, AdminLists!IsAfter, AdminLists!Newer, AdminLists!Sought,
            AdminLists!Matching, AdminLists!Unread
  <2> QED
    BY <1>1, <1>3, <2>1, <2>2
      DEF AdminLists!BrowsingInv, AdminLists!UnseenAreAhead,
          AdminLists!AnswerPromisesMore, AdminLists!IsAfter, AdminLists!Newer, AdminLists!Sought,
          AdminLists!Matching
<1>11. CASE AdminLists!ReadTotal
  <2>1. /\ UNCHANGED <<created, open, page, filter, answer, kept, unseen>>
        /\ reading'.rows = reading.rows
        /\ reading'.total = Cardinality(AdminLists!Matching(filter))
    BY <1>1, <1>11, ListsCardinality
      DEF AdminLists!ReadTotal, AdminLists!TypeOK, AdminLists!Reading
  <2>2. ASSUME unseen # AdminLists!Spoilt PROVE AdminLists!ReadingPromisesMore'
    <3>1. ASSUME reading.rows # {0}, NEW r \in unseen \ reading.rows
          PROVE  /\ AdminLists!IsAfter(r, page)
                 /\ Cardinality(AdminLists!Matching(filter)) > page * Limit
      <4>1. r \in AdminLists!Matching(filter) /\ AdminLists!IsAfter(r, page)
        BY <1>2, <1>3, <2>2, <3>1
          DEF AdminLists!UnseenAreAhead, AdminLists!ReadingPromisesMore,
              AdminLists!Sought
      <4>2. /\ AdminLists!Newer(r, filter) \in Nat
            /\ Cardinality(AdminLists!Matching(filter)) >= AdminLists!Newer(r, filter) + 1
            /\ Cardinality(AdminLists!Matching(filter)) \in Nat
        BY <1>1, <1>2, <4>1, NewerRows, MatchingRows
      <4>3. page * Limit \in Nat
        BY <1>2
      <4> QED
        BY <4>1, <4>2, <4>3 DEF AdminLists!IsAfter
    <3> QED
      BY <1>2, <2>1, <3>1, ListsCardinality
        DEF AdminLists!ReadingPromisesMore, AdminLists!IsAfter, AdminLists!Newer, AdminLists!Sought,
            AdminLists!Matching, AdminLists!Unread
  <2> QED
    BY <1>1, <1>3, <2>1, <2>2
      DEF AdminLists!BrowsingInv, AdminLists!UnseenAreAhead,
          AdminLists!AnswerPromisesMore, AdminLists!IsAfter, AdminLists!Newer, AdminLists!Sought,
          AdminLists!Matching
<1>12. CASE AdminLists!Answered
  <2>1. /\ UNCHANGED <<created, open, page, filter>>
        /\ reading.rows # AdminLists!Unread.rows
        /\ reading.total # AdminLists!Unread.total
        /\ answer' = reading /\ unseen' = unseen \ reading.rows
        /\ reading' = AdminLists!Unread
    BY <1>12, Zenon DEF AdminLists!Answered
  <2>2. 0 \notin reading.rows
    <3>1. reading.rows \in AdminLists!Listed
      BY <1>1 DEF AdminLists!TypeOK, AdminLists!Reading
    <3>2. reading.rows \in SUBSET (1..MaxRows)
      BY <1>2, <2>1, <3>1, Zenon DEF AdminLists!Listed
    <3> QED
      BY <3>2
  <2>3. ASSUME unseen' # AdminLists!Spoilt
        PROVE  /\ AdminLists!UnseenAreAhead /\ AdminLists!ReadingPromisesMore
               /\ unseen' \subseteq unseen
    BY <1>3, <2>1, <2>2, <2>3 DEF AdminLists!Spoilt
  <2>4. ASSUME unseen' # AdminLists!Spoilt
        PROVE  AdminLists!UnseenAreAhead' /\ AdminLists!AnswerPromisesMore'
    BY <1>2, <2>1, <2>3, <2>4
      DEF AdminLists!UnseenAreAhead, AdminLists!AnswerPromisesMore,
          AdminLists!ReadingPromisesMore, AdminLists!IsAfter, AdminLists!Newer, AdminLists!Sought,
          AdminLists!Matching
  <2>5. AdminLists!ReadingPromisesMore'
    BY <2>1 DEF AdminLists!ReadingPromisesMore, AdminLists!Unread
  <2> QED
    BY <1>1, <2>4, <2>5 DEF AdminLists!BrowsingInv, AdminLists!Spoilt
<1>13. CASE AdminLists!ReadFails
  <2>1. /\ UNCHANGED <<created, open, page, filter, answer, kept, unseen>>
        /\ reading' = AdminLists!Unread
    BY <1>13 DEF AdminLists!ReadFails
  <2>2. AdminLists!ReadingPromisesMore'
    BY <2>1 DEF AdminLists!ReadingPromisesMore, AdminLists!Unread
  <2> QED
    BY <1>1, <1>3, <2>1, <2>2
      DEF AdminLists!BrowsingInv, AdminLists!UnseenAreAhead,
          AdminLists!AnswerPromisesMore, AdminLists!IsAfter, AdminLists!Newer, AdminLists!Sought,
          AdminLists!Matching
<1>14. CASE AdminLists!Forget
  BY <1>1, <1>3, <1>14 DEF AdminLists!Forget, AdminLists!BrowsingInv,
     AdminLists!UnseenAreAhead, AdminLists!AnswerPromisesMore,
     AdminLists!ReadingPromisesMore, AdminLists!IsAfter, AdminLists!Newer, AdminLists!Sought,
     AdminLists!Matching
<1>15. CASE AdminLists!Create
  <2>1. /\ UNCHANGED <<page, filter, answer, reading, kept>>
        /\ created' = created + 1 /\ open' = open \cup {created + 1}
        /\ unseen' # AdminLists!Spoilt =>
              /\ unseen' = unseen
              /\ reading.rows = AdminLists!Unread.rows =>
                    reading.total = AdminLists!Unread.total
    BY <1>15 DEF AdminLists!Create
  <2>2. /\ AdminLists!Matching(filter) \in SUBSET (1..created)
        /\ IsFiniteSet(AdminLists!Matching(filter))
    BY <1>1, <1>2, MatchingRows
  <2>3. /\ AdminLists!Matching(filter) \in SUBSET (AdminLists!Matching(filter)')
        /\ AdminLists!Matching(filter)' \in
              SUBSET (AdminLists!Matching(filter) \cup {created + 1})
    BY <1>1, <1>2, <2>1
      DEF AdminLists!Matching, AdminLists!Filter, AdminLists!TypeOK
  <2>4. IsFiniteSet(AdminLists!Matching(filter)')
    BY <2>2, <2>3, FS_AddElement, FS_Subset
  <2>5. ASSUME NEW r \in AdminLists!Matching(filter)
        PROVE  /\ AdminLists!Newer(r, filter) \in Nat
               /\ AdminLists!Newer(r, filter)' \in Nat
               /\ AdminLists!Newer(r, filter)' >= AdminLists!Newer(r, filter)
    <3> DEFINE Before(S) == {q \in S : CreatedAt[q] > CreatedAt[r]}
    <3>1. /\ AdminLists!Newer(r, filter) = Cardinality(Before(AdminLists!Matching(filter)))
          /\ AdminLists!Newer(r, filter)' =
                Cardinality(Before(AdminLists!Matching(filter)'))
      BY <2>1, ListsCardinality DEF AdminLists!Newer
    <3>2. ASSUME NEW S, IsFiniteSet(S) PROVE Cardinality(Before(S)) \in Nat
      <4>1. Before(S) \in SUBSET S
        OBVIOUS
      <4> QED
        BY <3>2, <4>1, FS_Subset, FS_CardinalityType
    <3>3. Cardinality(Before(AdminLists!Matching(filter)))
             <= Cardinality(Before(AdminLists!Matching(filter)'))
      BY <2>3, <2>4, MoreAreNewer
    <3> HIDE DEF Before
    <3> QED
      BY <2>2, <2>4, <3>1, <3>2, <3>3
  <2>6. ASSUME NEW r \in AdminLists!Matching(filter), NEW p \in Nat,
               AdminLists!IsAfter(r, p)
        PROVE  AdminLists!IsAfter(r, p)'
    <3>1. p * Limit \in Nat
      BY <1>2
    <3> QED
      BY <2>1, <2>5, <2>6, <3>1 DEF AdminLists!IsAfter
  <2>7. page \in Nat /\ page - 1 \in Nat
    BY <1>2
  <2>8. ASSUME unseen' # AdminLists!Spoilt
        PROVE  /\ AdminLists!UnseenAreAhead' /\ AdminLists!AnswerPromisesMore'
               /\ AdminLists!ReadingPromisesMore'
    <3>1. /\ unseen' = unseen /\ unseen \subseteq AdminLists!Sought(filter)
          /\ page' = page /\ filter' = filter /\ answer' = answer
          /\ reading' = reading
          /\ reading.rows = AdminLists!Unread.rows =>
                reading.total = AdminLists!Unread.total
          /\ AdminLists!UnseenAreAhead /\ AdminLists!AnswerPromisesMore
          /\ AdminLists!ReadingPromisesMore
      BY <1>3, <2>1, <2>8 DEF AdminLists!UnseenAreAhead
    <3>0. \A r \in unseen : r \in AdminLists!Matching(filter)
      BY <3>1 DEF AdminLists!Sought
    <3>2. AdminLists!UnseenAreAhead'
      <4>1. AdminLists!Sought(filter) \subseteq AdminLists!Sought(filter)'
        BY <2>3 DEF AdminLists!Sought, AdminLists!Alone
      <4> QED
        BY <2>6, <2>7, <3>0, <3>1, <4>1 DEF AdminLists!UnseenAreAhead
    <3>3. AdminLists!AnswerPromisesMore'
      BY <2>6, <2>7, <3>0, <3>1 DEF AdminLists!AnswerPromisesMore, AdminLists!Unanswered
    <3>4. AdminLists!ReadingPromisesMore'
      BY <2>6, <2>7, <3>0, <3>1 DEF AdminLists!ReadingPromisesMore, AdminLists!Unread
    <3> QED
      BY <3>2, <3>3, <3>4
  <2> QED
    BY <1>1, <2>8 DEF AdminLists!BrowsingInv, AdminLists!Spoilt
<1>16. CASE AdminLists!Leave
  <2>1. /\ UNCHANGED <<created, page, filter, answer, reading, kept>>
        /\ unseen' # AdminLists!Spoilt => unseen' = unseen /\ filter # "open"
    BY <1>16 DEF AdminLists!Leave
  <2>2. filter # "open" => AdminLists!Matching(filter)' = AdminLists!Matching(filter)
    BY <1>2, <2>1 DEF AdminLists!Matching, AdminLists!Filter
  <2>3. filter # "open" => AdminLists!Sought(filter)' = AdminLists!Sought(filter)
    BY <2>1, <2>2 DEF AdminLists!Sought, AdminLists!Alone
  <2> QED
    BY <1>1, <1>3, <2>1, <2>2, <2>3 DEF AdminLists!BrowsingInv, AdminLists!Spoilt,
       AdminLists!UnseenAreAhead, AdminLists!AnswerPromisesMore,
       AdminLists!ReadingPromisesMore, AdminLists!IsAfter, AdminLists!Newer
<1> QED
  BY <1>5, <1>6, <1>7, <1>8, <1>9, <1>10, <1>11, <1>12, <1>13, <1>14, <1>15, <1>16
    DEF AdminLists!Next

LEMMA BrowsingIsInv == Spec => []AdminLists!BrowsingInv
<1>1. Init => AdminLists!Init
  BY DEF Init
<1>2. [Next]_vars => [AdminLists!Next]_lv
  BY DEF Next, vars, lv
<1> QED
  BY <1>1, <1>2, BrowsingInit, BrowsingStep, PTL DEF Spec

\* Whatever number of rows is created while an administrator pages through a
\* list (AdminRepository's skip, take and count, Pagination's "next"), and in
\* whatever order the database lists rows of one time, the last page is reached
\* with no matching row unseen that has a time of its own.
THEOREM ListsAreBrowsedWhole == Spec => []BrowsingMissesNothing
<1>1. ASSUME AdminLists!BrowsingInv PROVE BrowsingMissesNothing
  <2> SUFFICES ASSUME unseen # AdminLists!Spoilt, answer # AdminLists!Unanswered,
                      page = AdminLists!TotalPages(answer.total)
               PROVE  unseen = {}
    BY DEF BrowsingMissesNothing, AdminLists!BrowsingMissesNothing
  <2>1. answer.total \in Nat /\ page \in Nat /\ Limit \in Nat
    BY <1>1, ListBounds DEF AdminLists!BrowsingInv, AdminLists!TypeOK,
       AdminLists!Answer
  <2>2. answer.total <= page * Limit
    BY <2>1, PagesHoldAll
  <2>3. \A r \in unseen : answer.total > page * Limit
    BY <1>1 DEF AdminLists!BrowsingInv, AdminLists!AnswerPromisesMore
  <2> QED
    BY <2>1, <2>2, <2>3
<1> QED
  BY <1>1, BrowsingIsInv, PTL

(***************************************************************************)
(* Otp                                                                     *)
(***************************************************************************)
\* Nothing is counted of a code that is gone; a count is at most the limit.
LEMMA LevelIsACount ==
    ASSUME Otp!TypeOK, NEW c
    PROVE  /\ OTP_MAX_ATTEMPTS \in Nat
           /\ Otp!Level(c) \in Nat
           /\ Otp!Level(c) <= OTP_MAX_ATTEMPTS
BY PartsAssumption DEF PartsAssumption, Otp!TypeOK, Otp!Level, Otp!Entry

LEMMA OtpInit == Otp!Init => Otp!GuessInv
<1> SUFFICES ASSUME Otp!Init PROVE Otp!GuessInv
  OBVIOUS
<1>1. OTP_MAX_ATTEMPTS \in Nat /\ MaxCodes \in Nat
  BY PartsAssumption DEF PartsAssumption
<1>2. Otp!TypeOK
  <2>1. otpTtl \in BOOLEAN
    BY DEF Otp!Init
  <2>2. /\ otpPc \in [Handler -> {"idle", "send", "refuse", "count", "accept"}]
        /\ entry \in [Handler -> Otp!Entry \cup {None}]
        /\ guesses \in [Otp!SentCode -> Nat]
        /\ overtaken \in [Otp!SentCode -> Nat]
    BY DEF Otp!Init
  <2>3. otp \in Otp!Entry \cup {None} /\ cooling \subseteq 1..sent /\ sent \in 0..MaxCodes
    BY <1>1 DEF Otp!Init
  <2> QED
    BY <2>1, <2>2, <2>3 DEF Otp!TypeOK
<1>3. /\ \A h \in Handler : otpPc[h] = "idle" /\ entry[h] = None
      /\ \A c \in Otp!SentCode : guesses[c] = 0 /\ overtaken[c] = 0
      /\ otp = None
  BY DEF Otp!Init
<1>4. Otp!CodesWereSent /\ Otp!CountsBelowLimit
  BY <1>3 DEF Otp!CodesWereSent, Otp!CountsBelowLimit
<1>5. \A h \in Handler, c \in Otp!SentCode : ~Otp!Counting(h, c)
  BY <1>3 DEF Otp!Counting
<1>6. ASSUME NEW c \in Otp!SentCode PROVE Otp!GuessesFit(c)
  BY <1>1, <1>2, <1>3, <1>5, LevelIsACount DEF Otp!GuessesFit
<1> QED
  BY <1>2, <1>4, <1>6 DEF Otp!GuessInv

\* A step that compares and counts no code c keeps what was tried of c and
\* can still be: the count can only rise to the limit.
LEMMA FitIsKept ==
    ASSUME Otp!GuessInv, Otp!TypeOK', NEW c \in Otp!SentCode,
           guesses'[c] = guesses[c], overtaken'[c] = overtaken[c],
           Otp!Level(c)' \in {Otp!Level(c), OTP_MAX_ATTEMPTS},
           \A h \in Handler : /\ Otp!Counting(h, c)' <=> Otp!Counting(h, c)
                              /\ Otp!Counting(h, c) => entry'[h] = entry[h]
    PROVE  Otp!GuessesFit(c)'
<1>1. /\ OTP_MAX_ATTEMPTS \in Nat /\ Otp!Level(c) \in Nat
      /\ Otp!Level(c) <= OTP_MAX_ATTEMPTS
      /\ guesses[c] \in Nat /\ overtaken[c] \in Nat
  BY LevelIsACount DEF Otp!GuessInv, Otp!TypeOK
<1>2. Otp!Level(c) <= Otp!Level(c)' /\ Otp!Level(c)' \in Nat
  BY <1>1
<1>3. Otp!GuessesFit(c)
  BY DEF Otp!GuessInv
<1>4. /\ guesses'[c] <= Otp!Level(c)' + overtaken'[c]
      \/ \E h \in Handler : Otp!Counting(h, c)'
  BY <1>1, <1>2, <1>3 DEF Otp!GuessesFit
<1>5. ASSUME NEW h \in Handler, Otp!Counting(h, c)'
      PROVE  /\ guesses'[c] <= entry'[h].attempts + 1 + overtaken'[c]
             /\ guesses'[c] <= Otp!Level(c)' + 1 + overtaken'[c]
  <2>1. Otp!Counting(h, c) /\ entry'[h].attempts = entry[h].attempts
    BY <1>5
  <2> QED
    BY <1>1, <1>2, <1>3, <2>1 DEF Otp!GuessesFit
<1> QED
  BY <1>4, <1>5 DEF Otp!GuessesFit

LEMMA OtpKeepsTypes ==
    ASSUME Otp!TypeOK, Otp!CodesWereSent, Otp!CountsBelowLimit, [Otp!Next]_ov
    PROVE  Otp!TypeOK' /\ Otp!CodesWereSent' /\ Otp!CountsBelowLimit'
<1>1. OTP_MAX_ATTEMPTS \in Nat /\ MaxCodes \in Nat /\ None \notin Otp!Entry
  BY PartsAssumption DEF PartsAssumption
<1>2. CASE UNCHANGED ov
  BY <1>2 DEF ov, Otp!TypeOK, Otp!CodesWereSent, Otp!CountsBelowLimit
<1>3. CASE Otp!OtpExpires
  BY <1>1, <1>3 DEF Otp!OtpExpires, Otp!history, Otp!Store, Otp!TypeOK, Otp!CodesWereSent,
     Otp!CountsBelowLimit
<1>4. CASE Otp!CooldownEnds
  BY <1>1, <1>4 DEF Otp!CooldownEnds, Otp!history, Otp!TypeOK, Otp!CodesWereSent,
     Otp!CountsBelowLimit
<1>5. ASSUME NEW h \in Handler, Otp!RequestOtp(h)
      PROVE  Otp!TypeOK' /\ Otp!CodesWereSent' /\ Otp!CountsBelowLimit'
  BY <1>1, <1>5 DEF Otp!RequestOtp, Otp!history, Otp!Decide, Otp!TypeOK, Otp!CodesWereSent,
     Otp!CountsBelowLimit
<1>6. ASSUME NEW h \in Handler, Otp!SendOtp(h)
      PROVE  Otp!TypeOK' /\ Otp!CodesWereSent' /\ Otp!CountsBelowLimit'
  <2>1. /\ sent \in Nat /\ sent' = sent + 1 /\ sent' \in 0..MaxCodes
        /\ sent + 1 \in Otp!SentCode /\ 0 \in 0..OTP_MAX_ATTEMPTS
    BY <1>1, <1>6 DEF Otp!SendOtp, Otp!history, Otp!SentCode, Otp!TypeOK
  <2>2. otp' \in Otp!Entry /\ otp'.code = sent + 1
    BY <1>6, <2>1 DEF Otp!SendOtp, Otp!history, Otp!Store, Otp!Entry
  <2>3. /\ otpPc' \in [Handler -> {"idle", "send", "refuse", "count", "accept"}]
        /\ entry' \in [Handler -> Otp!Entry \cup {None}]
        /\ UNCHANGED <<guesses, overtaken>> /\ cooling' \subseteq 1..sent'
        /\ \A g \in Handler \ {h} : otpPc'[g] = otpPc[g] /\ entry'[g] = entry[g]
        /\ otpPc'[h] = "idle" /\ entry'[h] = None
    BY <1>6, <2>1 DEF Otp!SendOtp, Otp!history, Otp!Decide, Otp!TypeOK
  <2>4. otpTtl' \in BOOLEAN
    BY <1>1, <1>6, <2>2 DEF Otp!SendOtp, Otp!history, Otp!Store
  <2>5. Otp!TypeOK'
    BY <2>1, <2>2, <2>3, <2>4 DEF Otp!TypeOK
  <2>6. Otp!CodesWereSent' /\ Otp!CountsBelowLimit'
    <3>1. \A g \in Handler : entry[g] # None => entry[g].code \in Nat
      BY <1>1 DEF Otp!TypeOK, Otp!Entry, Otp!SentCode
    <3> QED
      BY <2>1, <2>2, <2>3, <3>1 DEF Otp!CodesWereSent, Otp!CountsBelowLimit,
         Otp!SentCode
  <2> QED
    BY <2>5, <2>6
<1>7. ASSUME NEW h \in Handler, Otp!CountAttempt(h)
      PROVE  Otp!TypeOK' /\ Otp!CodesWereSent' /\ Otp!CountsBelowLimit'
  <2>1. entry[h] \in Otp!Entry /\ entry[h].attempts < OTP_MAX_ATTEMPTS
    BY <1>7 DEF Otp!CountAttempt, Otp!history, Otp!CountsBelowLimit, Otp!TypeOK
  <2>2. PICK e \in Otp!Entry : e = entry[h]
    BY <2>1
  <2>3. /\ Otp!Counted(e) \in Otp!Entry /\ Otp!Counted(e).code = e.code
    BY <1>1, <2>1, <2>2 DEF Otp!Counted, Otp!Entry
  <2>4. otp' \in Otp!Entry /\ otp'.code = entry[h].code
    BY <1>7, <2>2, <2>3 DEF Otp!CountAttempt, Otp!history, Otp!Store
  <2>5. /\ otpPc' \in [Handler -> {"idle", "send", "refuse", "count", "accept"}]
        /\ entry' \in [Handler -> Otp!Entry \cup {None}]
        /\ UNCHANGED <<guesses, overtaken, cooling, sent>>
        /\ \A g \in Handler \ {h} : otpPc'[g] = otpPc[g] /\ entry'[g] = entry[g]
        /\ otpPc'[h] = "idle" /\ entry'[h] = None
    BY <1>7 DEF Otp!CountAttempt, Otp!history, Otp!Decide, Otp!TypeOK
  <2>6. otpTtl' \in BOOLEAN
    BY <1>7 DEF Otp!CountAttempt, Otp!history, Otp!Store, Otp!TypeOK
  <2>7. Otp!TypeOK'
    BY <2>4, <2>5, <2>6 DEF Otp!TypeOK
  <2>8. entry[h].code <= sent
    BY <1>1, <2>1 DEF Otp!CodesWereSent
  <2> QED
    BY <2>4, <2>5, <2>7, <2>8 DEF Otp!CodesWereSent, Otp!CountsBelowLimit
<1>8. ASSUME NEW h \in Handler, Otp!DeleteOtp(h)
      PROVE  Otp!TypeOK' /\ Otp!CodesWereSent' /\ Otp!CountsBelowLimit'
  BY <1>1, <1>8 DEF Otp!DeleteOtp, Otp!history, Otp!Store, Otp!Decide, Otp!TypeOK,
     Otp!CodesWereSent, Otp!CountsBelowLimit
<1>9. ASSUME NEW h \in Handler, NEW right \in BOOLEAN, Otp!VerifyOtp(h, right)
      PROVE  Otp!TypeOK' /\ Otp!CodesWereSent' /\ Otp!CountsBelowLimit'
  <2>1. /\ otp \in Otp!Entry /\ otp # None /\ UNCHANGED <<otp, otpTtl, cooling, sent>>
        /\ otp.code \in Otp!SentCode /\ otp.code <= sent
        /\ otp.attempts \in 0..OTP_MAX_ATTEMPTS
    BY <1>9 DEF Otp!VerifyOtp, Otp!TypeOK, Otp!CodesWereSent, Otp!Entry
  <2>2. PICK step \in {"refuse", "accept", "count"} :
           /\ step = "count" => ~Otp!Exhausted(otp)
           /\ otpPc' = [otpPc EXCEPT ![h] = step]
           /\ entry' = [entry EXCEPT ![h] = otp]
    <3>1. PICK step : /\ step = IF Otp!Exhausted(otp) THEN "refuse"
                                ELSE IF right THEN "accept" ELSE "count"
                      /\ Otp!Decide(h, step)
      BY <1>9 DEF Otp!VerifyOtp
    <3> QED
      BY <3>1 DEF Otp!Decide
  <2>3. /\ guesses' \in [Otp!SentCode -> Nat]
        /\ overtaken' \in [Otp!SentCode -> Nat]
        /\ \A c \in Otp!SentCode \ {otp.code} : guesses'[c] = guesses[c]
    BY <1>9, <2>1 DEF Otp!VerifyOtp, Otp!WrongCode, Otp!history, Otp!TypeOK
  <2>4. /\ otpPc' \in [Handler -> {"idle", "send", "refuse", "count", "accept"}]
        /\ entry' \in [Handler -> Otp!Entry \cup {None}]
        /\ \A g \in Handler \ {h} : otpPc'[g] = otpPc[g] /\ entry'[g] = entry[g]
        /\ otpPc'[h] = step /\ entry'[h] = otp
    BY <2>1, <2>2 DEF Otp!TypeOK
  <2>5. Otp!TypeOK'
    BY <2>1, <2>3, <2>4 DEF Otp!TypeOK
  <2>6. Otp!CodesWereSent'
    <3>1. \A c \in Otp!SentCode : c > sent => c # otp.code
      BY <1>1, <2>1 DEF Otp!SentCode, Otp!TypeOK
    <3> QED
      BY <2>1, <2>3, <2>4, <3>1 DEF Otp!CodesWereSent
  <2>7. Otp!CountsBelowLimit'
    BY <1>1, <2>1, <2>2, <2>4 DEF Otp!CountsBelowLimit, Otp!Exhausted
  <2> QED
    BY <2>5, <2>6, <2>7
<1> QED
  BY <1>2, <1>3, <1>4, <1>5, <1>6, <1>7, <1>8, <1>9 DEF Otp!Next

\* A handler writes back the wrong code it counted.
LEMMA CountKeepsBudget ==
    ASSUME Otp!GuessInv, Otp!TypeOK', NEW h \in Handler,
           Otp!CountAttempt(h), NEW c \in Otp!SentCode, entry[h].code = c
    PROVE  Otp!GuessesFit(c)'
<1> DEFINE a == entry[h].attempts
<1>1. /\ a \in Nat /\ Otp!Counting(h, c)
      /\ guesses[c] \in Nat /\ overtaken[c] \in Nat
  BY DEF Otp!GuessInv, Otp!TypeOK, Otp!CountsBelowLimit, Otp!CountAttempt,
     Otp!Counting, Otp!Entry
<1>2. /\ \A g \in Handler \ {h} : /\ Otp!Counting(g, c)' <=> Otp!Counting(g, c)
                                  /\ entry'[g] = entry[g]
      /\ ~Otp!Counting(h, c)' /\ UNCHANGED <<guesses, overtaken>>
  BY DEF Otp!CountAttempt, Otp!Decide, Otp!Counting, Otp!history, Otp!GuessInv,
     Otp!TypeOK
<1>3. Otp!Level(c)' = a + 1
  <2>1. PICK e \in Otp!Entry : e = entry[h]
    BY DEF Otp!GuessInv, Otp!TypeOK, Otp!CountsBelowLimit, Otp!CountAttempt
  <2>2. /\ Otp!Counted(e) \in Otp!Entry /\ Otp!Counted(e).code = c
        /\ Otp!Counted(e).attempts = a + 1
    <3>1. a < OTP_MAX_ATTEMPTS /\ OTP_MAX_ATTEMPTS \in Nat
      BY PartsAssumption DEF PartsAssumption, Otp!GuessInv, Otp!CountsBelowLimit,
         Otp!CountAttempt
    <3> QED
      BY <1>1, <2>1, <3>1 DEF Otp!Counted, Otp!Entry
  <2>3. otp' = Otp!Counted(e) /\ None \notin Otp!Entry
    BY <2>1, PartsAssumption DEF PartsAssumption, Otp!CountAttempt, Otp!Store
  <2> HIDE DEF a
  <2> QED
    BY <2>2, <2>3 DEF Otp!Level
<1>4. Otp!GuessesFit(c)
  BY DEF Otp!GuessInv
<1>5. guesses[c] <= a + 1 + overtaken[c]
  BY <1>1, <1>4 DEF Otp!GuessesFit
<1> HIDE DEF a
<1>6. ASSUME NEW g \in Handler, Otp!Counting(g, c)'
      PROVE  /\ guesses'[c] <= entry'[g].attempts + 1 + overtaken'[c]
             /\ guesses'[c] <= Otp!Level(c)' + 1 + overtaken'[c]
  <2>1. Otp!Counting(g, c) /\ entry'[g] = entry[g]
    BY <1>2, <1>6
  <2>2. guesses[c] <= entry[g].attempts + 1 + overtaken[c]
    BY <1>4, <2>1 DEF Otp!GuessesFit
  <2>3. guesses[c] <= (a + 1) + 1 + overtaken[c]
    BY <1>1, <1>5
  <2> QED
    BY <1>2, <1>3, <2>1, <2>2, <2>3
<1> QED
  BY <1>2, <1>3, <1>5, <1>6 DEF Otp!GuessesFit

\* A handler compares a wrong code with the one it has read: alone it leaves
\* one more to be counted, and none that was not there already otherwise.
LEMMA GuessKeepsBudget ==
    ASSUME Otp!GuessInv, Otp!TypeOK', NEW h \in Handler,
           Otp!VerifyOtp(h, FALSE), ~Otp!Exhausted(otp),
           NEW c \in Otp!SentCode, otp.code = c
    PROVE  Otp!GuessesFit(c)'
<1> DEFINE k == otp.attempts
<1>1. otp \in Otp!Entry /\ k \in Nat /\ guesses[c] \in Nat /\ overtaken[c] \in Nat
  BY DEF Otp!GuessInv, Otp!TypeOK, Otp!VerifyOtp, Otp!Entry
<1>2. /\ \A g \in Handler \ {h} : /\ Otp!Counting(g, c)' <=> Otp!Counting(g, c)
                                  /\ entry'[g] = entry[g]
      /\ ~Otp!Counting(h, c) /\ Otp!Counting(h, c)' /\ entry'[h] = otp
      /\ otp' = otp
  BY DEF Otp!VerifyOtp, Otp!Decide, Otp!Counting, Otp!GuessInv, Otp!TypeOK
<1>3. Otp!Level(c) = k /\ Otp!Level(c)' = k
  BY <1>2 DEF Otp!Level, Otp!VerifyOtp
<1>4. Otp!GuessesFit(c)
  BY DEF Otp!GuessInv
<1>5. Otp!WrongCode(c)
  BY DEF Otp!VerifyOtp
<1>6. guesses'[c] = guesses[c] + 1
  BY <1>5 DEF Otp!WrongCode, Otp!GuessInv, Otp!TypeOK
<1>7. entry'[h].attempts = k
  BY <1>2
<1> HIDE DEF k
<1>8. CASE \A g \in Handler : ~Otp!Counting(g, c)
  <2>1. overtaken'[c] = overtaken[c]
    BY <1>5, <1>8 DEF Otp!WrongCode
  <2>2. guesses[c] <= k + overtaken[c]
    BY <1>3, <1>4, <1>8 DEF Otp!GuessesFit
  <2>3. guesses'[c] <= k + 1 + overtaken'[c]
    BY <1>1, <1>6, <2>1, <2>2
  <2>4. \A g \in Handler : Otp!Counting(g, c)' <=> g = h
    BY <1>2, <1>8
  <2> QED
    BY <1>2, <1>3, <1>7, <2>3, <2>4 DEF Otp!GuessesFit
<1>9. CASE \E g \in Handler : Otp!Counting(g, c)
  <2>1. overtaken'[c] = overtaken[c] + 1
    BY <1>5, <1>9 DEF Otp!WrongCode, Otp!GuessInv, Otp!TypeOK
  <2>2. guesses[c] <= k + 1 + overtaken[c]
    BY <1>3, <1>4, <1>9 DEF Otp!GuessesFit
  <2>3. guesses'[c] <= k + 1 + overtaken'[c]
    BY <1>1, <1>6, <2>1, <2>2
  <2>4. ASSUME NEW g \in Handler, Otp!Counting(g, c)', g # h
        PROVE  guesses'[c] <= entry'[g].attempts + 1 + overtaken'[c]
    <3>1. Otp!Counting(g, c) /\ entry'[g] = entry[g]
      BY <1>2, <2>4
    <3>2. guesses[c] <= entry[g].attempts + 1 + overtaken[c]
      BY <1>4, <3>1 DEF Otp!GuessesFit
    <3>3. entry[g].attempts \in Nat
      BY <3>1 DEF Otp!GuessInv, Otp!TypeOK, Otp!CountsBelowLimit, Otp!Counting,
         Otp!Entry
    <3> QED
      BY <1>1, <1>6, <2>1, <3>1, <3>2, <3>3
  <2> QED
    BY <1>2, <1>3, <1>7, <2>3, <2>4 DEF Otp!GuessesFit
<1> QED
  BY <1>8, <1>9

LEMMA GuessStep ==
    ASSUME Otp!GuessInv, [Otp!Next]_ov PROVE Otp!GuessInv'
<1>1. Otp!TypeOK' /\ Otp!CodesWereSent' /\ Otp!CountsBelowLimit'
  BY OtpKeepsTypes DEF Otp!GuessInv
<1>2. OTP_MAX_ATTEMPTS \in Nat /\ None \notin Otp!Entry
  BY PartsAssumption DEF PartsAssumption
<1> SUFFICES ASSUME NEW c \in Otp!SentCode
             PROVE  Otp!GuessesFit(c)'
  BY <1>1 DEF Otp!GuessInv
<1>3. CASE UNCHANGED ov
  BY <1>1, <1>3, FitIsKept DEF ov, Otp!Level, Otp!Counting
<1>4. CASE Otp!OtpExpires
  BY <1>1, <1>4, FitIsKept DEF Otp!OtpExpires, Otp!history, Otp!Store, Otp!Level, Otp!Counting
<1>5. CASE Otp!CooldownEnds
  BY <1>1, <1>5, FitIsKept DEF Otp!CooldownEnds, Otp!history, Otp!Level, Otp!Counting
<1>6. ASSUME NEW h \in Handler, Otp!RequestOtp(h)
      PROVE  Otp!GuessesFit(c)'
  <2>1. \A g \in Handler : /\ Otp!Counting(g, c)' <=> Otp!Counting(g, c)
                           /\ Otp!Counting(g, c) => entry'[g] = entry[g]
    BY <1>6 DEF Otp!RequestOtp, Otp!history, Otp!Decide, Otp!Counting, Otp!GuessInv, Otp!TypeOK
  <2> QED
    BY <1>1, <1>6, <2>1, FitIsKept DEF Otp!RequestOtp, Otp!history, Otp!Level
<1>7. ASSUME NEW h \in Handler, Otp!SendOtp(h)
      PROVE  Otp!GuessesFit(c)'
  <2>1. \A g \in Handler : /\ Otp!Counting(g, c)' <=> Otp!Counting(g, c)
                           /\ Otp!Counting(g, c) => entry'[g] = entry[g]
    BY <1>7 DEF Otp!SendOtp, Otp!history, Otp!Decide, Otp!Counting, Otp!GuessInv, Otp!TypeOK
  <2>2. /\ otp' = [code |-> sent + 1, attempts |-> 0]
        /\ UNCHANGED <<guesses, overtaken>>
        /\ otp' # None
    BY <1>1, <1>2, <1>7 DEF Otp!SendOtp, Otp!history, Otp!Store, Otp!TypeOK, Otp!Entry, Otp!SentCode
  <2>3. CASE c = sent + 1
    <3>1. \A g \in Handler : ~Otp!Counting(g, c)'
      BY <1>2, <2>1, <2>3 DEF Otp!Counting, Otp!GuessInv, Otp!CodesWereSent,
         Otp!CountsBelowLimit, Otp!TypeOK, Otp!Entry, Otp!SentCode
    <3>2. guesses'[c] = 0 /\ Otp!Level(c)' = 0 /\ overtaken'[c] \in Nat
      BY <2>2, <2>3 DEF Otp!Level, Otp!GuessInv, Otp!CodesWereSent, Otp!TypeOK
    <3> QED
      BY <3>1, <3>2 DEF Otp!GuessesFit
  <2>4. CASE c # sent + 1
    BY <1>1, <2>1, <2>2, <2>4, FitIsKept DEF Otp!Level
  <2> QED
    BY <2>3, <2>4
<1>8. ASSUME NEW h \in Handler, Otp!CountAttempt(h)
      PROVE  Otp!GuessesFit(c)'
  <2>1. CASE entry[h].code = c
    BY <1>1, <1>8, <2>1, CountKeepsBudget
  <2>2. CASE entry[h].code # c
    <3>1. \A g \in Handler : /\ Otp!Counting(g, c)' <=> Otp!Counting(g, c)
                             /\ Otp!Counting(g, c) => entry'[g] = entry[g]
      BY <1>8, <2>2 DEF Otp!CountAttempt, Otp!history, Otp!Decide, Otp!Counting, Otp!GuessInv,
         Otp!TypeOK
    <3>2. PICK e \in Otp!Entry : e = entry[h]
      BY <1>8 DEF Otp!GuessInv, Otp!TypeOK, Otp!CountsBelowLimit, Otp!CountAttempt
    <3>3. Otp!Counted(e).code = e.code
      BY DEF Otp!Counted, Otp!Entry
    <3>4. Otp!Level(c)' = OTP_MAX_ATTEMPTS /\ UNCHANGED <<guesses, overtaken>>
      BY <1>8, <2>2, <3>2, <3>3 DEF Otp!CountAttempt, Otp!history, Otp!Store, Otp!Level
    <3> QED
      BY <1>1, <3>1, <3>4, FitIsKept
  <2> QED
    BY <2>1, <2>2
<1>9. ASSUME NEW h \in Handler, Otp!DeleteOtp(h)
      PROVE  Otp!GuessesFit(c)'
  <2>1. \A g \in Handler : /\ Otp!Counting(g, c)' <=> Otp!Counting(g, c)
                           /\ Otp!Counting(g, c) => entry'[g] = entry[g]
    BY <1>9 DEF Otp!DeleteOtp, Otp!history, Otp!Decide, Otp!Counting, Otp!GuessInv, Otp!TypeOK
  <2> QED
    BY <1>1, <1>9, <2>1, FitIsKept DEF Otp!DeleteOtp, Otp!history, Otp!Store, Otp!Level
<1>10. ASSUME NEW h \in Handler, NEW right \in BOOLEAN, Otp!VerifyOtp(h, right)
       PROVE  Otp!GuessesFit(c)'
  <2>1. CASE ~Otp!Exhausted(otp) /\ right = FALSE /\ otp.code = c
    BY <1>1, <1>10, <2>1, GuessKeepsBudget
  <2>2. CASE ~(~Otp!Exhausted(otp) /\ right = FALSE /\ otp.code = c)
    <3>1. otpPc[h] = "idle" /\ otp' = otp
      BY <1>10 DEF Otp!VerifyOtp
    <3>2. /\ otpPc'[h] = "count" => ~Otp!Exhausted(otp) /\ right = FALSE
          /\ entry'[h] = otp
          /\ \A g \in Handler \ {h} : otpPc'[g] = otpPc[g] /\ entry'[g] = entry[g]
      BY <1>10 DEF Otp!VerifyOtp, Otp!Decide, Otp!GuessInv, Otp!TypeOK
    <3>3. \A g \in Handler : /\ Otp!Counting(g, c)' <=> Otp!Counting(g, c)
                             /\ Otp!Counting(g, c) => entry'[g] = entry[g]
      BY <2>2, <3>1, <3>2 DEF Otp!Counting
    <3>4. guesses'[c] = guesses[c] /\ overtaken'[c] = overtaken[c]
      BY <1>10, <2>2 DEF Otp!VerifyOtp, Otp!WrongCode, Otp!history, Otp!GuessInv,
         Otp!TypeOK
    <3> QED
      BY <1>1, <3>1, <3>3, <3>4, FitIsKept DEF Otp!Level
  <2> QED
    BY <2>1, <2>2
<1> QED
  BY <1>3, <1>4, <1>5, <1>6, <1>7, <1>8, <1>9, <1>10 DEF Otp!Next

LEMMA GuessIsInv == Spec => []Otp!GuessInv
<1>1. Init => Otp!Init
  BY DEF Init
<1>2. [Next]_vars => [Otp!Next]_ov
  BY DEF Next, vars, ov
<1>3. Otp!GuessInv /\ [Next]_vars => Otp!GuessInv'
  BY <1>2, GuessStep
<1> QED
  BY <1>1, <1>3, OtpInit, PTL DEF Spec

\* However many requests overlap, whatever they read, count, delete or send,
\* the wrong codes compared with one code beyond the limit are such as were
\* compared while another request was between verifyOtp's read and its
\* SET ... KEEPTTL: requests one after the other get exactly the limit.
THEOREM GuessesAreBounded == Spec => []GuessBudget
<1>1. ASSUME Otp!GuessInv PROVE GuessBudget
  <2> SUFFICES ASSUME NEW c \in Otp!SentCode
               PROVE  guesses[c] <= OTP_MAX_ATTEMPTS + overtaken[c]
    BY DEF GuessBudget, Otp!GuessBudget
  <2>1. /\ OTP_MAX_ATTEMPTS \in Nat /\ Otp!Level(c) \in Nat
        /\ Otp!Level(c) <= OTP_MAX_ATTEMPTS
        /\ guesses[c] \in Nat /\ overtaken[c] \in Nat
    BY <1>1, LevelIsACount DEF Otp!GuessInv, Otp!TypeOK
  <2>2. Otp!GuessesFit(c)
    BY <1>1 DEF Otp!GuessInv
  <2>3. CASE \A h \in Handler : ~Otp!Counting(h, c)
    BY <2>1, <2>2, <2>3 DEF Otp!GuessesFit
  <2>4. ASSUME NEW h \in Handler, Otp!Counting(h, c)
        PROVE  guesses[c] <= OTP_MAX_ATTEMPTS + overtaken[c]
    <3>1. entry[h].attempts \in Nat /\ entry[h].attempts + 1 <= OTP_MAX_ATTEMPTS
      BY <1>1, <2>1, <2>4 DEF Otp!GuessInv, Otp!TypeOK, Otp!CountsBelowLimit,
         Otp!Counting, Otp!Entry
    <3>2. guesses[c] <= entry[h].attempts + 1 + overtaken[c]
      BY <2>2, <2>4 DEF Otp!GuessesFit
    <3> QED
      BY <2>1, <3>1, <3>2
  <2> QED
    BY <2>3, <2>4
<1> QED
  BY <1>1, GuessIsInv, PTL

(***************************************************************************)
(* Types                                                                   *)
(***************************************************************************)
LEMMA OtpTypesAreInv == Spec => []Otp!TypeOK
<1> DEFINE Kept == Otp!TypeOK /\ Otp!CodesWereSent /\ Otp!CountsBelowLimit
<1>1. Init => Kept
  BY OtpInit DEF Init, Otp!GuessInv
<1>2. [Next]_vars => [Otp!Next]_ov
  BY DEF Next, vars, ov
<1>3. Kept /\ [Next]_vars => Kept'
  BY <1>2, OtpKeepsTypes
<1>4. Kept => Otp!TypeOK
  OBVIOUS
<1> HIDE DEF Kept
<1> QED
  BY <1>1, <1>3, <1>4, PTL DEF Spec

\* Every component keeps its variables within their types, whichever of them
\* runs: what the tables, caches and pages of the code can hold.
THEOREM PartsKeepTheirTypes == Spec => []TypeOK
<1>1. Spec => [](part \in Parts)
  <2>1. Init => part \in Parts
    BY DEF Init
  <2>2. part \in Parts /\ [Next]_vars => (part \in Parts)'
    BY DEF Next, vars
  <2> QED
    BY <2>1, <2>2, PTL DEF Spec
<1>2. /\ WebSession!SessionInv => WebSession!TypeOK
      /\ Accounts!AccountsInv => Accounts!TypeOK
      /\ OAuthCodes!OneSessionInv => OAuthCodes!TypeOK
      /\ BonumTokens!RetriesInv => BonumTokens!TypeOK
      /\ Heartbeats!OnlineInv => Heartbeats!TypeOK
  BY DEF WebSession!SessionInv, Accounts!AccountsInv, OAuthCodes!OneSessionInv,
     BonumTokens!RetriesInv, Heartbeats!OnlineInv
<1>3. /\ Offers!OffersInv => Offers!TypeOK
      /\ ScanPage!PreviewInv => ScanPage!TypeOK
      /\ QrScanner!CameraInv => QrScanner!TypeOK
      /\ ReturnPage!ReceiptInv => ReturnPage!TypeOK
      /\ StationEditor!EditorInv => StationEditor!TypeOK
  BY DEF Offers!OffersInv, ScanPage!PreviewInv, QrScanner!CameraInv,
     ReturnPage!ReceiptInv, StationEditor!EditorInv
<1>4. /\ AdminLists!BrowsingInv => AdminLists!TypeOK
      /\ SignIn!PagesInv => SignIn!TypeOK
      /\ Overview!OverviewInv => Overview!TypeOK
      /\ SlotReports!SettledInv => SlotReports!TypeOK
  BY DEF AdminLists!BrowsingInv, SignIn!PagesInv, Overview!OverviewInv,
     SlotReports!SettledInv
<1>5. /\ part \in Parts
      /\ WebSession!TypeOK /\ Otp!TypeOK /\ Accounts!TypeOK /\ OAuthCodes!TypeOK
      /\ BonumTokens!TypeOK /\ Heartbeats!TypeOK /\ Offers!TypeOK
      /\ ScanPage!TypeOK /\ QrScanner!TypeOK /\ ReturnPage!TypeOK
      /\ StationEditor!TypeOK /\ AdminLists!TypeOK /\ SignIn!TypeOK
      /\ Overview!TypeOK /\ SlotReports!TypeOK
      => TypeOK
  BY DEF TypeOK
<1> QED
  BY <1>1, <1>2, <1>3, <1>4, <1>5, OtpTypesAreInv, SessionIsInv, AccountsIsInv,
     OAuthIsInv, BonumIsInv, OnlineIsInv, OffersIsInv, ScanIsInv, CameraIsInv,
     ReceiptIsInv, EditorIsInv, BrowsingIsInv, PagesIsInv, OverviewIsInv,
     SettledIsInv, PTL
=============================================================================
