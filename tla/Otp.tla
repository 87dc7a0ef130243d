-------------------------------- MODULE Otp --------------------------------
(***************************************************************************)
(* The one-time code of one phone number: AuthService.requestOtp and       *)
(* verifyOtp.  The entry is a Redis key that each handler reads, judges    *)
(* and writes back as a whole, so handlers that overlap overwrite each     *)
(* other.  Codes are numbered in the order they are sent.                  *)
(***************************************************************************)
EXTENDS Integers

CONSTANTS Handler,          \* overlapping requests for this phone
          MaxCodes,         \* bound: codes sent
          OTP_MAX_ATTEMPTS,
          None

SentCode == 1..MaxCodes

VARIABLES otp,       \* the stored entry
          otpTtl,    \* whether its key expires
          cooling,   \* codes sent less than OTP_COOLDOWN_SEC ago
          sent,      \* codes sent so far
          otpPc,     \* what each handler has decided to do
          entry,     \* the entry it read
          guesses,   \* history: wrong codes compared with each code
          overtaken  \* history: ... while another one was being counted

vars == <<otp, otpTtl, cooling, sent, otpPc, entry, guesses, overtaken>>

history == <<guesses, overtaken>>

Entry == [code : SentCode, attempts : 0..OTP_MAX_ATTEMPTS]

TypeOK ==
    /\ otp \in Entry \cup {None}
    /\ otpTtl \in BOOLEAN
    /\ cooling \subseteq 1..sent
    /\ sent \in 0..MaxCodes
    /\ otpPc \in [Handler -> {"idle", "send", "refuse", "count", "accept"}]
    /\ entry \in [Handler -> Entry \cup {None}]
    /\ guesses \in [SentCode -> Nat]
    /\ overtaken \in [SentCode -> Nat]

Init ==
    /\ otp = None
    /\ otpTtl = FALSE
    /\ cooling = {}
    /\ sent = 0
    /\ otpPc = [h \in Handler |-> "idle"]
    /\ entry = [h \in Handler |-> None]
    /\ guesses = [c \in SentCode |-> 0]
    /\ overtaken = [c \in SentCode |-> 0]

Decide(h, step) ==
    /\ otpPc' = [otpPc EXCEPT ![h] = step]
    /\ entry' = [entry EXCEPT ![h] = IF step = "idle" THEN None ELSE otp]

Store(e, ttl) == otp' = e /\ otpTtl' = (e # None /\ ttl)

\* requestOtp reads the entry: while the cooldown runs it throws OTP_COOLDOWN.
RequestOtp(h) ==
    /\ otpPc[h] = "idle"
    /\ otp # None => otp.code \notin cooling
    /\ Decide(h, "send")
    /\ UNCHANGED <<otp, otpTtl, cooling, sent, history>>

\* SET ... EX, then the SMS.  When sending fails the entry stays.
SendOtp(h) ==
    /\ otpPc[h] = "send"
    /\ sent < MaxCodes
    /\ sent' = sent + 1
    /\ Store([code |-> sent + 1, attempts |-> 0], TRUE)
    /\ cooling' = cooling \cup {sent + 1}
    /\ Decide(h, "idle")
    /\ UNCHANGED history

ExhaustedLater(e) == e.attempts > OTP_MAX_ATTEMPTS

Exhausted(e) == e.attempts >= OTP_MAX_ATTEMPTS

\* A handler has compared a wrong code with c and not written it back yet.
Counting(h, c) == otpPc[h] = "count" /\ entry[h].code = c

WrongCode(c) ==
    /\ guesses' = [guesses EXCEPT ![c] = @ + 1]
    /\ overtaken' = IF \E h \in Handler : Counting(h, c)
                    THEN [overtaken EXCEPT ![c] = @ + 1] ELSE overtaken

\* verifyOtp reads the entry and judges the code it was given.
VerifyOtp(h, right) ==
    /\ otpPc[h] = "idle"
    /\ otp # None
    /\ Decide(h, IF Exhausted(otp) THEN "refuse"
                 ELSE IF right THEN "accept" ELSE "count")
    /\ IF Exhausted(otp) \/ right THEN UNCHANGED history ELSE WrongCode(otp.code)
    /\ UNCHANGED <<otp, otpTtl, cooling, sent>>

Counted(e) == [e EXCEPT !.attempts = @ + 1]

\* SET ... KEEPTTL writes back what was read plus one.  It creates the key,
\* without a TTL, when it has gone in between.
CountAttempt(h) ==
    /\ otpPc[h] = "count"
    /\ Store(Counted(entry[h]), otp # None /\ otpTtl)
    /\ Decide(h, "idle")
    /\ UNCHANGED <<cooling, sent, history>>

\* DEL after the right code, or after too many wrong ones.
DeleteOtp(h) ==
    /\ otpPc[h] \in {"accept", "refuse"}
    /\ Store(None, FALSE)
    /\ Decide(h, "idle")
    /\ UNCHANGED <<cooling, sent, history>>

OtpExpires ==
    /\ otp # None
    /\ otpTtl
    /\ Store(None, FALSE)
    /\ UNCHANGED <<cooling, sent, otpPc, entry, history>>

CooldownEnds ==
    /\ \E c \in cooling : cooling' = cooling \ {c}
    /\ UNCHANGED <<otp, otpTtl, sent, otpPc, entry, history>>

Next ==
    \/ OtpExpires \/ CooldownEnds
    \/ \E h \in Handler :
         \/ RequestOtp(h) \/ SendOtp(h) \/ CountAttempt(h) \/ DeleteOtp(h)
         \/ \E right \in BOOLEAN : VerifyOtp(h, right)

Spec == Init /\ [][Next]_vars

\* A code survives OTP_MAX_ATTEMPTS wrong ones, and beyond them only such as
\* were compared while another request was between reading the entry and
\* writing it back: no attempt is lost in any other way, whatever is sent,
\* deleted or expires in between and however many requests there are.
GuessBudget == \A c \in SentCode : guesses[c] <= OTP_MAX_ATTEMPTS + overtaken[c]

\* BACKEND.md:283: "10 OTP/цаг, 5 login fail → block".
GuessLimit == \A c \in SentCode : guesses[c] <= OTP_MAX_ATTEMPTS

\* What is counted of a code.  One that is gone takes no more guesses.
Level(c) == IF otp # None /\ otp.code = c THEN otp.attempts ELSE OTP_MAX_ATTEMPTS

\* What was compared of a code one at a time is counted, or about to be by
\* every handler that will write the entry.
GuessesFit(c) ==
    /\ guesses[c] <= Level(c) + overtaken[c]
          \/ \E h \in Handler : Counting(h, c)
    /\ \A h \in Handler :
          Counting(h, c) =>
             /\ guesses[c] <= entry[h].attempts + 1 + overtaken[c]
             /\ guesses[c] <= Level(c) + 1 + overtaken[c]

\* Codes that were not sent are not stored, read or tried.
CodesWereSent ==
    /\ otp # None => otp.code <= sent
    /\ \A h \in Handler : entry[h] # None => entry[h].code <= sent
    /\ \A c \in SentCode : c > sent => guesses[c] = 0

\* A wrong code is counted only below the limit.
CountsBelowLimit ==
    \A h \in Handler :
        otpPc[h] = "count" => entry[h] # None /\ entry[h].attempts < OTP_MAX_ATTEMPTS

\* The inductive invariant behind it.
GuessInv ==
    /\ TypeOK
    /\ CodesWereSent
    /\ CountsBelowLimit
    /\ \A c \in SentCode : GuessesFit(c)
=============================================================================
