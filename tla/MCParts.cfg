SPECIFICATION Spec
CHECK_DEADLOCK FALSE
CONSTANTS
    None = None
    Call = {c1, c2}
    MaxPairs = 3
    Handler = {h1, h2}
    MaxCodes = 2
    OTP_MAX_ATTEMPTS = 2
    Visitor = {v1, v2}
    User = {u1, u2}
    Phone = {p1}
    Google = {g1, g2}
    Mail <- OneMail
    NationalId = {n1}
    Consent = {s1, s2}
    Callback = {b1, b2}
    Invoice = {i1, i2}
    MaxTokens = 3
    Cabinet = {d1, d2}
    HeartbeatTimeout = 0
    MaxTime = 1
    MaxMessages = 2
    Slot = {sl1, sl2}
    Code = {k1, k2}
    Slotted = {k1}
    DemoQr = k2
    Press = {r1, r2}
    Start = {t1, t2, t3}
    Rental = {y1, y2}
    Tap = {a1}
    Station = {st1, st2}
    MaxVersion = 2
    MaxRows = 3
    CreatedAt <- RowTimes
    Limit = 1
    MaxKept = 2
    MaxWrites = 2
    HasBroker = TRUE
    Customer = {p1, p2}
    MaxQueued = 3
INVARIANTS
    TypeOK
    SessionIsLive
    LogoutIsFinal
    GuessBudget
    VerifiedHasIdentity
    OneSessionPerConsent
    RetriesWithNewToken
    NoFalseOnline
    OffersAreHonoured
    PreviewIsForTheCodeShown
    ReceiptNamesTheReturn
    CameraIsReleased
    SavesTheStationShown
    CreatedIsWhole
    BrowsingMissesNothing
    PagesNameTheirCustomer
    FiguresDriftByWrites
    SettledSlotIsReported
PROPERTIES
    IdentitiesAreStable
