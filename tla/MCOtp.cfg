SPECIFICATION Spec
CHECK_DEADLOCK FALSE
CONSTANTS
    Handler = {h1, h2}
    MaxCodes = 1
    OTP_MAX_ATTEMPTS = 5
    None = None
INVARIANTS
    GuessLimit
