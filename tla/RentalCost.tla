----------------------------- MODULE RentalCost -----------------------------
(***************************************************************************)
(* What a rental costs: RentalsService.calculateCost.  Rates and charges   *)
(* are whole amounts of money, times are milliseconds.                     *)
(***************************************************************************)
EXTENDS Integers, TLAPS

\* Math.ceil(durationMs / 60_000); the server's clock does not go back.
DurationMinutes(ms) == (ms + 59999) \div 60000

\* The hourly rate for these minutes, rounded up.
Exact(minutes, rate) == (minutes * rate + 59) \div 60

\* Math.ceil(durationMinutes / 60 * ratePerHour) in floating point: when the
\* exact product is a whole amount the rounded one may lie just above it, and
\* one more is charged (483 minutes at 500 an hour cost 4026, not 4025).
RawCharges(minutes, rate) ==
    {Exact(minutes, rate)} \cup
    {c \in {Exact(minutes, rate) + 1} :
        minutes * rate > 0 /\ (minutes * rate) % 60 = 0}

\* Math.min(rawCharge, dailyMax)
ChargeAmounts(ms, rate, dailyMax) ==
    {IF c <= dailyMax THEN c ELSE dailyMax :
        c \in RawCharges(DurationMinutes(ms), rate)}
-----------------------------------------------------------------------------
LEMMA MinutesAreMonotone ==
    ASSUME NEW s \in Nat, NEW t \in Nat, s <= t
    PROVE  /\ DurationMinutes(s) \in Nat
           /\ DurationMinutes(t) \in Nat
           /\ DurationMinutes(s) <= DurationMinutes(t)
BY DEF DurationMinutes

\* The exact charge is the least whole amount that covers the time.
LEMMA ExactIsCeiling ==
    ASSUME NEW p \in Nat
    PROVE  /\ (p + 59) \div 60 \in Nat
           /\ 60 * ((p + 59) \div 60) >= p
           /\ 60 * ((p + 59) \div 60) <= p + 59
OBVIOUS

LEMMA ProductIsMonotone ==
    ASSUME NEW m \in Nat, NEW n \in Nat, NEW r \in Nat, m <= n
    PROVE  m * r \in Nat /\ n * r \in Nat /\ m * r <= n * r
<1>1. PICK d \in Nat : n = m + d
  BY n - m \in Nat
<1>2. n * r = m * r + d * r /\ d * r \in Nat /\ m * r \in Nat
  BY <1>1
<1> QED
  BY <1>2

LEMMA RawChargeBounds ==
    ASSUME NEW m \in Nat, NEW rate \in Nat, NEW c \in RawCharges(m, rate)
    PROVE  /\ c \in Nat
           /\ 60 * c >= m * rate
           /\ Exact(m, rate) <= c /\ c <= Exact(m, rate) + 1
<1>1. m * rate \in Nat
  BY ProductIsMonotone
<1>2. /\ Exact(m, rate) \in Nat
      /\ 60 * Exact(m, rate) >= m * rate
  BY <1>1, ExactIsCeiling DEF Exact
<1>3. c = Exact(m, rate) \/ c = Exact(m, rate) + 1
  BY DEF RawCharges
<1> QED
  BY <1>1, <1>2, <1>3

\* No rental costs more than the daily maximum, however long it lasts, nor a
\* negative amount, and one below the maximum pays at least for its time.
THEOREM ChargeIsCapped ==
    ASSUME NEW ms \in Nat, NEW rate \in Nat, NEW dailyMax \in Nat,
           NEW c \in ChargeAmounts(ms, rate, dailyMax)
    PROVE  /\ c \in 0..dailyMax
           /\ c = dailyMax \/ 60 * c >= DurationMinutes(ms) * rate
<1>1. PICK raw \in RawCharges(DurationMinutes(ms), rate) :
         c = IF raw <= dailyMax THEN raw ELSE dailyMax
  BY DEF ChargeAmounts
<1>2. DurationMinutes(ms) \in Nat
  BY MinutesAreMonotone
<1>3. raw \in Nat /\ 60 * raw >= DurationMinutes(ms) * rate
  BY <1>2, RawChargeBounds
<1> QED
  BY <1>1, <1>3

\* Keeping a bank longer never makes the rental cheaper, except for the one
\* unit that the floating-point product may add to the shorter one.
THEOREM ChargeIsMonotone ==
    ASSUME NEW s \in Nat, NEW t \in Nat, s <= t,
           NEW rate \in Nat, NEW dailyMax \in Nat,
           NEW c \in ChargeAmounts(s, rate, dailyMax),
           NEW d \in ChargeAmounts(t, rate, dailyMax)
    PROVE  c <= d + 1
<1> DEFINE m == DurationMinutes(s)
           n == DurationMinutes(t)
<1>1. m \in Nat /\ n \in Nat /\ m <= n
  BY MinutesAreMonotone
<1>2. PICK x \in RawCharges(m, rate) : c = IF x <= dailyMax THEN x ELSE dailyMax
  BY DEF ChargeAmounts
<1>3. PICK y \in RawCharges(n, rate) : d = IF y <= dailyMax THEN y ELSE dailyMax
  BY DEF ChargeAmounts
<1> HIDE DEF m, n
<1>4. m * rate \in Nat /\ n * rate \in Nat /\ m * rate <= n * rate
  BY <1>1, ProductIsMonotone
<1>5. Exact(m, rate) <= Exact(n, rate)
  BY <1>4 DEF Exact
<1>6. /\ x \in Nat /\ x <= Exact(m, rate) + 1
      /\ y \in Nat /\ Exact(n, rate) <= y
  BY <1>1, RawChargeBounds
<1>7. Exact(m, rate) \in Nat /\ Exact(n, rate) \in Nat
  BY <1>4, ExactIsCeiling DEF Exact
<1> QED
  BY <1>2, <1>3, <1>5, <1>6, <1>7
=============================================================================
