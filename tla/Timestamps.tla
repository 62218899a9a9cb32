----------------------------- MODULE Timestamps -----------------------------
(***************************************************************************)
(* now_iso8601 and epoch_days_to_ymd (npurun-server ollama.rs): the day    *)
(* count of the system clock turned into a date by arithmetic on eras of   *)
(* 400 years that start on March 1st.  The clock is not set back.          *)
(***************************************************************************)
EXTENDS Naturals

CONSTANT LastDay   \* bounds the clock; 400 years are 146097 days

ASSUME TimestampsAssumption == LastDay \in Nat

VARIABLE days      \* whole days since 1970-01-01

\* Since March 1st of year 0, as the comments of the code have it.
Z(n)   == n + 719468
Era(z) == z \div 146097
Doe(z) == z - Era(z) * 146097

\* Mutant: centuries are not taken out.
Yoe_NoCentury(doe) == (doe - (doe \div 1460)) \div 365

Yoe(doe) ==
  ((doe - (doe \div 1460)) + (doe \div 36524) - (doe \div 146096)) \div 365

Doy(doe) == doe - ((365 * Yoe(doe) + (Yoe(doe) \div 4)) - (Yoe(doe) \div 100))
Mp(doy)  == (5 * doy + 2) \div 153

Day(doy)   == (doy - ((153 * Mp(doy) + 2) \div 5)) + 1
Month(doy) == IF Mp(doy) < 10 THEN Mp(doy) + 3 ELSE Mp(doy) - 9

\* The date of day doy of the year y, in a year that starts in March.
Civil(y, doy) ==
  [year  |-> IF Month(doy) <= 2 THEN y + 1 ELSE y,
   month |-> Month(doy),
   day   |-> Day(doy)]

EpochDaysToYmd(n) ==
  LET doe == Doe(Z(n))
  IN Civil(Yoe(doe) + Era(Z(n)) * 400, Doy(doe))

Init == days = 0

\* Midnight passes.
Midnight ==
  /\ days < LastDay
  /\ days' = days + 1

\* The bound is reached.
Stay == days = LastDay /\ UNCHANGED days

Next == Midnight \/ Stay
Spec == Init /\ [][Next]_days

\* The date in a timestamp is that of the calendar, day after day: leap years,
\* the centuries that are none and the fourth that is, and every end of a
\* month and of a year.
C == INSTANCE Calendar WITH date <- EpochDaysToYmd(days)
FollowsCalendar == C!Spec
=============================================================================
