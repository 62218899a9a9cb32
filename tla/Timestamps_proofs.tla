------------------------- MODULE Timestamps_proofs --------------------------
(***************************************************************************)
(* epoch_days_to_ymd follows the Gregorian calendar on every day from 1970 *)
(* on.  An era is walked a day at a time: within a year that starts in     *)
(* March, from one year to the next (YearStep), and from one era to the    *)
(* next (EraStep); a day of such a year is a day of a month (MonthStep).   *)
(* The divisions are replaced by what defines a quotient, after which all  *)
(* of it is linear.                                                        *)
(***************************************************************************)
EXTENDS Timestamps, Integers, TLAPS

\* The last day of the year y that starts in March: its February is that of
\* the next year of the calendar.
LastDoy(y) == IF C!IsLeap(y + 1) THEN 365 ELSE 364

IsQuot(q, n, k) == q \in Int /\ k * q <= n /\ n < k * q + k

-----------------------------------------------------------------------------
\* What \div computes, for the divisors of the code.
LEMMA Quotients ==
  ASSUME NEW n \in Int
  PROVE  /\ IsQuot(n \div 4, n, 4)
         /\ IsQuot(n \div 5, n, 5)
         /\ IsQuot(n \div 100, n, 100)
         /\ IsQuot(n \div 153, n, 153)
         /\ IsQuot(n \div 365, n, 365)
         /\ IsQuot(n \div 400, n, 400)
         /\ IsQuot(n \div 1460, n, 1460)
         /\ IsQuot(n \div 36524, n, 36524)
         /\ IsQuot(n \div 146096, n, 146096)
         /\ IsQuot(n \div 146097, n, 146097)
<1>1. IsQuot(n \div 4, n, 4) BY DEF IsQuot
<1>2. IsQuot(n \div 5, n, 5) BY DEF IsQuot
<1>3. IsQuot(n \div 100, n, 100) BY DEF IsQuot
<1>4. IsQuot(n \div 153, n, 153) BY DEF IsQuot
<1>5. IsQuot(n \div 365, n, 365) BY DEF IsQuot
<1>6. IsQuot(n \div 1460, n, 1460) BY DEF IsQuot
<1>7. IsQuot(n \div 36524, n, 36524) BY DEF IsQuot
<1>8. IsQuot(n \div 146096, n, 146096) BY DEF IsQuot
<1>9. IsQuot(n \div 146097, n, 146097) BY DEF IsQuot
<1>10. IsQuot(n \div 400, n, 400) BY DEF IsQuot
<1> QED BY <1>1, <1>2, <1>3, <1>4, <1>5, <1>6, <1>7, <1>8, <1>9, <1>10

\* Leap years by quotients, and that they repeat after 400 years.
LEMMA LeapQuotients ==
  ASSUME NEW y \in Int, NEW q \in Int, NEW c \in Int, NEW f \in Int,
         IsQuot(q, y, 4), IsQuot(c, y, 100), IsQuot(f, y, 400)
  PROVE  C!IsLeap(y) <=> y = 4 * q /\ (y # 100 * c \/ y = 400 * f)
<1>1. y % 4 = y - 4 * q BY DEF IsQuot
<1>2. y % 100 = y - 100 * c BY DEF IsQuot
<1>3. y % 400 = y - 400 * f BY DEF IsQuot
<1> QED BY <1>1, <1>2, <1>3 DEF C!IsLeap

LastOf(y, last) ==
  \E u \in Int, v \in Int, w \in Int :
    /\ IsQuot(u, y + 1, 4)
    /\ IsQuot(v, y + 1, 100)
    /\ IsQuot(w, y + 1, 400)
    /\ \/ y + 1 = 4 * u /\ (y + 1 # 100 * v \/ y + 1 = 400 * w) /\ last = 365
       \/ ~(y + 1 = 4 * u /\ (y + 1 # 100 * v \/ y + 1 = 400 * w)) /\ last = 364

\* The last day of a year, 365 in a leap year and 364 in another, by quotients.
LEMMA LastDoyQuotients ==
  ASSUME NEW y \in Int
  PROVE  LastOf(y, LastDoy(y))
<1> DEFINE z == y + 1
           u == z \div 4
           v == z \div 100
           w == z \div 400
<1>1. z \in Int OBVIOUS
<1> HIDE DEF z
<1>2. IsQuot(u, z, 4) /\ IsQuot(v, z, 100) /\ IsQuot(w, z, 400) BY <1>1, Quotients
<1> HIDE DEF u, v, w
<1>3. u \in Int /\ v \in Int /\ w \in Int BY <1>2 DEF IsQuot
<1>4. C!IsLeap(z) <=> z = 4 * u /\ (z # 100 * v \/ z = 400 * w)
  BY <1>1, <1>2, <1>3, LeapQuotients
<1>5. LastDoy(y) = IF z = 4 * u /\ (z # 100 * v \/ z = 400 * w) THEN 365 ELSE 364
  BY <1>4 DEF LastDoy, z
<1> QED BY <1>2, <1>3, <1>5 DEF LastOf, z

\* The year of a day of an era, and the day of the year, by quotients.
YearOf(n, y) ==
  \E a \in Int, b \in Int, c \in Int :
    /\ IsQuot(a, n, 1460)
    /\ IsQuot(b, n, 36524)
    /\ IsQuot(c, n, 146096)
    /\ IsQuot(y, n - a + b - c, 365)

DayOf(n, y, d) ==
  \E q \in Int, p \in Int :
    /\ IsQuot(q, y, 4)
    /\ IsQuot(p, y, 100)
    /\ d = n - (365 * y + q - p)

\* The year of the era and the day of that year, by quotients.
LEMMA YoeQuotients ==
  ASSUME NEW n \in Nat
  PROVE  YearOf(n, Yoe(n)) /\ DayOf(n, Yoe(n), Doy(n))
<1> DEFINE a == n \div 1460
           b == n \div 36524
           c == n \div 146096
           y == Yoe(n)
           q == y \div 4
           p == y \div 100
<1>1. IsQuot(a, n, 1460) /\ IsQuot(b, n, 36524) /\ IsQuot(c, n, 146096)
  BY Quotients
<1>2. a \in Int /\ b \in Int /\ c \in Int BY <1>1 DEF IsQuot
<1>3. y = (n - a + b - c) \div 365 BY DEF Yoe
<1>4. Doy(n) = n - (365 * y + q - p) \/ y \notin Int \/ q \notin Int \/ p \notin Int
  BY DEF Doy
<1> HIDE DEF a, b, c, y
<1>5. IsQuot(y, n - a + b - c, 365) BY <1>2, <1>3, Quotients
<1>6. YearOf(n, y) BY <1>1, <1>2, <1>5 DEF YearOf
<1>7. y \in Int BY <1>5 DEF IsQuot
<1>8. IsQuot(q, y, 4) /\ IsQuot(p, y, 100) BY <1>7, Quotients
<1> HIDE DEF q, p
<1>9. q \in Int /\ p \in Int BY <1>8 DEF IsQuot
<1>10. DayOf(n, y, Doy(n)) BY <1>4, <1>7, <1>8, <1>9 DEF DayOf
<1> QED BY <1>6, <1>10 DEF y

\* A day of an era and the next.
LEMMA YearArithmetic ==
  ASSUME NEW n \in Nat, n <= 146095, NEW n1, n1 = n + 1,
         NEW y, NEW d, YearOf(n, y), DayOf(n, y, d),
         NEW y1, NEW d1, YearOf(n1, y1), DayOf(n1, y1, d1),
         NEW last, LastOf(y, last)
  PROVE  /\ y \in Nat /\ d \in Nat /\ y <= 399 /\ d <= last
         /\ \/ y1 = y /\ d1 = d + 1 /\ d < last
            \/ y1 = y + 1 /\ d1 = 0 /\ d = last
<1>1. PICK a \in Int, b \in Int, c \in Int :
        /\ IsQuot(a, n, 1460) /\ IsQuot(b, n, 36524) /\ IsQuot(c, n, 146096)
        /\ IsQuot(y, n - a + b - c, 365)
  BY DEF YearOf
<1>2. PICK a1 \in Int, b1 \in Int, c1 \in Int :
        /\ IsQuot(a1, n1, 1460) /\ IsQuot(b1, n1, 36524) /\ IsQuot(c1, n1, 146096)
        /\ IsQuot(y1, n1 - a1 + b1 - c1, 365)
  BY DEF YearOf
<1>3. PICK q \in Int, p \in Int :
        IsQuot(q, y, 4) /\ IsQuot(p, y, 100) /\ d = n - (365 * y + q - p)
  BY DEF DayOf
<1>4. PICK q1 \in Int, p1 \in Int :
        IsQuot(q1, y1, 4) /\ IsQuot(p1, y1, 100) /\ d1 = n1 - (365 * y1 + q1 - p1)
  BY DEF DayOf
<1>5. PICK u \in Int, v \in Int, w \in Int :
        /\ IsQuot(u, y + 1, 4) /\ IsQuot(v, y + 1, 100) /\ IsQuot(w, y + 1, 400)
        /\ \/ y + 1 = 4 * u /\ (y + 1 # 100 * v \/ y + 1 = 400 * w) /\ last = 365
           \/ ~(y + 1 = 4 * u /\ (y + 1 # 100 * v \/ y + 1 = 400 * w)) /\ last = 364
  BY DEF LastOf
<1>6. y \in Int /\ y1 \in Int BY <1>1, <1>2 DEF IsQuot
<1>7. d \in Int /\ d1 \in Int /\ last \in Int BY <1>5, <1>3, <1>4, <1>6
<1>8. y >= 0 /\ y <= 399 /\ d >= 0
  BY <1>1, <1>3, <1>6, SMTT(60) DEF IsQuot
<1>9. y1 = y \/ y1 = y + 1
  BY <1>1, <1>2, <1>6, <1>8, SMTT(60) DEF IsQuot
<1>10. CASE y1 = y
  <2>1. d1 = d + 1 BY <1>3, <1>4, <1>6, <1>10, SMTT(60) DEF IsQuot
  <2>2. d < last BY <1>1, <1>2, <1>3, <1>5, <1>6, <1>8, <1>10, SMTT(60) DEF IsQuot
  <2> QED BY <1>6, <1>7, <1>8, <1>10, <2>1, <2>2, <1>5
<1>11. CASE y1 = y + 1
  <2>1. d1 = 0
    BY <1>1, <1>2, <1>3, <1>4, <1>6, <1>8, <1>11, SMTT(60) DEF IsQuot
  <2>2. d = last BY <1>1, <1>2, <1>3, <1>5, <1>6, <1>8, <1>11, SMTT(60) DEF IsQuot
  <2> QED BY <1>6, <1>7, <1>8, <1>11, <2>1, <2>2
<1> QED BY <1>9, <1>10, <1>11

\* From a day of an era to the next: the next day of the year, or the first
\* of the next year after the last of this one.
LEMMA YearStep ==
  ASSUME NEW n \in Nat, n <= 146095
  PROVE  /\ Yoe(n) \in Nat /\ Doy(n) \in Nat
         /\ Yoe(n) <= 399 /\ Doy(n) <= LastDoy(Yoe(n))
         /\ \/ /\ Yoe(n + 1) = Yoe(n)
               /\ Doy(n + 1) = Doy(n) + 1
               /\ Doy(n) < LastDoy(Yoe(n))
            \/ /\ Yoe(n + 1) = Yoe(n) + 1
               /\ Doy(n + 1) = 0
               /\ Doy(n) = LastDoy(Yoe(n))
<1>1. YearOf(n, Yoe(n)) /\ DayOf(n, Yoe(n), Doy(n)) BY YoeQuotients
<1>2. YearOf(n + 1, Yoe(n + 1)) /\ DayOf(n + 1, Yoe(n + 1), Doy(n + 1))
  <2>1. n + 1 \in Nat OBVIOUS
  <2> QED BY <2>1, YoeQuotients
<1>3. Yoe(n) \in Int BY <1>1 DEF YearOf, IsQuot
<1>4. LastOf(Yoe(n), LastDoy(Yoe(n))) BY <1>3, LastDoyQuotients
<1> QED BY <1>1, <1>2, <1>4, YearArithmetic

\* The first day of an era and its last: the 400th year is a leap year.
LEMMA EraEnds ==
  /\ Yoe(0) = 0 /\ Doy(0) = 0
  /\ Yoe(146096) = 399 /\ Doy(146096) = 365 /\ LastDoy(399) = 365
<1>1. Yoe(0) = 0 /\ Yoe(146096) = 399 BY DEF Yoe
<1>2. Doy(0) = 0 /\ Doy(146096) = 365 BY <1>1 DEF Doy
<1>3. LastDoy(399) = 365 BY DEF LastDoy, C!IsLeap
<1> QED BY <1>1, <1>2, <1>3

\* The day after, counted from March 1st of year 0.
LEMMA EraStep ==
  ASSUME NEW z \in Nat
  PROVE  /\ Era(z) \in Nat /\ Doe(z) \in Nat /\ Doe(z) <= 146096
         /\ IF Doe(z) = 146096
            THEN Era(z + 1) = Era(z) + 1 /\ Doe(z + 1) = 0
            ELSE Era(z + 1) = Era(z) /\ Doe(z + 1) = Doe(z) + 1
<1> DEFINE e == Era(z)
           e1 == Era(z + 1)
           d == Doe(z)
           d1 == Doe(z + 1)
<1>1. IsQuot(e, z, 146097) /\ IsQuot(e1, z + 1, 146097)
  BY Quotients DEF Era
<1>2. e \in Int /\ e1 \in Int BY <1>1 DEF IsQuot
<1>3. d = z - e * 146097 /\ d1 = z + 1 - e1 * 146097
  BY <1>2 DEF Doe
<1> HIDE DEF e, e1, d, d1
<1>4. e \in Nat /\ d \in Nat /\ d <= 146096
  BY <1>1, <1>2, <1>3 DEF IsQuot
<1>5. IF d = 146096 THEN e1 = e + 1 /\ d1 = 0 ELSE e1 = e /\ d1 = d + 1
  BY <1>1, <1>2, <1>3, <1>4 DEF IsQuot
<1> QED BY <1>4, <1>5 DEF e, e1, d, d1

\* A leap year is one in every era.
LEMMA LeapAgain ==
  ASSUME NEW y \in Nat, NEW e \in Nat, NEW year, year = y + e * 400
  PROVE  LastDoy(year) = LastDoy(y)
<1>1. PICK last : LastOf(y, last) /\ last = LastDoy(y) BY LastDoyQuotients
<1>2. year \in Int OBVIOUS
<1>3. PICK last1 : LastOf(year, last1) /\ last1 = LastDoy(year)
  BY <1>2, LastDoyQuotients
<1>4. last1 = last BY <1>1, <1>2, <1>3, SMTT(60) DEF LastOf, IsQuot
<1> QED BY <1>1, <1>3, <1>4

-----------------------------------------------------------------------------
\* A month that counts from March, by quotients: m, and s the day it starts.
MonthOf(doy, m, s) == IsQuot(m, 5 * doy + 2, 153) /\ IsQuot(s, 153 * m + 2, 5)

\* The month and the day of the month, by quotients.
LEMMA MonthQuotients ==
  ASSUME NEW doy \in Nat
  PROVE  \E s : MonthOf(doy, Mp(doy), s) /\ Day(doy) = doy - s + 1
<1> DEFINE m == Mp(doy)
           s == (153 * m + 2) \div 5
<1>1. IsQuot(m, 5 * doy + 2, 153) BY Quotients DEF Mp
<1>2. m \in Int BY <1>1 DEF IsQuot
<1>3. IsQuot(s, 153 * m + 2, 5)
  <2> HIDE DEF m
  <2>1. 153 * m + 2 \in Int BY <1>2
  <2> QED BY <2>1, Quotients
<1>4. Day(doy) = doy - s + 1 BY DEF Day
<1> HIDE DEF s
<1>5. MonthOf(doy, m, s) /\ Day(doy) = doy - s + 1 BY <1>1, <1>3, <1>4 DEF MonthOf
<1> QED BY <1>5

\* The calendar's number of a month that counts from March, and its days.
MonthNo(m) == IF m < 10 THEN m + 3 ELSE m - 9
Length(last, m) ==
  IF m = 11 THEN last - 336 ELSE IF MonthNo(m) \in {4, 6, 9, 11} THEN 30 ELSE 31

\* Within a year the next day is in the same month, or the first of the next.
LEMMA MonthArithmetic ==
  ASSUME NEW last \in {364, 365}, NEW doy \in Nat, doy <= last,
         NEW m, NEW s, MonthOf(doy, m, s),
         NEW m1, NEW s1, MonthOf(doy + 1, m1, s1)
  PROVE  /\ m \in 0 .. 11
         /\ doy < last => m1 \in 0 .. 11
         /\ doy < last => \/ m1 = m /\ s1 = s /\ doy - s + 1 < Length(last, m)
                          \/ m1 = m + 1 /\ s1 = doy + 1 /\ doy - s + 1 = Length(last, m)
         /\ doy = last => m = 11 /\ doy - s + 1 = Length(last, m)
<1>1. m \in Int /\ s \in Int /\ m1 \in Int /\ s1 \in Int
  BY DEF MonthOf, IsQuot
<1>2. m \in 0 .. 11 /\ (m1 = m \/ m1 = m + 1)
  BY <1>1 DEF MonthOf, IsQuot
<1>3. m \in {0, 1, 2, 3, 4, 5, 6, 7, 8, 9, 10, 11} BY <1>2
<1>4. ASSUME doy < last
      PROVE  m1 \in 0 .. 11
  BY <1>1, <1>2, <1>4, SMTT(60) DEF MonthOf, IsQuot
<1>5. ASSUME doy < last
      PROVE  \/ m1 = m /\ s1 = s /\ doy - s + 1 < Length(last, m)
             \/ m1 = m + 1 /\ s1 = doy + 1 /\ doy - s + 1 = Length(last, m)
  BY <1>1, <1>2, <1>3, <1>5, SMTT(60) DEF MonthOf, IsQuot, Length, MonthNo
<1>6. ASSUME doy = last
      PROVE  m = 11 /\ doy - s + 1 = Length(last, m)
  BY <1>1, <1>2, <1>6, SMTT(60) DEF MonthOf, IsQuot, Length, MonthNo
<1> QED BY <1>2, <1>5, <1>6, <1>4

\* The calendar's next day, as a choice between day, month and year.
LEMMA NextDayOf ==
  ASSUME NEW y, NEW m, NEW d
  PROVE  C!NextDay([year |-> y, month |-> m, day |-> d]) =
           IF d < C!DaysIn(y, m) THEN [year |-> y, month |-> m, day |-> d + 1]
           ELSE IF m < 12 THEN [year |-> y, month |-> m + 1, day |-> 1]
           ELSE [year |-> y + 1, month |-> 1, day |-> 1]
  BY DEF C!NextDay, C!Date

\* One day on in the year of the algorithm is one day on in the calendar.
LEMMA MonthStep ==
  ASSUME NEW y \in Nat, NEW doy \in Nat, doy <= LastDoy(y)
  PROVE  C!NextDay(Civil(y, doy)) =
           IF doy < LastDoy(y) THEN Civil(y, doy + 1) ELSE Civil(y + 1, 0)
<1> DEFINE last == LastDoy(y)
           next == doy + 1
           m == Mp(doy)
           m1 == Mp(next)
           d == Day(doy)
           d1 == Day(next)
           yr == IF MonthNo(m) <= 2 THEN y + 1 ELSE y
           yr1 == IF MonthNo(m1) <= 2 THEN y + 1 ELSE y
<1>1. last \in {364, 365} /\ (last = 365 <=> C!IsLeap(y + 1)) BY DEF LastDoy
<1>2. next \in Nat /\ next = doy + 1 OBVIOUS
<1>3. Civil(y, doy) = [year |-> yr, month |-> MonthNo(m), day |-> d]
  BY DEF Civil, Month, MonthNo
<1>4. Civil(y, next) = [year |-> yr1, month |-> MonthNo(m1), day |-> d1]
  BY DEF Civil, Month, MonthNo
<1>5. Civil(y + 1, 0) = [year |-> y + 1, month |-> 3, day |-> 1]
  <2>1. Mp(0) = 0 BY DEF Mp
  <2>2. Day(0) = 1 BY <2>1 DEF Day
  <2> QED BY <2>1, <2>2 DEF Civil, Month
<1> HIDE DEF next, last
<1>6. PICK s : MonthOf(doy, m, s) /\ d = doy - s + 1
  BY MonthQuotients
<1>7. PICK s1 : MonthOf(next, m1, s1) /\ d1 = next - s1 + 1
  BY <1>2, MonthQuotients
<1>8. s \in Int /\ s1 \in Int BY <1>6, <1>7 DEF MonthOf, IsQuot
<1> HIDE DEF m, m1, d, d1
<1>9. doy <= last BY DEF last
<1>10. /\ m \in 0 .. 11
       /\ doy < last => m1 \in 0 .. 11
       /\ doy < last => \/ m1 = m /\ s1 = s /\ doy - s + 1 < Length(last, m)
                        \/ m1 = m + 1 /\ s1 = next /\ doy - s + 1 = Length(last, m)
       /\ doy = last => m = 11 /\ doy - s + 1 = Length(last, m)
  BY <1>1, <1>2, <1>6, <1>7, <1>9, MonthArithmetic
<1>11. C!DaysIn(yr, MonthNo(m)) = Length(last, m)
  <2>1. MonthNo(m) = 2 <=> m = 11 BY <1>10 DEF MonthNo
  <2>2. m = 11 => yr = y + 1 BY <2>1
  <2> QED BY <1>1, <1>10, <2>1, <2>2 DEF C!DaysIn, Length, MonthNo
<1> HIDE DEF yr, yr1
<1>12. d \in Int BY <1>6, <1>8
<1>13. CASE doy < last
  <2>1. C!NextDay(Civil(y, doy)) = Civil(y, next)
    <3>1. CASE m1 = m /\ s1 = s /\ d < Length(last, m)
      <4>1. d1 = d + 1 BY <1>2, <1>6, <1>7, <1>8, <3>1
      <4>2. yr1 = yr BY <3>1 DEF yr, yr1
      <4> QED BY <1>3, <1>4, <1>11, <3>1, <4>1, <4>2, NextDayOf
    <3>2. CASE m1 = m + 1 /\ s1 = next /\ d = Length(last, m)
      <4>1. d1 = 1 BY <1>2, <1>7, <3>2
      <4>2. ~(d < C!DaysIn(yr, MonthNo(m))) BY <1>11, <1>12, <3>2
      <4>3. CASE MonthNo(m) < 12
        <5>1. MonthNo(m1) = MonthNo(m) + 1 /\ yr1 = yr
          BY <1>10, <1>13, <3>2, <4>3 DEF MonthNo, yr, yr1
        <5> QED BY <1>3, <1>4, <4>1, <4>2, <4>3, <5>1, NextDayOf
      <4>4. CASE ~(MonthNo(m) < 12)
        <5>1. MonthNo(m1) = 1 /\ yr = y /\ yr1 = y + 1
          BY <1>10, <3>2, <4>4 DEF MonthNo, yr, yr1
        <5> QED BY <1>3, <1>4, <4>1, <4>2, <4>4, <5>1, NextDayOf, ZenonT(60)
      <4> QED BY <4>3, <4>4
    <3> QED BY <1>6, <1>10, <1>13, <3>1, <3>2
  <2> QED BY <1>13, <2>1 DEF last, next
<1>14. CASE doy = last
  <2>1. m = 11 /\ d = Length(last, m) BY <1>6, <1>10, <1>14
  <2>2. ~(d < C!DaysIn(yr, MonthNo(m))) BY <1>11, <1>12, <2>1
  <2>3. MonthNo(m) = 2 /\ yr = y + 1 BY <2>1 DEF MonthNo, yr
  <2>4. C!NextDay(Civil(y, doy)) = Civil(y + 1, 0)
    <3>1. Civil(y, doy) = [year |-> y + 1, month |-> 2, day |-> d] BY <1>3, <2>3
    <3>2. ~(d < C!DaysIn(y + 1, 2)) BY <2>2, <2>3
    <3>3. C!NextDay([year |-> y + 1, month |-> 2, day |-> d]) =
            [year |-> y + 1, month |-> 3, day |-> 1]
      BY <3>2 DEF C!NextDay, C!Date
    <3> QED BY <1>5, <3>1, <3>3
  <2>5. ~(doy < last) BY <1>1, <1>14
  <2> QED BY <2>4, <2>5 DEF last
<1> QED BY <1>1, <1>9, <1>13, <1>14

-----------------------------------------------------------------------------
\* The date after the date of a day is the date of the day after.
LEMMA DayStep ==
  ASSUME NEW n \in Nat
  PROVE  EpochDaysToYmd(n + 1) = C!NextDay(EpochDaysToYmd(n))
<1> DEFINE z == n + 719468
           e == Era(z)
           doe == Doe(z)
           y == Yoe(doe)
           doy == Doy(doe)
<1>1. z \in Nat /\ Z(n) = z /\ Z(n + 1) = z + 1 BY DEF Z
<1>2. EpochDaysToYmd(n) = Civil(y + e * 400, doy) BY <1>1 DEF EpochDaysToYmd
<1>3. EpochDaysToYmd(n + 1) = Civil(Yoe(Doe(z + 1)) + Era(z + 1) * 400, Doy(Doe(z + 1)))
  BY <1>1 DEF EpochDaysToYmd
<1>4. /\ e \in Nat /\ doe \in Nat /\ doe <= 146096
      /\ IF doe = 146096 THEN Era(z + 1) = e + 1 /\ Doe(z + 1) = 0
                         ELSE Era(z + 1) = e /\ Doe(z + 1) = doe + 1
  BY <1>1, EraStep
<1> HIDE DEF z, e, doe
<1> DEFINE year == y + e * 400
<1>5. CASE doe = 146096
  <2>1. y = 399 /\ doy = 365 /\ LastDoy(399) = 365 BY <1>5, EraEnds
  <2>2. LastDoy(year) = 365 /\ year \in Nat BY <2>1, <1>4, LeapAgain
  <2>3. EpochDaysToYmd(n + 1) = Civil(0 + (e + 1) * 400, 0) BY <1>3, <1>4, <1>5, EraEnds
  <2>4. year + 1 = 0 + (e + 1) * 400 BY <1>4, <2>1
  <2> HIDE DEF year
  <2>5. C!NextDay(Civil(year, 365)) = Civil(year + 1, 0) BY <2>2, MonthStep
  <2> QED BY <1>2, <2>1, <2>3, <2>4, <2>5 DEF year
<1>6. CASE doe # 146096
  <2>1. doe \in Nat /\ doe <= 146095 BY <1>4, <1>6
  <2>2. Era(z + 1) = e /\ Doe(z + 1) = doe + 1 BY <1>4, <1>6
  <2>3. /\ y \in Nat /\ doy \in Nat /\ y <= 399 /\ doy <= LastDoy(y)
        /\ \/ Yoe(doe + 1) = y /\ Doy(doe + 1) = doy + 1 /\ doy < LastDoy(y)
           \/ Yoe(doe + 1) = y + 1 /\ Doy(doe + 1) = 0 /\ doy = LastDoy(y)
    BY <2>1, YearStep
  <2>4. EpochDaysToYmd(n + 1) = Civil(Yoe(doe + 1) + e * 400, Doy(doe + 1))
    BY <1>3, <2>2
  <2> HIDE DEF y, doy
  <2>5. year = y + e * 400 OBVIOUS
  <2>6. EpochDaysToYmd(n) = Civil(year, doy) BY <1>2
  <2> HIDE DEF year
  <2>7. LastDoy(year) = LastDoy(y) /\ year \in Nat /\ (y + 1) + e * 400 = year + 1
    <3>1. LastDoy(year) = LastDoy(y) BY <1>4, <2>3, <2>5, LeapAgain
    <3> QED BY <1>4, <2>3, <2>5, <3>1
  <2>8. LastDoy(y) \in {364, 365} BY DEF LastDoy
  <2>9. CASE Yoe(doe + 1) = y /\ Doy(doe + 1) = doy + 1 /\ doy < LastDoy(y)
    <3>1. EpochDaysToYmd(n + 1) = Civil(year, doy + 1) BY <2>4, <2>5, <2>9
    <3> QED BY <2>3, <2>6, <2>7, <2>9, <3>1, MonthStep
  <2>10. CASE Yoe(doe + 1) = y + 1 /\ Doy(doe + 1) = 0 /\ doy = LastDoy(y)
    <3>1. EpochDaysToYmd(n + 1) = Civil(year + 1, 0) BY <2>4, <2>7, <2>10
    <3>2. ~(doy < LastDoy(y)) BY <2>8, <2>10
    <3> QED BY <2>3, <2>6, <2>7, <3>1, <3>2, MonthStep
  <2> QED BY <2>3, <2>9, <2>10
<1> QED BY <1>5, <1>6

\* January 1st, 1970.
LEMMA Epoch == EpochDaysToYmd(0) = C!Date(1970, 1, 1)
<1>1. Z(0) = 719468 BY DEF Z
<1>2. Era(719468) = 4 BY DEF Era
<1>3. Doe(719468) = 135080 BY <1>2 DEF Doe
<1>4. Yoe(135080) = 369 BY DEF Yoe
<1>5. Doy(135080) = 306 BY <1>4 DEF Doy
<1>6. Mp(306) = 10 BY DEF Mp
<1>7. Day(306) = 1 /\ Month(306) = 1 BY <1>6 DEF Day, Month
<1>8. EpochDaysToYmd(0) = Civil(369 + 4 * 400, 306)
  BY <1>1, <1>2, <1>3, <1>4, <1>5 DEF EpochDaysToYmd
<1> QED BY <1>7, <1>8 DEF Civil, C!Date

-----------------------------------------------------------------------------
\* The clock counts days.
LEMMA DaysAreNaturals == Spec => [](days \in Nat)
<1>1. Init => days \in Nat BY DEF Init
<1>2. days \in Nat /\ [Next]_days => (days \in Nat)' BY DEF Next, Midnight, Stay
<1> QED BY <1>1, <1>2, PTL DEF Spec

\* The date in a timestamp is that of the Gregorian calendar on every day from
\* 1970 on, however long the server's clock runs.
THEOREM TimestampsFollowCalendar == Spec => FollowsCalendar
<1>1. Init => C!Init
  BY Epoch DEF Init, C!Init
<1>2. days \in Nat /\ [Next]_days => [C!Next]_(EpochDaysToYmd(days))
  <2> SUFFICES ASSUME days \in Nat, [Next]_days
               PROVE  [C!Next]_(EpochDaysToYmd(days))
    OBVIOUS
  <2>1. CASE Midnight
    <3>1. EpochDaysToYmd(days') = C!NextDay(EpochDaysToYmd(days))
      BY <2>1, DayStep DEF Midnight
    <3> QED BY <3>1 DEF C!Next
  <2>2. CASE Stay BY <2>2 DEF Stay
  <2>3. CASE UNCHANGED days BY <2>3
  <2> QED BY <2>1, <2>2, <2>3 DEF Next
<1> QED BY <1>1, <1>2, DaysAreNaturals, PTL DEF Spec, FollowsCalendar, C!Spec
=============================================================================
