------------------------------ MODULE StatsDaysProofs -----------------------
(* Proofs about the statistics of the days, for any dates, any number of    *)
(* entries that are kept, any heatmap and any windows of the summaries.      *)
EXTENDS StatsDays, FiniteSetTheorems, WellFoundedInduction, TLAPS

\* What is so for some natural number is so for a first one.
LEMMA LeastNatural ==
    ASSUME NEW S \in SUBSET Nat, S # {}
    PROVE  \E n \in S : \A m \in S : n <= m
<1>1. PICK n \in S : \A m \in S : ~(<<m, n>> \in OpToRel(<, Nat))
  BY NatLessThanWellFounded, WFMin
<1>2. \A m \in S : ~(m < n)
  BY <1>1 DEF OpToRel
<1> QED
  BY <1>2

-----------------------------------------------------------------------------
(* The calendar: the number of a day, counted in years and months.         *)

LEMMA KeyParts ==
    ASSUME NEW y \in Int, NEW m \in Int, NEW d \in Int, y >= 1, 1 <= m, m <= 12, 1 <= d, d <= 31
    PROVE  /\ (y * 10000 + m * 100 + d) \div 10000 = y
           /\ ((y * 10000 + m * 100 + d) \div 100) % 100 = m
           /\ (y * 10000 + m * 100 + d) % 100 = d
<1>1. (y * 10000 + m * 100 + d) \div 10000 = y
  OBVIOUS
<1>2. (y * 10000 + m * 100 + d) \div 100 = y * 100 + m
  OBVIOUS
<1>3. (y * 100 + m) % 100 = m
  OBVIOUS
<1>4. (y * 10000 + m * 100 + d) % 100 = d
  OBVIOUS
<1> QED
  BY <1>1, <1>2, <1>3, <1>4

\* The leap days up to a year.
LeapDays(y) == y \div 4 - y \div 100 + y \div 400

LEMMA LeapYears ==
    ASSUME NEW y \in Int, y >= 1
    PROVE  LeapDays(y) = LeapDays(y - 1) + (IF Leap(y) THEN 1 ELSE 0)
<1>1. y \div 4 = IF y % 4 = 0 THEN (y - 1) \div 4 + 1 ELSE (y - 1) \div 4
  OBVIOUS
<1>2. y \div 100 = IF y % 100 = 0 THEN (y - 1) \div 100 + 1 ELSE (y - 1) \div 100
  OBVIOUS
<1>3. y \div 400 = IF y % 400 = 0 THEN (y - 1) \div 400 + 1 ELSE (y - 1) \div 400
  OBVIOUS
<1>4. (y % 400 = 0 => y % 100 = 0) /\ (y % 100 = 0 => y % 4 = 0)
  OBVIOUS
<1>5. /\ y \div 4 \in Int /\ y \div 100 \in Int /\ y \div 400 \in Int
      /\ (y - 1) \div 4 \in Int /\ (y - 1) \div 100 \in Int /\ (y - 1) \div 400 \in Int
  OBVIOUS
<1> QED
  BY <1>1, <1>2, <1>3, <1>4, <1>5 DEF Leap, LeapDays

\* The number of the first day of a month.
DaysBefore(y, m) ==
    IF m <= 2 THEN 365 * (y - 1) + LeapDays(y - 1) + (IF m = 1 THEN 306 ELSE 337)
    ELSE 365 * y + LeapDays(y) + (CASE m = 3 -> 0 [] m = 4 -> 31 [] m = 5 -> 61 [] m = 6 -> 92
                                    [] m = 7 -> 122 [] m = 8 -> 153 [] m = 9 -> 184
                                    [] m = 10 -> 214 [] m = 11 -> 245 [] m = 12 -> 275)

LEMMA TwelveMonths ==
    ASSUME NEW m \in 1..12
    PROVE  m \in Int /\ (\/ m = 1 \/ m = 2 \/ m = 3 \/ m = 4 \/ m = 5 \/ m = 6
                         \/ m = 7 \/ m = 8 \/ m = 9 \/ m = 10 \/ m = 11 \/ m = 12)
OBVIOUS

LEMMA MonthHas31 ==
    ASSUME NEW y \in Int, NEW m \in 1..12
    PROVE  DaysIn(y, m) \in Int /\ DaysIn(y, m) <= 31 /\ DaysIn(y, m) >= 28
BY DEF DaysIn

\* The number of a date, month by month.
LEMMA SerialOfDate ==
    ASSUME NEW y \in Int, NEW m \in 1..12, NEW d \in Int, y >= 1, 1 <= d, d <= 31
    PROVE  DaySerial(KeyOf(<<y, m, d>>)) = DaysBefore(y, m) + d - 1
<1> DEFINE key == y * 10000 + m * 100 + d
           yy == IF m <= 2 THEN y - 1 ELSE y
           mm == IF m <= 2 THEN m + 12 ELSE m
<1>0. m \in Int /\ 1 <= m /\ m <= 12
  OBVIOUS
<1>1. key \div 10000 = y /\ (key \div 100) % 100 = m /\ key % 100 = d
  BY <1>0, KeyParts
<1>2. key > 0 /\ key \in Int
  BY <1>0
<1>3. KeyOf(<<y, m, d>>) = key
  BY DEF KeyOf
<1> HIDE DEF key
<1>4. DaySerial(key) = 365 * yy + yy \div 4 - yy \div 100 + yy \div 400
                         + (153 * (mm - 3) + 2) \div 5 + d - 1
  BY <1>1, <1>2 DEF DaySerial
<1>5. yy \in Int /\ yy \div 4 \in Int /\ yy \div 100 \in Int /\ yy \div 400 \in Int
  BY <1>0
<1>6. DaySerial(key) = 365 * yy + LeapDays(yy) + (153 * (mm - 3) + 2) \div 5 + d - 1
  BY <1>4, <1>5 DEF LeapDays
<1>7. DaysBefore(y, m) = 365 * yy + LeapDays(yy) + (153 * (mm - 3) + 2) \div 5
  <2>1. LeapDays(yy) \in Int
    BY <1>5 DEF LeapDays
  <2>2. CASE m = 1
    BY <2>1, <2>2 DEF DaysBefore
  <2>3. CASE m = 2
    BY <2>1, <2>3 DEF DaysBefore
  <2>4. CASE m = 3
    BY <2>1, <2>4 DEF DaysBefore
  <2>5. CASE m = 4
    BY <2>1, <2>5 DEF DaysBefore
  <2>6. CASE m = 5
    BY <2>1, <2>6 DEF DaysBefore
  <2>7. CASE m = 6
    BY <2>1, <2>7 DEF DaysBefore
  <2>8. CASE m = 7
    BY <2>1, <2>8 DEF DaysBefore
  <2>9. CASE m = 8
    BY <2>1, <2>9 DEF DaysBefore
  <2>10. CASE m = 9
    BY <2>1, <2>10 DEF DaysBefore
  <2>11. CASE m = 10
    BY <2>1, <2>11 DEF DaysBefore
  <2>12. CASE m = 11
    BY <2>1, <2>12 DEF DaysBefore
  <2>13. CASE m = 12
    BY <2>1, <2>13 DEF DaysBefore
  <2> QED
    BY TwelveMonths, <2>2, <2>3, <2>4, <2>5, <2>6, <2>7, <2>8, <2>9, <2>10, <2>11, <2>12, <2>13
<1> QED
  BY <1>3, <1>6, <1>7

LEMMA LeapDaysAreInt ==
    ASSUME NEW y \in Int
    PROVE  LeapDays(y) \in Int
<1>1. y \div 4 \in Int /\ y \div 100 \in Int /\ y \div 400 \in Int
  OBVIOUS
<1> QED
  BY <1>1 DEF LeapDays

LEMMA DaysBeforeIsInt ==
    ASSUME NEW y \in Int, NEW m \in 1..12
    PROVE  DaysBefore(y, m) \in Int
<1>1. LeapDays(y) \in Int /\ LeapDays(y - 1) \in Int
  BY LeapDaysAreInt
<1> QED
  BY <1>1, TwelveMonths DEF DaysBefore

\* The number of days of a month is what lies between its beginning and that
\* of the next one, in leap years and at the ends of years too.
LEMMA MonthLength ==
    ASSUME NEW y \in Int, y >= 1, NEW m \in 1..12
    PROVE  /\ m < 12 => DaysBefore(y, m + 1) = DaysBefore(y, m) + DaysIn(y, m)
           /\ m = 12 => DaysBefore(y + 1, 1) = DaysBefore(y, m) + DaysIn(y, m)
<1>1. LeapDays(y) \in Int /\ LeapDays(y - 1) \in Int
  BY LeapDaysAreInt
<1>2. LeapDays(y) = LeapDays(y - 1) + (IF Leap(y) THEN 1 ELSE 0)
  BY LeapYears
<1>3. (y + 1) - 1 = y
  OBVIOUS
<1>4. CASE m \in {1, 3, 4, 5, 6, 7, 8, 9, 10, 11}
  BY <1>1, <1>4 DEF DaysBefore, DaysIn
<1>5. CASE m = 2
  BY <1>1, <1>2, <1>5 DEF DaysBefore, DaysIn
<1>6. CASE m = 12
  BY <1>1, <1>3, <1>6 DEF DaysBefore, DaysIn
<1> QED
  BY <1>4, <1>5, <1>6, TwelveMonths

LEMMA LeapDaysGrow ==
    ASSUME NEW a \in Int, NEW b \in Int, a <= b
    PROVE  LeapDays(a) <= LeapDays(b)
<1> DEFINE p == a \div 4  q == b \div 4
<1>1. a \div 100 = p \div 25 /\ b \div 100 = q \div 25
  OBVIOUS
<1>2. p \in Int /\ q \in Int /\ p <= q
  OBVIOUS
<1>3. a \div 400 <= b \div 400 /\ a \div 400 \in Int /\ b \div 400 \in Int
  OBVIOUS
<1>4. LeapDays(a) = p - p \div 25 + a \div 400 /\ LeapDays(b) = q - q \div 25 + b \div 400
  BY <1>1 DEF LeapDays
<1> HIDE DEF p, q
<1>5. p - p \div 25 <= q - q \div 25 /\ p - p \div 25 \in Int /\ q - q \div 25 \in Int
  BY <1>2
<1> QED
  BY <1>3, <1>4, <1>5

\* Months that come later begin later.
LEMMA MonthsGrow ==
    ASSUME NEW y \in Int, NEW m \in 1..12, NEW z \in Int, NEW k \in 1..12,
           y >= 1, y < z \/ (y = z /\ m < k)
    PROVE  DaysBefore(y, m) + DaysIn(y, m) <= DaysBefore(z, k)
<1>1. /\ LeapDays(y) \in Int /\ LeapDays(y - 1) \in Int /\ LeapDays(z) \in Int
      /\ LeapDays(z - 1) \in Int
  BY LeapDaysAreInt
<1>2. LeapDays(y - 1) <= LeapDays(y) /\ LeapDays(z - 1) <= LeapDays(z)
  <2>1. y - 1 \in Int /\ z - 1 \in Int /\ y - 1 <= y /\ z - 1 <= z
    OBVIOUS
  <2> QED
    BY <2>1, LeapDaysGrow
<1>3. \A n \in 1..12 : /\ DaysBefore(y, n) <= 365 * y + LeapDays(y) + 275
                       /\ DaysBefore(z, n) >= 365 * (z - 1) + LeapDays(z - 1) + 306
  BY <1>1, <1>2, TwelveMonths DEF DaysBefore
<1>4. DaysBefore(y, m) \in Int /\ DaysBefore(z, k) \in Int /\ DaysIn(y, m) \in Int
  BY DaysBeforeIsInt, MonthHas31
<1>5. CASE y < z
  <2>1. LeapDays(y) <= LeapDays(z - 1) /\ 365 * y <= 365 * (z - 1)
    <3>1. y <= z - 1 /\ z - 1 \in Int
      BY <1>5
    <3> QED
      BY <3>1, LeapDaysGrow
  <2>2. DaysBefore(y, m) <= 365 * y + LeapDays(y) + 275
        /\ DaysBefore(z, k) >= 365 * (z - 1) + LeapDays(z - 1) + 306
    BY <1>3
  <2>3. DaysIn(y, m) <= 31
    BY MonthHas31
  <2> QED
    BY <1>1, <1>4, <2>1, <2>2, <2>3
<1>6. CASE y = z /\ m < k
  <2>1. DaysBefore(y, m) + DaysIn(y, m) = DaysBefore(y, m + 1)
    BY <1>6, MonthLength, TwelveMonths
  <2>2. DaysBefore(y, m + 1) <= DaysBefore(y, k)
    <3>1. m + 1 \in 1..12 /\ m + 1 <= k
      BY <1>6
    <3>2. \A n, l \in 1..12 : n <= l => DaysBefore(y, n) <= DaysBefore(y, l)
      <4>1. ASSUME NEW n \in 1..12, NEW l \in 1..12, n <= l
            PROVE  DaysBefore(y, n) <= DaysBefore(y, l)
        <5>1. CASE l <= 2
          BY <1>1, <4>1, <5>1 DEF DaysBefore
        <5>2. CASE l > 2 /\ n <= 2
          BY <1>1, <1>2, <4>1, <5>2, TwelveMonths DEF DaysBefore
        <5>3. CASE n > 2
          BY <1>1, <4>1, <5>3, TwelveMonths DEF DaysBefore
        <5> QED
          BY <5>1, <5>2, <5>3
      <4> QED
        BY <4>1
    <3> QED
      BY <3>1, <3>2
  <2> QED
    BY <1>6, <2>1, <2>2
<1> QED
  BY <1>5, <1>6

LEMMA MonthIsLong ==
    ASSUME NEW y \in Int, NEW m \in 1..12
    PROVE  DaysIn(y, m) \in Int /\ 1 <= DaysIn(y, m)
BY DEF DaysIn

LEMMA DateParts ==
    ASSUME NEW d, IsDate(d)
    PROVE  /\ d = <<d[1], d[2], d[3]>> /\ d[1] \in Int /\ d[2] \in 1..12 /\ d[3] \in Int
           /\ d[1] >= 1 /\ 1 <= d[3] /\ d[3] <= DaysIn(d[1], d[2]) /\ d[3] <= 31
<1>1. d = <<d[1], d[2], d[3]>> /\ d[1] \in Int /\ d[2] \in 1..12 /\ d[3] \in Int
      /\ d[1] >= 1 /\ 1 <= d[3] /\ d[3] <= DaysIn(d[1], d[2])
  BY DEF IsDate
<1>2. DaysIn(d[1], d[2]) \in Int /\ DaysIn(d[1], d[2]) <= 31
  BY <1>1, MonthHas31
<1> QED
  BY <1>1, <1>2

LEMMA DateOfParts ==
    ASSUME NEW y \in Int, NEW m \in 1..12, NEW d \in Int, y >= 1, 1 <= d, d <= DaysIn(y, m)
    PROVE  IsDate(<<y, m, d>>)
BY DEF IsDate

\* A key is that of one date.
LEMMA DateOfKey ==
    ASSUME NEW d, IsDate(d)
    PROVE  KeyOf(d) \in Int /\ KeyOf(d) > 0 /\ DateOf(KeyOf(d)) = d
<1> DEFINE y == d[1]  m == d[2]  n == d[3]  key == y * 10000 + m * 100 + n
<1>1. /\ d = <<y, m, n>> /\ y \in Int /\ m \in 1..12 /\ n \in Int
      /\ y >= 1 /\ 1 <= n /\ n <= 31
  BY DateParts
<1>2. KeyOf(d) = key
  BY DEF KeyOf
<1> HIDE DEF y, m, n, key
<1>3. m \in Int /\ 1 <= m /\ m <= 12
  BY <1>1
<1>4. key \div 10000 = y /\ (key \div 100) % 100 = m /\ key % 100 = n
  BY <1>1, <1>3, KeyParts DEF key
<1>5. key \in Int /\ key > 0
  BY <1>1, <1>3 DEF key
<1> QED
  BY <1>1, <1>2, <1>4, <1>5 DEF DateOf

LEMMA SerialIsPositive ==
    ASSUME NEW d, IsDate(d)
    PROVE  /\ DaySerial(KeyOf(d)) = DaysBefore(d[1], d[2]) + d[3] - 1
           /\ DaysBefore(d[1], d[2]) \in Int /\ DaySerial(KeyOf(d)) > 0
<1> DEFINE y == d[1]  m == d[2]  n == d[3]
<1>1. /\ d = <<y, m, n>> /\ y \in Int /\ m \in 1..12 /\ n \in Int
      /\ y >= 1 /\ 1 <= n /\ n <= 31
  BY DateParts
<1> HIDE DEF y, m, n
<1>2. DaySerial(KeyOf(d)) = DaysBefore(y, m) + n - 1
  BY <1>1, SerialOfDate
<1>3. DaysBefore(y, m) \in Int
  BY <1>1, DaysBeforeIsInt
<1>4. DaysBefore(y, m) > 0
  <2>1. LeapDays(0) = 0
    BY DEF LeapDays
  <2>2. LeapDays(y - 1) >= 0 /\ LeapDays(y) >= 0 /\ LeapDays(y - 1) \in Int /\ LeapDays(y) \in Int
    <3>1. 0 \in Int /\ 0 <= y - 1 /\ 0 <= y /\ y - 1 \in Int
      BY <1>1
    <3> QED
      BY <1>1, <2>1, <3>1, LeapDaysGrow, LeapDaysAreInt
  <2> QED
    BY <1>1, <2>2, TwelveMonths DEF DaysBefore
<1> QED
  BY <1>1, <1>2, <1>3, <1>4 DEF y, m, n

\* Two dates never have the same number.
LEMMA SerialsDiffer ==
    ASSUME NEW d, IsDate(d), NEW e, IsDate(e), DaySerial(KeyOf(d)) = DaySerial(KeyOf(e))
    PROVE  d = e
<1>1. \A a, b : IsDate(a) /\ IsDate(b) /\ (a[1] < b[1] \/ (a[1] = b[1] /\ a[2] < b[2]))
                => DaySerial(KeyOf(a)) < DaySerial(KeyOf(b))
  <2>1. SUFFICES ASSUME NEW a, NEW b, IsDate(a), IsDate(b),
                        a[1] < b[1] \/ (a[1] = b[1] /\ a[2] < b[2])
                 PROVE  DaySerial(KeyOf(a)) < DaySerial(KeyOf(b))
    OBVIOUS
  <2>2. DaysBefore(a[1], a[2]) + DaysIn(a[1], a[2]) <= DaysBefore(b[1], b[2])
    BY <2>1, DateParts, MonthsGrow
  <2>3. /\ a[3] \in Int /\ b[3] \in Int /\ a[3] <= DaysIn(a[1], a[2]) /\ 1 <= b[3]
        /\ DaysIn(a[1], a[2]) \in Int
    BY <2>1, DateParts, MonthHas31
  <2>4. /\ DaySerial(KeyOf(a)) = DaysBefore(a[1], a[2]) + a[3] - 1
        /\ DaySerial(KeyOf(b)) = DaysBefore(b[1], b[2]) + b[3] - 1
        /\ DaysBefore(a[1], a[2]) \in Int /\ DaysBefore(b[1], b[2]) \in Int
    BY <2>1, SerialIsPositive
  <2> QED
    BY <2>2, <2>3, <2>4
<1>2. \A a : IsDate(a) => DaySerial(KeyOf(a)) \in Int
  BY SerialIsPositive, DateParts
<1>3. d[1] = e[1] /\ d[2] = e[2]
  <2>1. /\ ~ (DaySerial(KeyOf(d)) < DaySerial(KeyOf(e)))
        /\ ~ (DaySerial(KeyOf(e)) < DaySerial(KeyOf(d)))
    BY <1>2
  <2>2. ~ (d[1] < e[1]) /\ ~ (e[1] < d[1]) /\ d[1] \in Int /\ e[1] \in Int
    BY <1>1, <2>1, DateParts
  <2>3. d[1] = e[1]
    BY <2>2
  <2>4. ~ (d[2] < e[2]) /\ ~ (e[2] < d[2]) /\ d[2] \in Int /\ e[2] \in Int
    BY <1>1, <2>1, <2>3, DateParts
  <2> QED
    BY <2>3, <2>4
<1>4. /\ DaySerial(KeyOf(d)) = DaysBefore(d[1], d[2]) + d[3] - 1
      /\ DaySerial(KeyOf(e)) = DaysBefore(e[1], e[2]) + e[3] - 1
      /\ DaysBefore(d[1], d[2]) \in Int /\ d[3] \in Int /\ e[3] \in Int
  BY SerialIsPositive, DateParts
<1>5. DaysBefore(d[1], d[2]) + d[3] - 1 = DaysBefore(d[1], d[2]) + e[3] - 1
  BY <1>3, <1>4
<1>6. d[3] = e[3]
  BY <1>4, <1>5
<1> QED
  BY <1>3, <1>6, DateParts

\* The day before has the number before, over the ends of months and years and
\* the ends of February.
LEMMA DayBefore ==
    ASSUME NEW d, IsDate(d), d[1] > 1
    PROVE  /\ IsDate(PreviousDate(d)) /\ PreviousDate(d)[1] >= d[1] - 1
           /\ DaySerial(KeyOf(PreviousDate(d))) = DaySerial(KeyOf(d)) - 1
<1> DEFINE y == d[1]  m == d[2]  n == d[3]  p == PreviousDate(d)
<1>1. /\ d = <<y, m, n>> /\ y \in Int /\ m \in 1..12 /\ n \in Int
      /\ y >= 1 /\ 1 <= n /\ n <= DaysIn(y, m)
  BY DateParts
<1>2. DaySerial(KeyOf(d)) = DaysBefore(y, m) + n - 1 /\ DaysBefore(y, m) \in Int
  BY SerialIsPositive
<1>3. y > 1
  OBVIOUS
<1>4. /\ n > 1 => p = <<y, m, n - 1>>
      /\ ~ (n > 1) /\ m > 1 => p = <<y, m - 1, DaysIn(y, m - 1)>>
      /\ ~ (n > 1) /\ ~ (m > 1) => p = <<y - 1, 12, 31>>
  BY DEF PreviousDate
<1>5. \A a, b \in Int : DaysIn(a, b) \in Int
  BY DEF DaysIn
<1> HIDE DEF y, m, n, p
<1>6. CASE n > 1
  <2>1. p = <<y, m, n - 1>> /\ p[1] = y /\ p[2] = m /\ p[3] = n - 1
    BY <1>4, <1>6
  <2>2. IsDate(p)
    <3>1. n - 1 \in Int /\ 1 <= n - 1 /\ n - 1 <= DaysIn(y, m)
      BY <1>1, <1>5, <1>6
    <3> QED
      BY <1>1, <2>1, <3>1, DateOfParts
  <2>3. DaySerial(KeyOf(p)) = DaysBefore(y, m) + (n - 1) - 1
    BY <2>1, <2>2, SerialIsPositive
  <2> QED
    BY <1>1, <1>2, <2>1, <2>2, <2>3 DEF p, y
<1>7. CASE ~ (n > 1) /\ m > 1
  <2> DEFINE l == DaysIn(y, m - 1)
  <2>1. p = <<y, m - 1, l>> /\ p[1] = y /\ p[2] = m - 1 /\ p[3] = l
    BY <1>4, <1>7
  <2>2. m - 1 \in 1..12 /\ m - 1 < 12 /\ (m - 1) + 1 = m /\ n = 1
    BY <1>1, <1>7
  <2>3. l \in Int /\ 1 <= l
    BY <1>1, <2>2, MonthIsLong
  <2>4. IsDate(p)
    BY <1>1, <2>1, <2>2, <2>3, DateOfParts
  <2>5. DaySerial(KeyOf(p)) = DaysBefore(y, m - 1) + l - 1 /\ DaysBefore(y, m - 1) \in Int
    BY <2>1, <2>4, SerialIsPositive
  <2>6. DaysBefore(y, m) = DaysBefore(y, m - 1) + l
    <3>1. PICK k : k = m - 1
      OBVIOUS
    <3>2. DaysBefore(y, k + 1) = DaysBefore(y, k) + DaysIn(y, k)
      BY <1>1, <2>2, <3>1, MonthLength
    <3> QED
      BY <2>2, <3>1, <3>2
  <2> HIDE DEF l
  <2> QED
    BY <1>1, <1>2, <2>1, <2>2, <2>3, <2>4, <2>5, <2>6 DEF p, y
<1>8. CASE ~ (n > 1) /\ ~ (m > 1)
  <2>1. PICK z : z = y - 1
    OBVIOUS
  <2>2. PICK k : k = 12
    OBVIOUS
  <2>3. p = <<z, k, 31>> /\ p[1] = z /\ p[2] = k /\ p[3] = 31
    BY <1>4, <1>8, <2>1, <2>2
  <2>4. z \in Int /\ z >= 1 /\ z + 1 = y /\ k \in 1..12 /\ m = 1 /\ n = 1
    BY <1>1, <1>3, <1>8, <2>1, <2>2
  <2>5. DaysIn(z, k) = 31
    BY <2>2 DEF DaysIn
  <2>6. IsDate(p)
    BY <2>3, <2>4, <2>5, DateOfParts
  <2>7. DaySerial(KeyOf(p)) = DaysBefore(z, k) + 31 - 1 /\ DaysBefore(z, k) \in Int
    BY <2>3, <2>6, SerialIsPositive
  <2>8. DaysBefore(z + 1, 1) = DaysBefore(z, k) + DaysIn(z, k)
    BY <2>2, <2>4, MonthLength
  <2> QED
    BY <1>1, <1>2, <2>1, <2>3, <2>4, <2>5, <2>6, <2>7, <2>8 DEF p, y
<1> QED
  BY <1>6, <1>7, <1>8 DEF p

\* And the day after is a date.
LEMMA DayAfter ==
    ASSUME NEW d, IsDate(d)
    PROVE  /\ IsDate(NextDate(d)) /\ NextDate(d)[1] >= d[1]
           /\ DaySerial(KeyOf(NextDate(d))) = DaySerial(KeyOf(d)) + 1
<1> DEFINE y == d[1]  m == d[2]  n == d[3]  p == NextDate(d)
<1>1. /\ d = <<y, m, n>> /\ y \in Int /\ m \in 1..12 /\ n \in Int
      /\ y >= 1 /\ 1 <= n /\ n <= DaysIn(y, m) /\ DaysIn(y, m) \in Int
  BY DateParts, MonthHas31
<1>2. DaySerial(KeyOf(d)) = DaysBefore(y, m) + n - 1 /\ DaysBefore(y, m) \in Int
  BY SerialIsPositive
<1>3. /\ n < DaysIn(y, m) => p = <<y, m, n + 1>>
      /\ ~ (n < DaysIn(y, m)) /\ m < 12 => p = <<y, m + 1, 1>>
      /\ ~ (n < DaysIn(y, m)) /\ ~ (m < 12) => p = <<y + 1, 1, 1>>
  BY DEF NextDate
<1> HIDE DEF y, m, n, p
<1>4. CASE n < DaysIn(y, m)
  <2>1. p = <<y, m, n + 1>> /\ p[1] = y /\ p[2] = m /\ p[3] = n + 1
    BY <1>3, <1>4
  <2>2. IsDate(p)
    <3>1. n + 1 \in Int /\ 1 <= n + 1 /\ n + 1 <= DaysIn(y, m)
      BY <1>1, <1>4
    <3> QED
      BY <1>1, <2>1, <3>1, DateOfParts
  <2>3. DaySerial(KeyOf(p)) = DaysBefore(y, m) + (n + 1) - 1
    BY <2>1, <2>2, SerialIsPositive
  <2> QED
    BY <1>1, <1>2, <2>1, <2>2, <2>3 DEF p, y
<1>5. CASE ~ (n < DaysIn(y, m)) /\ m < 12
  <2>1. PICK k : k = m + 1
    OBVIOUS
  <2>2. p = <<y, k, 1>> /\ p[1] = y /\ p[2] = k /\ p[3] = 1
    BY <1>3, <1>5, <2>1
  <2>3. k \in 1..12 /\ n = DaysIn(y, m)
    BY <1>1, <1>5, <2>1
  <2>4. IsDate(p)
    <3>1. DaysIn(y, k) \in Int /\ 1 <= DaysIn(y, k)
      BY <1>1, <2>3, MonthIsLong
    <3> QED
      BY <1>1, <2>2, <2>3, <3>1, DateOfParts
  <2>5. DaySerial(KeyOf(p)) = DaysBefore(y, k) + 1 - 1 /\ DaysBefore(y, k) \in Int
    BY <2>2, <2>4, SerialIsPositive
  <2>6. DaysBefore(y, k) = DaysBefore(y, m) + DaysIn(y, m)
    BY <1>1, <1>5, <2>1, MonthLength
  <2> QED
    BY <1>1, <1>2, <2>2, <2>3, <2>4, <2>5, <2>6 DEF p, y
<1>6. CASE ~ (n < DaysIn(y, m)) /\ ~ (m < 12)
  <2>1. PICK z : z = y + 1
    OBVIOUS
  <2>2. PICK k : k = 1
    OBVIOUS
  <2>3. p = <<z, k, 1>> /\ p[1] = z /\ p[2] = k /\ p[3] = 1
    BY <1>3, <1>6, <2>1, <2>2
  <2>4. z \in Int /\ z >= 1 /\ z >= y /\ k \in 1..12 /\ m = 12 /\ n = DaysIn(y, m)
    BY <1>1, <1>6, <2>1, <2>2
  <2>5. IsDate(p)
    <3>1. DaysIn(z, k) \in Int /\ 1 <= DaysIn(z, k)
      BY <2>4, MonthIsLong
    <3> QED
      BY <2>3, <2>4, <3>1, DateOfParts
  <2>6. DaySerial(KeyOf(p)) = DaysBefore(z, k) + 1 - 1 /\ DaysBefore(z, k) \in Int
    BY <2>3, <2>5, SerialIsPositive
  <2>7. DaysBefore(z, k) = DaysBefore(y, m) + DaysIn(y, m)
    BY <1>1, <2>1, <2>2, <2>4, MonthLength
  <2> QED
    BY <1>1, <1>2, <2>3, <2>4, <2>5, <2>6, <2>7 DEF p, y
<1> QED
  BY <1>4, <1>5, <1>6 DEF p

-----------------------------------------------------------------------------
(* The days of a window of the calendar.                                   *)

\* The dates that far back, and no others.
GoesBack(f, date, m) ==
    f = [n \in 0..m |-> IF n = 0 THEN date ELSE PreviousDate(f[n - 1])]

LEMMA DatesBack ==
    ASSUME NEW date, NEW m \in Nat
    PROVE  \E f : GoesBack(f, date, m)
<1> DEFINE Bad == {n \in Nat : ~ \E f : GoesBack(f, date, n)}
<1>1. SUFFICES ASSUME Bad # {} PROVE FALSE
  OBVIOUS
<1>2. PICK b \in Bad : \A l \in Bad : b <= l
  <2>1. Bad \in SUBSET Nat
    OBVIOUS
  <2> HIDE DEF Bad
  <2> QED
    BY <1>1, <2>1, LeastNatural
<1>3. b \in Nat /\ ~ \E f : GoesBack(f, date, b)
  OBVIOUS
<1>4. CASE b = 0
  <2>1. \A n \in 0..0 : n = 0
    OBVIOUS
  <2>2. GoesBack([n \in 0..0 |-> date], date, 0)
    BY <2>1 DEF GoesBack
  <2> QED
    BY <1>3, <1>4, <2>2
<1>5. CASE b # 0
  <2> DEFINE l == b - 1
  <2>1. l \in Nat /\ ~ (b <= l) /\ l + 1 = b
    BY <1>3, <1>5
  <2>2. l \notin Bad
    <3> HIDE DEF Bad, l
    <3> QED
      BY <1>2, <2>1
  <2>3. PICK f : GoesBack(f, date, l)
    BY <2>1, <2>2
  <2> DEFINE g == [n \in 0..b |-> IF n = b THEN PreviousDate(f[l]) ELSE f[n]]
  <2>4. \A n \in 0..b : n = b \/ n \in 0..l
    BY <2>1
  <2>5. \A n \in 0..l : f[n] = IF n = 0 THEN date ELSE PreviousDate(f[n - 1])
    BY <2>3 DEF GoesBack
  <2>6. \A n \in 0..l : g[n] = f[n]
    BY <2>1
  <2>7. g[b] = PreviousDate(f[l]) /\ g[l] = f[l]
    BY <2>1
  <2>8. \A n \in 0..b : g[n] = IF n = 0 THEN date ELSE PreviousDate(g[n - 1])
    <3>1. ASSUME NEW n \in 0..b
          PROVE  g[n] = IF n = 0 THEN date ELSE PreviousDate(g[n - 1])
      <4> HIDE DEF g
      <4>1. CASE n = b
        BY <1>5, <2>7, <4>1 DEF l
      <4>2. CASE n # b
        <5>1. n \in 0..l /\ (n = 0 \/ n - 1 \in 0..l)
          BY <2>1, <2>4, <4>2
        <5> QED
          BY <2>5, <2>6, <5>1
      <4> QED
        BY <4>1, <4>2
    <3> QED
      BY <3>1
  <2>9. g = [n \in 0..b |-> g[n]]
    OBVIOUS
  <2> HIDE DEF g
  <2>10. GoesBack(g, date, b)
    BY <2>8, <2>9 DEF GoesBack
  <2> QED
    BY <1>3, <2>10
<1> QED
  BY <1>4, <1>5

\* The numbers of the dates that far back.
LEMMA NumbersBack ==
    ASSUME NEW date, IsDate(date), NEW m \in Nat, date[1] > m, NEW f, GoesBack(f, date, m),
           NEW n \in 0..m
    PROVE  /\ IsDate(f[n]) /\ f[n][1] >= date[1] - n
           /\ DaySerial(KeyOf(f[n])) = DaySerial(KeyOf(date)) - n
<1> DEFINE P(k) == /\ IsDate(f[k]) /\ f[k][1] >= date[1] - k
                   /\ DaySerial(KeyOf(f[k])) = DaySerial(KeyOf(date)) - k
           Bad == {k \in Nat : k <= m /\ ~ P(k)}
<1>0. date[1] \in Int /\ DaySerial(KeyOf(date)) \in Int
  <2>1. date[1] \in Int /\ date[3] \in Int
    BY DateParts
  <2> QED
    BY <2>1, SerialIsPositive
<1>1. SUFFICES ASSUME Bad # {} PROVE FALSE
  <2>1. n \in Nat /\ n <= m
    OBVIOUS
  <2> QED
    BY <1>1, <2>1
<1>2. PICK b \in Bad : \A l \in Bad : b <= l
  <2>1. Bad \in SUBSET Nat
    OBVIOUS
  <2> HIDE DEF Bad
  <2> QED
    BY <1>1, <2>1, LeastNatural
<1>3. b \in Nat /\ b <= m /\ ~ P(b)
  OBVIOUS
<1>4. \A k \in 0..m : f[k] = IF k = 0 THEN date ELSE PreviousDate(f[k - 1])
  BY DEF GoesBack
<1>5. CASE b = 0
  <2>1. f[0] = date
    <3>1. PICK k : k = 0
      OBVIOUS
    <3>2. k \in 0..m
      BY <3>1
    <3> QED
      BY <1>4, <3>1, <3>2
  <2>2. P(0)
    BY <1>0, <2>1
  <2> HIDE DEF P
  <2> QED
    BY <1>3, <1>5, <2>2
<1>6. CASE b # 0
  <2> DEFINE l == b - 1
  <2>1. l \in Nat /\ ~ (b <= l) /\ l <= m /\ b \in 0..m /\ l = b - 1
    BY <1>3, <1>6
  <2>2. P(l)
    <3>1. l \notin Bad
      <4> HIDE DEF Bad, l
      <4> QED
        BY <1>2, <2>1
    <3> HIDE DEF P
    <3> QED
      BY <2>1, <3>1
  <2>3. f[b] = PreviousDate(f[l])
    BY <1>4, <1>6, <2>1
  <2> HIDE DEF l
  <2>4. f[l][1] > 1 /\ f[l][1] \in Int
    <3>1. f[l][1] \in Int
      BY <2>2, DateParts
    <3> QED
      BY <1>0, <1>3, <2>1, <2>2, <3>1
  <2>5. /\ IsDate(f[b]) /\ f[b][1] >= f[l][1] - 1
        /\ DaySerial(KeyOf(f[b])) = DaySerial(KeyOf(f[l])) - 1
    BY <2>2, <2>3, <2>4, DayBefore
  <2>6. f[b][1] \in Int
    BY <2>5, DateParts
  <2>7. P(b)
    BY <1>0, <1>3, <2>1, <2>2, <2>4, <2>5, <2>6
  <2> HIDE DEF P
  <2> QED
    BY <1>3, <2>7
<1> QED
  BY <1>5, <1>6

\* The days of the calendar window are those with the numbers of the window.
LEMMA WindowHasTheNumbers ==
    ASSUME NEW date, IsDate(date), NEW days \in Nat \ {0}, date[1] > days,
           NEW e, IsDate(e)
    PROVE  KeyOf(e) \in CalendarWindow(date, days)
              <=> /\ DaySerial(KeyOf(e)) >= DaySerial(KeyOf(date)) - days + 1
                  /\ DaySerial(KeyOf(e)) <= DaySerial(KeyOf(date))
<1>0. PICK m : m = days - 1
  OBVIOUS
<1> DEFINE back == CHOOSE f : GoesBack(f, date, m)
<1>1. m \in Nat /\ date[1] > m
  <2>1. date[1] \in Int
    BY DateParts
  <2> QED
    BY <1>0, <2>1
<1>2. CalendarWindow(date, days) = {KeyOf(back[n]) : n \in 0..m}
  BY <1>0 DEF CalendarWindow, GoesBack
<1>3. GoesBack(back, date, m)
  BY <1>1, DatesBack
<1> HIDE DEF back
<1>4. \A n \in 0..m : IsDate(back[n]) /\ DaySerial(KeyOf(back[n])) = DaySerial(KeyOf(date)) - n
  BY <1>1, <1>3, NumbersBack
<1>5. DaySerial(KeyOf(date)) \in Int /\ DaySerial(KeyOf(e)) \in Int
  <2>1. date[3] \in Int /\ e[3] \in Int
    BY DateParts
  <2> QED
    BY <2>1, SerialIsPositive
<1>6. ASSUME KeyOf(e) \in CalendarWindow(date, days)
      PROVE  /\ DaySerial(KeyOf(e)) >= DaySerial(KeyOf(date)) - days + 1
             /\ DaySerial(KeyOf(e)) <= DaySerial(KeyOf(date))
  <2>1. PICK n \in 0..m : KeyOf(e) = KeyOf(back[n])
    BY <1>2, <1>6
  <2>2. DaySerial(KeyOf(e)) = DaySerial(KeyOf(date)) - n
    BY <1>4, <2>1
  <2> QED
    BY <1>0, <1>1, <1>5, <2>2
<1>7. ASSUME DaySerial(KeyOf(e)) >= DaySerial(KeyOf(date)) - days + 1,
             DaySerial(KeyOf(e)) <= DaySerial(KeyOf(date))
      PROVE  KeyOf(e) \in CalendarWindow(date, days)
  <2>1. PICK n : n = DaySerial(KeyOf(date)) - DaySerial(KeyOf(e))
    OBVIOUS
  <2>2. n \in 0..m
    BY <1>0, <1>1, <1>5, <1>7, <2>1
  <2>3. IsDate(back[n]) /\ DaySerial(KeyOf(back[n])) = DaySerial(KeyOf(e))
    BY <1>4, <1>5, <2>1, <2>2
  <2>4. back[n] = e
    BY <2>3, SerialsDiffer
  <2> QED
    BY <1>2, <2>2, <2>4
<1> QED
  BY <1>6, <1>7

\* The dates that the summaries can reach back from, and their keys.
SummaryDate(d) == IsDate(d) /\ \A w \in Windows : d[1] > w
DayKeys == {KeyOf(d) : d \in {e \in Int \X Int \X Int : SummaryDate(e)}}

LEMMA KeysAreOfDates ==
    ASSUME NEW k \in DayKeys
    PROVE  k \in Int /\ k > 0 /\ SummaryDate(DateOf(k)) /\ KeyOf(DateOf(k)) = k
<1>1. PICK d : SummaryDate(d) /\ k = KeyOf(d)
  BY DEF DayKeys
<1>2. KeyOf(d) \in Int /\ KeyOf(d) > 0 /\ DateOf(KeyOf(d)) = d
  BY <1>1, DateOfKey DEF SummaryDate
<1> QED
  BY <1>1, <1>2

LEMMA KeyOfSummaryDate ==
    ASSUME NEW d, SummaryDate(d)
    PROVE  KeyOf(d) \in DayKeys
<1>1. d \in Int \X Int \X Int
  BY DEF SummaryDate, IsDate
<1> QED
  BY <1>1 DEF DayKeys

-----------------------------------------------------------------------------
(* Order: some days can be listed, the newest first.                       *)

\* p lists the first n positions, those of greater keys first.
Orders(p, n, keys) ==
    /\ p \in [1..n -> 1..n]
    /\ \A i, j \in 1..n : p[i] = p[j] => i = j
    /\ \A t \in 1..n : \E s \in 1..n : p[s] = t
    /\ \A i, j \in 1..n : i < j => keys[p[i]] >= keys[p[j]]

\* Where the next key belongs.
LEMMA PlaceForNext ==
    ASSUME NEW n \in Nat, NEW keys, \A i \in 1..(n + 1) : keys[i] \in Int,
           NEW p, Orders(p, n, keys)
    PROVE  \E k \in 1..(n + 1) :
              /\ \A i \in 1..n : i < k => keys[p[i]] >= keys[n + 1]
              /\ \A i \in 1..n : i >= k => keys[n + 1] >= keys[p[i]]
<1> DEFINE Later == {i \in Nat : 1 <= i /\ i <= n + 1 /\ (i = n + 1 \/ keys[n + 1] > keys[p[i]])}
<1>1. Later \in SUBSET Nat /\ Later # {}
  <2>1. n + 1 \in Later
    OBVIOUS
  <2> QED
    BY <2>1
<1>2. \A i \in Later : i \in 1..(n + 1) /\ (i = n + 1 \/ keys[n + 1] > keys[p[i]])
  OBVIOUS
<1>3. \A i \in 1..n : keys[n + 1] > keys[p[i]] => i \in Later
  OBVIOUS
<1> HIDE DEF Later
<1>4. PICK k \in Later : \A m \in Later : k <= m
  BY <1>1, LeastNatural
<1>5. k \in 1..(n + 1)
  BY <1>2
<1>6. \A i \in 1..n : p[i] \in 1..n /\ keys[p[i]] \in Int
  <2>1. \A i \in 1..n : p[i] \in 1..n
    BY DEF Orders
  <2>2. \A i \in 1..n : i \in 1..(n + 1)
    OBVIOUS
  <2> QED
    BY <2>1, <2>2
<1>7. keys[n + 1] \in Int
  <2>1. n + 1 \in 1..(n + 1)
    OBVIOUS
  <2> QED
    BY <2>1
<1>8. ASSUME NEW i \in 1..n, i < k
      PROVE  keys[p[i]] >= keys[n + 1]
  <2>1. i \notin Later
    <3>1. i \in Int /\ k \in Int
      BY <1>5
    <3>2. ~ (k <= i)
      BY <1>8, <3>1
    <3> QED
      BY <1>4, <3>2
  <2>2. ~ (keys[n + 1] > keys[p[i]])
    BY <1>3, <2>1
  <2> QED
    BY <1>6, <1>7, <2>2
<1>9. ASSUME NEW i \in 1..n, i >= k
      PROVE  keys[n + 1] >= keys[p[i]]
  <2>1. k # n + 1 /\ k \in 1..n
    BY <1>5, <1>9
  <2>2. keys[n + 1] > keys[p[k]]
    BY <1>2, <2>1
  <2>3. keys[p[k]] >= keys[p[i]]
    <3>1. CASE k = i
      BY <1>6, <3>1
    <3>2. CASE k # i
      <4>1. k < i
        BY <1>9, <2>1, <3>2
      <4> QED
        BY <2>1, <4>1 DEF Orders
    <3> QED
      BY <3>1, <3>2
  <2> QED
    BY <1>6, <1>7, <2>1, <2>2, <2>3
<1> QED
  BY <1>5, <1>8, <1>9

LEMMA NextIsOrdered ==
    ASSUME NEW n \in Nat, NEW keys, \A i \in 1..(n + 1) : keys[i] \in Int,
           NEW p, Orders(p, n, keys)
    PROVE  \E q : Orders(q, n + 1, keys)
<1>1. PICK k \in 1..(n + 1) :
              /\ \A i \in 1..n : i < k => keys[p[i]] >= keys[n + 1]
              /\ \A i \in 1..n : i >= k => keys[n + 1] >= keys[p[i]]
  BY PlaceForNext
<1> DEFINE q == [i \in 1..(n + 1) |-> IF i < k THEN p[i] ELSE IF i = k THEN n + 1 ELSE p[i - 1]]
<1>2. \A i \in 1..n : p[i] \in 1..n /\ p[i] # n + 1
  BY DEF Orders
<1>3. ASSUME NEW i \in 1..(n + 1)
      PROVE  /\ i < k => i \in 1..n /\ q[i] = p[i]
             /\ i = k => q[i] = n + 1
             /\ i > k => i - 1 \in 1..n /\ i - 1 >= k /\ q[i] = p[i - 1]
  OBVIOUS
<1>4. \A i \in 1..(n + 1) : i \in Int /\ (i < k \/ i = k \/ i > k)
  OBVIOUS
<1>5. q \in [1..(n + 1) -> 1..(n + 1)]
  <2>1. ASSUME NEW i \in 1..(n + 1) PROVE q[i] \in 1..(n + 1)
    <3>1. \A j : j \in 1..n \/ j = n + 1 => j \in 1..(n + 1)
      OBVIOUS
    <3> HIDE DEF q
    <3> QED
      BY <1>2, <1>3, <1>4, <3>1
  <2> QED
    BY <2>1
<1> HIDE DEF q
<1>6. ASSUME NEW i \in 1..(n + 1), NEW j \in 1..(n + 1), i < j
      PROVE  q[i] # q[j] /\ keys[q[i]] >= keys[q[j]]
  <2>1. CASE j < k
    <3>1. i < k
      BY <1>4, <1>6, <2>1
    <3>2. i \in 1..n /\ j \in 1..n /\ q[i] = p[i] /\ q[j] = p[j] /\ i # j
      BY <1>3, <1>6, <2>1, <3>1
    <3> QED
      BY <1>6, <3>2 DEF Orders
  <2>2. CASE j = k
    <3>1. i \in 1..n /\ q[i] = p[i] /\ q[j] = n + 1
      BY <1>3, <1>6, <2>2
    <3> QED
      BY <1>1, <1>2, <1>6, <2>2, <3>1
  <2>3. CASE j > k
    <3>1. j - 1 \in 1..n /\ j - 1 >= k /\ q[j] = p[j - 1]
      BY <1>3, <2>3
    <3>2. CASE i < k
      <4>1. i \in 1..n /\ q[i] = p[i] /\ i < j - 1 /\ i # j - 1
        BY <1>3, <3>1, <3>2
      <4> QED
        BY <3>1, <4>1 DEF Orders
    <3>3. CASE i = k
      <4>1. q[i] = n + 1
        BY <1>3, <3>3
      <4> QED
        BY <1>1, <1>2, <3>1, <4>1
    <3>4. CASE i > k
      <4>1. i - 1 \in 1..n /\ q[i] = p[i - 1] /\ i - 1 < j - 1 /\ i - 1 # j - 1
        BY <1>3, <1>6, <3>4
      <4> QED
        BY <3>1, <4>1 DEF Orders
    <3> QED
      BY <1>4, <3>2, <3>3, <3>4
  <2> QED
    BY <1>4, <2>1, <2>2, <2>3
<1>7. ASSUME NEW i \in 1..(n + 1), NEW j \in 1..(n + 1), q[i] = q[j]
      PROVE  i = j
  <2>1. i < j \/ j < i \/ i = j
    OBVIOUS
  <2> QED
    BY <1>6, <1>7, <2>1
<1>8. ASSUME NEW t \in 1..(n + 1)
      PROVE  \E s \in 1..(n + 1) : q[s] = t
  <2>1. CASE t = n + 1
    BY <1>3, <2>1
  <2>2. CASE t # n + 1
    <3>1. t \in 1..n
      BY <2>2
    <3>2. PICK s \in 1..n : p[s] = t
      BY <3>1 DEF Orders
    <3>3. s \in 1..(n + 1) /\ s + 1 \in 1..(n + 1) /\ (s + 1) - 1 = s /\ (s < k \/ s + 1 > k)
      OBVIOUS
    <3> QED
      BY <1>3, <3>2, <3>3
  <2> QED
    BY <2>1, <2>2
<1>9. Orders(q, n + 1, keys)
  BY <1>5, <1>6, <1>7, <1>8 DEF Orders
<1> QED
  BY <1>9

\* Any finite list of keys can be sorted.
LEMMA OrderExists ==
    ASSUME NEW n \in Nat, NEW keys, \A i \in 1..n : keys[i] \in Int
    PROVE  \E p : Orders(p, n, keys)
<1> DEFINE Bad == {m \in Nat : m <= n /\ ~ \E p : Orders(p, m, keys)}
<1>1. SUFFICES ASSUME Bad # {} PROVE FALSE
  OBVIOUS
<1>2. PICK m \in Bad : \A l \in Bad : m <= l
  <2>1. Bad \in SUBSET Nat
    OBVIOUS
  <2> HIDE DEF Bad
  <2> QED
    BY <1>1, <2>1, LeastNatural
<1>3. m \in Nat /\ m <= n /\ ~ \E p : Orders(p, m, keys)
  OBVIOUS
<1>4. CASE m = 0
  <2>1. \A i : i \notin 1..0
    OBVIOUS
  <2>2. [i \in 1..0 |-> i] \in [1..0 -> 1..0]
    BY <2>1
  <2>3. Orders([i \in 1..0 |-> i], 0, keys)
    BY <2>1, <2>2 DEF Orders
  <2> QED
    BY <1>3, <1>4, <2>3
<1>5. CASE m # 0
  <2> DEFINE l == m - 1
  <2>1. l \in Nat /\ l <= n /\ ~ (m <= l) /\ l + 1 = m
    BY <1>3, <1>5
  <2>2. l \notin Bad
    <3> HIDE DEF Bad, l
    <3> QED
      BY <1>2, <2>1
  <2>3. \E p : Orders(p, l, keys)
    BY <2>1, <2>2
  <2>4. \A i \in 1..(l + 1) : keys[i] \in Int
    <3>1. \A i \in 1..(l + 1) : i \in 1..n
      BY <1>3, <2>1
    <3> QED
      BY <3>1
  <2> HIDE DEF l
  <2>5. \E q : Orders(q, l + 1, keys)
    BY <2>1, <2>3, <2>4, NextIsOrdered
  <2> QED
    BY <1>3, <2>1, <2>5
<1> QED
  BY <1>4, <1>5

LEMMA BijectionParts ==
    ASSUME NEW S, NEW T, NEW f
    PROVE  f \in Bijection(S, T) <=>
              /\ f \in [S -> T]
              /\ \A i, j \in S : f[i] = f[j] => i = j
              /\ \A x \in T : \E i \in S : f[i] = x
BY DEF Bijection, Injection, Surjection, IsInjective

LEMMA NewestFirstOrders ==
    ASSUME NEW K, IsFiniteSet(K), NEW days \in [K -> Int]
    PROVE  LET c == Cardinality(K)
               f == NewestFirst(days)
           IN  /\ c \in Nat /\ f \in [1..c -> K]
               /\ \A i, j \in 1..c : f[i] = f[j] => i = j
               /\ \A x \in K : \E i \in 1..c : f[i] = x
               /\ \A i, j \in 1..c : i < j => days[f[i]] >= days[f[j]]
<1> DEFINE c == Cardinality(K)
           Newest(f) == \A i, j \in DOMAIN f : i < j => days[f[i]] >= days[f[j]]
<1>1. c \in Nat /\ ExistsBijection(1..c, K)
  BY FS_CardinalityType
<1>0. PICK C : C = 1..c
  OBVIOUS
<1>2. PICK b \in Bijection(C, K) : TRUE
  BY <1>0, <1>1 DEF ExistsBijection
<1>3. /\ b \in [1..c -> K] /\ (\A i, j \in 1..c : b[i] = b[j] => i = j)
      /\ \A x \in K : \E i \in 1..c : b[i] = x
  <2>1. /\ b \in [C -> K] /\ (\A i, j \in C : b[i] = b[j] => i = j)
        /\ \A x \in K : \E i \in C : b[i] = x
    BY <1>2, BijectionParts
  <2> QED
    BY <1>0, <2>1
<1> DEFINE keys == [i \in 1..c |-> days[b[i]]]
<1>4. \A i \in 1..c : keys[i] \in Int
  BY <1>3
<1> HIDE DEF c, keys
<1>5. PICK p : Orders(p, c, keys)
  BY <1>1, <1>4, OrderExists
<1> DEFINE f == [i \in 1..c |-> b[p[i]]]
<1>6. \A i \in 1..c : p[i] \in 1..c
  BY <1>5 DEF Orders
<1>7. f \in [1..c -> K]
  BY <1>3, <1>6
<1>8. \A i, j \in 1..c : f[i] = f[j] => i = j
  BY <1>3, <1>5, <1>6 DEF Orders
<1>9. \A x \in K : \E i \in 1..c : f[i] = x
  <2>1. ASSUME NEW x \in K PROVE \E i \in 1..c : f[i] = x
    <3>1. PICK j \in 1..c : b[j] = x
      BY <1>3
    <3>2. PICK i \in 1..c : p[i] = j
      BY <1>5 DEF Orders
    <3> QED
      BY <3>1, <3>2
  <2> QED
    BY <2>1
<1>10. f \in Bijection(1..c, K)
  <2> HIDE DEF f
  <2>1. f \in Bijection(C, K)
    <3>1. /\ f \in [C -> K] /\ (\A i, j \in C : f[i] = f[j] => i = j)
          /\ \A x \in K : \E i \in C : f[i] = x
      BY <1>0, <1>7, <1>8, <1>9
    <3> QED
      BY <3>1, BijectionParts
  <2> QED
    BY <1>0, <2>1
<1>11. Newest(f)
  <2>1. DOMAIN f = 1..c
    OBVIOUS
  <2>2. \A i \in 1..c : days[f[i]] = keys[p[i]]
    BY <1>6 DEF keys
  <2>3. \A i, j \in 1..c : i < j => keys[p[i]] >= keys[p[j]]
    BY <1>5 DEF Orders
  <2> HIDE DEF f
  <2> QED
    BY <2>1, <2>2, <2>3
<1> HIDE DEF f, Newest
<1>12. NewestFirst(days) = CHOOSE g \in Bijection(1..c, K) : Newest(g)
  <2>1. DOMAIN days = K
    OBVIOUS
  <2> QED
    BY <2>1 DEF NewestFirst, Newest, c
<1>13. NewestFirst(days) \in Bijection(1..c, K) /\ Newest(NewestFirst(days))
  BY <1>10, <1>11, <1>12
<1> DEFINE g == NewestFirst(days)
<1>14. /\ g \in [1..c -> K] /\ (\A i, j \in 1..c : g[i] = g[j] => i = j)
       /\ \A x \in K : \E i \in 1..c : g[i] = x
  <2>1. g \in Bijection(C, K)
    BY <1>0, <1>13
  <2> HIDE DEF g
  <2>2. /\ g \in [C -> K] /\ (\A i, j \in C : g[i] = g[j] => i = j)
        /\ \A x \in K : \E i \in C : g[i] = x
    BY <2>1, BijectionParts
  <2> QED
    BY <1>0, <2>2
<1> HIDE DEF g
<1>15. \A i, j \in 1..c : i < j => days[g[i]] >= days[g[j]]
  BY <1>13, <1>14 DEF Newest, g
<1> QED
  BY <1>1, <1>14, <1>15 DEF c, g

-----------------------------------------------------------------------------
(* The history: one entry for a day, and its heatmap.                      *)

LEMMA LesserOfTwo ==
    ASSUME NEW a \in Nat, NEW b \in Nat
    PROVE  Min({a, b}) \in Nat /\ Min({a, b}) <= a /\ Min({a, b}) <= b
<1>1. Min({a, b}) \in {a, b} /\ \A y \in {a, b} : Min({a, b}) <= y
  <2>1. \E x \in {a, b} : \A y \in {a, b} : x <= y
    OBVIOUS
  <2> QED
    BY <2>1 DEF Min
<1> QED
  BY <1>1

LEMMA LesserIsOne ==
    ASSUME NEW a \in Nat, NEW b \in Nat
    PROVE  Min({a, b}) = a \/ Min({a, b}) = b
<1>1. Min({a, b}) \in {a, b}
  <2>1. \E x \in {a, b} : \A y \in {a, b} : x <= y
    OBVIOUS
  <2> QED
    BY <2>1 DEF Min
<1> QED
  BY <1>1

\* The days and the heatmaps of the days before: one of each for a day, the
\* newest first.
PairedDays(n, daily, heatmaps) ==
    /\ n \in Nat
    /\ daily = [i \in 1..n |-> daily[i]] /\ heatmaps = [i \in 1..n |-> heatmaps[i]]
    /\ \A i \in 1..n : daily[i].d \in DayKeys /\ daily[i].d = heatmaps[i].d
    /\ \A i, j \in 1..n : i < j => daily[i].d > daily[j].d
Paired(daily, heatmaps) == \E n : PairedDays(n, daily, heatmaps)

LEMMA TrimmedIsPaired ==
    ASSUME MaxDaily \in Nat, NEW K, IsFiniteSet(K), NEW daily, NEW heatmaps,
           \A i \in K : daily[i].d \in DayKeys /\ daily[i].d = heatmaps[i].d,
           \A i, j \in K : daily[i].d = daily[j].d => i = j
    PROVE  Paired(Trimmed(daily, K), Trimmed(heatmaps, K))
<1> DEFINE days == [i \in K |-> daily[i].d]
           c == Cardinality(K)
           f == NewestFirst(days)
           n == Min({MaxDaily, c})
           trimmed == Trimmed(daily, K)
           maps == Trimmed(heatmaps, K)
<1>1. /\ days \in [K -> Int] /\ days = [i \in K |-> heatmaps[i].d]
      /\ \A i \in K : days[i] \in DayKeys
  BY KeysAreOfDates
<1>2. /\ c \in Nat /\ f \in [1..c -> K]
      /\ \A i, j \in 1..c : f[i] = f[j] => i = j
      /\ \A i, j \in 1..c : i < j => days[f[i]] >= days[f[j]]
  <2> HIDE DEF days
  <2> QED
    BY <1>1, NewestFirstOrders
<1>3. trimmed = [k \in 1..n |-> daily[f[k]]]
  BY DEF Trimmed
<1>4. maps = [k \in 1..n |-> heatmaps[f[k]]]
  BY <1>1 DEF Trimmed
<1> HIDE DEF f, c, n, trimmed, maps
<1>5. n \in Nat /\ n <= c
  BY <1>2, LesserOfTwo DEF n
<1>6. \A i \in 1..n : i \in 1..c
  BY <1>2, <1>5
<1>7. \A i \in 1..n : f[i] \in K
  BY <1>2, <1>6
<1>8. \A i \in 1..n : trimmed[i].d = days[f[i]] /\ maps[i].d = days[f[i]] /\ days[f[i]] \in DayKeys
  BY <1>3, <1>4, <1>7
<1>9. ASSUME NEW i \in 1..n, NEW j \in 1..n, i < j
      PROVE  trimmed[i].d > trimmed[j].d
  <2>1. days[f[i]] >= days[f[j]]
    <3> HIDE DEF days
    <3> QED
      BY <1>2, <1>6, <1>9
  <2>2. f[i] # f[j]
    <3>1. i # j
      BY <1>9
    <3> QED
      BY <1>2, <1>6, <3>1
  <2>3. days[f[i]] # days[f[j]]
    BY <1>7, <2>2
  <2> HIDE DEF days
  <2> QED
    BY <1>8, <2>1, <2>3, KeysAreOfDates
<1> HIDE DEF days
<1>10. PairedDays(n, trimmed, maps)
  BY <1>3, <1>4, <1>5, <1>8, <1>9 DEF PairedDays
<1> QED
  BY <1>10 DEF Paired, trimmed, maps

LEMMA PairedTrims ==
    ASSUME MaxDaily \in Nat, NEW daily, NEW heatmaps, Paired(daily, heatmaps)
    PROVE  Paired(Trimmed(daily, DOMAIN daily), Trimmed(heatmaps, DOMAIN heatmaps))
<1>1. PICK n : PairedDays(n, daily, heatmaps)
  BY DEF Paired
<1>2. DOMAIN daily = 1..n /\ DOMAIN heatmaps = 1..n /\ n \in Nat
  BY <1>1 DEF PairedDays
<1>3. IsFiniteSet(1..n)
  <2>1. 1 \in Int /\ n \in Int
    BY <1>2
  <2> QED
    BY <2>1, FS_Interval
<1>4. \A i \in 1..n : daily[i].d \in DayKeys /\ daily[i].d = heatmaps[i].d
  BY <1>1 DEF PairedDays
<1>5. ASSUME NEW i \in 1..n, NEW j \in 1..n, daily[i].d = daily[j].d
      PROVE  i = j
  <2>1. i < j \/ j < i \/ i = j
    BY <1>2
  <2>2. ~ (i < j) /\ ~ (j < i)
    <3>1. daily[i].d \in Int /\ daily[j].d \in Int
      BY <1>4, KeysAreOfDates
    <3> QED
      BY <1>1, <1>5, <3>1 DEF PairedDays
  <2> QED
    BY <2>1, <2>2
<1> QED
  BY <1>2, <1>3, <1>4, <1>5, TrimmedIsPaired

LEMMA OneInFront ==
    ASSUME NEW n \in Nat, NEW s, s = [i \in 1..n |-> s[i]], NEW e
    PROVE  LET all == <<e>> \o s
           IN  /\ DOMAIN all = 1..(n + 1) /\ all[1] = e
               /\ \A i \in 1..n : all[i + 1] = s[i]
<1> DEFINE S == {e} \union {s[i] : i \in 1..n}
           all == <<e>> \o s
<1>1. s \in [1..n -> S]
  OBVIOUS
<1>2. s \in Seq(S) /\ Len(s) = n
  <2> HIDE DEF S
  <2> QED
    BY <1>1
<1>3. <<e>> \in Seq(S) /\ Len(<<e>>) = 1
  OBVIOUS
<1> HIDE DEF S
<1>4. all \in Seq(S) /\ Len(all) = n + 1
  BY <1>2, <1>3
<1>5. \A i \in 1..(n + 1) : all[i] = IF i <= 1 THEN e ELSE s[i - 1]
  BY <1>2, <1>3
<1>6. \A i \in 1..n : i + 1 \in 1..(n + 1) /\ ~ (i + 1 <= 1) /\ (i + 1) - 1 = i
  OBVIOUS
<1>7. 1 \in 1..(n + 1)
  OBVIOUS
<1>8. DOMAIN all = 1..(n + 1)
  BY <1>4
<1> HIDE DEF all
<1>9. all[1] = e
  <2>1. PICK j : j = 1
    OBVIOUS
  <2>2. j \in 1..(n + 1) /\ j <= 1
    BY <1>7, <2>1
  <2>3. all[j] = e
    BY <1>5, <2>2
  <2> QED
    BY <2>1, <2>3
<1>10. ASSUME NEW i \in 1..n
       PROVE  all[i + 1] = s[i]
  <2> DEFINE j == i + 1
  <2>1. j \in 1..(n + 1) /\ ~ (j <= 1) /\ j - 1 = i
    BY <1>6
  <2> HIDE DEF j
  <2>2. all[j] = s[i]
    BY <1>5, <2>1
  <2> QED
    BY <2>2 DEF j
<1> QED
  BY <1>8, <1>9, <1>10 DEF all

\* What finish_day keeps is trimmed: of each day one entry and its heatmap.
TrimsAt(K, daily, e, heatmaps, h) ==
    LET all == <<e>> \o daily
        maps == <<h>> \o heatmaps
    IN  /\ IsFiniteSet(K) /\ 1 \in K /\ all[1] = e /\ maps[1] = h
        /\ Added(daily, e) = Trimmed(all, K) /\ Added(heatmaps, h) = Trimmed(maps, K)
        /\ \A i \in K : all[i].d \in DayKeys /\ all[i].d = maps[i].d
        /\ \A i, j \in K : all[i].d = all[j].d => i = j

LEMMA AddedTrims ==
    ASSUME NEW daily, NEW heatmaps, Paired(daily, heatmaps),
           NEW e, NEW h, e.d \in DayKeys, e.d = h.d
    PROVE  \E K : TrimsAt(K, daily, e, heatmaps, h)
<1>1. PICK n : PairedDays(n, daily, heatmaps)
  BY DEF Paired
<1>2. n \in Nat
  BY <1>1 DEF PairedDays
<1> DEFINE all == <<e>> \o daily
           maps == <<h>> \o heatmaps
           K == {i \in 1..(n + 1) : i = 1 \/ all[i].d # e.d}
<1>3. /\ DOMAIN all = 1..(n + 1) /\ all[1] = e
      /\ \A i \in 1..n : all[i + 1] = daily[i]
  BY <1>1, OneInFront DEF PairedDays
<1>4. /\ DOMAIN maps = 1..(n + 1) /\ maps[1] = h
      /\ \A i \in 1..n : maps[i + 1] = heatmaps[i]
  BY <1>1, OneInFront DEF PairedDays
<1>5. Added(daily, e) = Trimmed(all, {i \in DOMAIN all : i = 1 \/ all[i].d # e.d})
  BY DEF Added
<1>6. Added(heatmaps, h) = Trimmed(maps, {i \in DOMAIN maps : i = 1 \/ maps[i].d # h.d})
  BY DEF Added
<1> HIDE DEF all, maps
<1>7. \A i \in 1..(n + 1) : i = 1 \/ (i - 1 \in 1..n /\ (i - 1) + 1 = i)
  BY <1>2
<1>8. ASSUME NEW i \in 1..(n + 1)
      PROVE  all[i].d \in DayKeys /\ all[i].d = maps[i].d
  <2>1. \A j \in 1..n : daily[j].d \in DayKeys /\ daily[j].d = heatmaps[j].d
    BY <1>1 DEF PairedDays
  <2>2. CASE i = 1
    BY <1>3, <1>4, <2>2
  <2>3. CASE i # 1
    <3>1. PICK j \in 1..n : i = j + 1
      BY <1>7, <2>3
    <3> QED
      BY <1>3, <1>4, <2>1, <3>1
  <2> QED
    BY <2>2, <2>3
<1>9. /\ K = {i \in DOMAIN all : i = 1 \/ all[i].d # e.d}
      /\ K = {i \in DOMAIN maps : i = 1 \/ maps[i].d # h.d}
  BY <1>3, <1>4, <1>8
<1>10. ASSUME NEW i \in K, NEW j \in K, all[i].d = all[j].d
       PROVE  i = j
  <2>1. i = 1 <=> j = 1
    BY <1>3, <1>10
  <2>2. CASE i = 1
    BY <2>1, <2>2
  <2>3. CASE i # 1
    <3>1. PICK k \in 1..n : i = k + 1
      BY <1>7, <2>3
    <3>2. PICK l \in 1..n : j = l + 1
      BY <1>7, <2>1, <2>3
    <3>3. daily[k].d = daily[l].d
      BY <1>3, <1>10, <3>1, <3>2
    <3>4. daily[k].d \in Int /\ daily[l].d \in Int
      BY <1>1, KeysAreOfDates DEF PairedDays
    <3>5. ~ (k < l) /\ ~ (l < k)
      BY <1>1, <3>3, <3>4 DEF PairedDays
    <3>6. k = l
      BY <1>2, <3>5
    <3> QED
      BY <3>1, <3>2, <3>6
  <2> QED
    BY <2>2, <2>3
<1>11. IsFiniteSet(K)
  <2>1. 1 \in Int /\ n + 1 \in Int
    BY <1>2
  <2>2. IsFiniteSet(1..(n + 1)) /\ K \in SUBSET (1..(n + 1))
    BY <2>1, FS_Interval
  <2> HIDE DEF K
  <2> QED
    BY <2>2, FS_Subset
<1>12. \A i \in K : all[i].d \in DayKeys /\ all[i].d = maps[i].d
  BY <1>8
<1>13. 1 \in K
  BY <1>2
<1> HIDE DEF K
<1>14. Added(daily, e) = Trimmed(all, K) /\ Added(heatmaps, h) = Trimmed(maps, K)
  BY <1>5, <1>6, <1>9
<1> QED
  <2>1. TrimsAt(K, daily, e, heatmaps, h)
    BY <1>3, <1>4, <1>10, <1>11, <1>12, <1>13, <1>14 DEF TrimsAt, all, maps
  <2> QED
    BY <2>1

LEMMA AddedIsPaired ==
    ASSUME MaxDaily \in Nat, NEW daily, NEW heatmaps, Paired(daily, heatmaps),
           NEW e, NEW h, e.d \in DayKeys, e.d = h.d
    PROVE  Paired(Added(daily, e), Added(heatmaps, h))
<1> DEFINE all == <<e>> \o daily
           maps == <<h>> \o heatmaps
<1>0. PICK K : TrimsAt(K, daily, e, heatmaps, h)
  BY AddedTrims
<1>1. /\ IsFiniteSet(K) /\ 1 \in K /\ all[1] = e /\ maps[1] = h
      /\ Added(daily, e) = Trimmed(all, K) /\ Added(heatmaps, h) = Trimmed(maps, K)
      /\ \A i \in K : all[i].d \in DayKeys /\ all[i].d = maps[i].d
      /\ \A i, j \in K : all[i].d = all[j].d => i = j
  BY <1>0 DEF TrimsAt
<1> HIDE DEF all, maps
<1> QED
  BY <1>1, TrimmedIsPaired

LEMMA NewestFirstReaches ==
    ASSUME NEW K, IsFiniteSet(K), NEW days \in [K -> Int], NEW x \in K
    PROVE  \E i \in 1..Cardinality(K) : NewestFirst(days)[i] = x
BY NewestFirstOrders

\* An entry among the ones to be trimmed is kept, with its heatmap, or there are
\* enough newer ones.
LEMMA TrimmedKeeps ==
    ASSUME MaxDaily \in Nat, NEW K, IsFiniteSet(K), NEW daily, NEW heatmaps,
           \A i \in K : daily[i].d \in DayKeys /\ daily[i].d = heatmaps[i].d,
           \A i, j \in K : daily[i].d = daily[j].d => i = j, NEW k \in K
    PROVE  LET kept == Trimmed(daily, K)
               maps == Trimmed(heatmaps, K)
           IN  \/ \E i \in DOMAIN kept : kept[i] = daily[k] /\ maps[i] = heatmaps[k]
               \/ Cardinality({i \in DOMAIN kept : kept[i].d > daily[k].d}) = MaxDaily
<1> DEFINE days == [i \in K |-> daily[i].d]
           c == Cardinality(K)
           f == NewestFirst(days)
           n == Min({MaxDaily, c})
           kept == Trimmed(daily, K)
           maps == Trimmed(heatmaps, K)
           newer == {i \in DOMAIN kept : kept[i].d > daily[k].d}
<1>1. days \in [K -> Int] /\ days = [i \in K |-> heatmaps[i].d]
  BY KeysAreOfDates
<1>2. /\ c \in Nat /\ f \in [1..c -> K]
      /\ \A i, j \in 1..c : f[i] = f[j] => i = j
      /\ \A x \in K : \E i \in 1..c : f[i] = x
      /\ \A i, j \in 1..c : i < j => days[f[i]] >= days[f[j]]
  <2> HIDE DEF days
  <2>1. ASSUME NEW x \in K
        PROVE  \E i \in 1..c : f[i] = x
    BY <1>1, NewestFirstReaches
  <2> QED
    BY <1>1, <2>1, NewestFirstOrders
<1>3. kept = [i \in 1..n |-> daily[f[i]]]
  BY DEF Trimmed
<1>4. maps = [i \in 1..n |-> heatmaps[f[i]]]
  BY <1>1 DEF Trimmed
<1> HIDE DEF f, c, n, kept, maps
<1>5. n \in Nat /\ n <= c /\ (n = c \/ n = MaxDaily)
  BY <1>2, LesserIsOne, LesserOfTwo DEF n
<1>6. \A i \in 1..n : i \in 1..c /\ f[i] \in K
  BY <1>2, <1>5
<1>7. PICK p \in 1..c : f[p] = k
  BY <1>2
<1>8. CASE p \in 1..n
  <2>1. p \in DOMAIN kept /\ kept[p] = daily[k] /\ maps[p] = heatmaps[k]
    BY <1>3, <1>4, <1>7, <1>8
  <2> QED
    BY <2>1 DEF kept, maps
<1>9. CASE p \notin 1..n
  <2>1. n = MaxDaily /\ p > n
    <3>1. p \in Nat /\ 1 <= p /\ p <= c
      BY <1>2
    <3>2. p > n
      BY <1>5, <1>9, <3>1
    <3> QED
      BY <1>2, <1>5, <3>1, <3>2
  <2>2. ASSUME NEW i \in 1..n
        PROVE  kept[i].d > daily[k].d
    <3>1. i < p /\ i # p /\ i \in 1..c /\ f[i] \in K
      <4>1. i \in Nat /\ i <= n /\ p \in Nat
        BY <1>2, <1>5
      <4>2. i < p /\ i # p
        BY <1>5, <2>1, <4>1
      <4> QED
        BY <1>6, <4>2
    <3>2. days[f[i]] >= days[f[p]]
      <4> HIDE DEF days
      <4> QED
        BY <1>2, <3>1
    <3>3. f[i] # k
      BY <1>2, <1>7, <3>1
    <3>4. kept[i].d = days[f[i]] /\ days[f[p]] = daily[k].d /\ days[f[i]] # days[f[p]]
      BY <1>3, <1>7, <3>1, <3>3
    <3>5. days[f[i]] \in Int /\ days[f[p]] \in Int
      <4> HIDE DEF days
      <4> QED
        BY <1>1, <1>7, <3>1
    <3> HIDE DEF days
    <3> QED
      BY <3>2, <3>4, <3>5
  <2>3. newer = 1..n
    <3>1. DOMAIN kept = 1..n
      BY <1>3
    <3> QED
      BY <2>2, <3>1
  <2>4. Cardinality(1..n) = n
    <3>1. 1 \in Int /\ n \in Int
      BY <1>5
    <3>2. Cardinality(1..n) = IF 1 > n THEN 0 ELSE n - 1 + 1
      BY <3>1, FS_Interval
    <3> QED
      BY <1>5, <3>2
  <2>5. Cardinality(newer) = MaxDaily
    <3> HIDE DEF newer
    <3> QED
      BY <2>1, <2>3, <2>4
  <2> QED
    BY <2>5 DEF kept
<1> QED
  BY <1>8, <1>9

LEMMA AddedKeeps ==
    ASSUME MaxDaily \in Nat, NEW daily, NEW heatmaps, Paired(daily, heatmaps),
           NEW e, NEW h, e.d \in DayKeys, e.d = h.d
    PROVE  LET kept == Added(daily, e)
               maps == Added(heatmaps, h)
           IN  \/ \E i \in DOMAIN kept : kept[i] = e /\ maps[i] = h
               \/ Cardinality({i \in DOMAIN kept : kept[i].d > e.d}) = MaxDaily
<1> DEFINE all == <<e>> \o daily
           maps == <<h>> \o heatmaps
<1>0. PICK K : TrimsAt(K, daily, e, heatmaps, h)
  BY AddedTrims
<1>1. /\ IsFiniteSet(K) /\ 1 \in K /\ all[1] = e /\ maps[1] = h
      /\ Added(daily, e) = Trimmed(all, K) /\ Added(heatmaps, h) = Trimmed(maps, K)
      /\ \A i \in K : all[i].d \in DayKeys /\ all[i].d = maps[i].d
      /\ \A i, j \in K : all[i].d = all[j].d => i = j
  BY <1>0 DEF TrimsAt
<1> HIDE DEF all, maps
<1>2. PICK k \in K : k = 1
  BY <1>1
<1>3. LET kept == Trimmed(all, K)
          trimmed == Trimmed(maps, K)
      IN  \/ \E i \in DOMAIN kept : kept[i] = all[k] /\ trimmed[i] = maps[k]
          \/ Cardinality({i \in DOMAIN kept : kept[i].d > all[k].d}) = MaxDaily
  BY <1>1, TrimmedKeeps
<1> QED
  BY <1>1, <1>2, <1>3

-----------------------------------------------------------------------------
(* The heatmap and its encoding.                                           *)

LEMMA EndsInOrder ==
    ASSUME NEW K \in SUBSET Int, IsFiniteSet(K)
    PROVE  LET n == Cardinality(K)
               order == NewestFirst([c \in K |-> -c])
           IN  /\ n \in Nat /\ order \in [1..n -> K]
               /\ \A i, j \in 1..n : i < j => order[i] < order[j]
               /\ \A x \in K : \E i \in 1..n : order[i] = x
<1> DEFINE n == Cardinality(K)
           days == [c \in K |-> -c]
           order == NewestFirst(days)
<1>1. days \in [K -> Int] /\ \A c \in K : days[c] = -c /\ c \in Int
  OBVIOUS
<1>2. /\ n \in Nat /\ order \in [1..n -> K]
      /\ \A i, j \in 1..n : order[i] = order[j] => i = j
      /\ \A x \in K : \E i \in 1..n : order[i] = x
      /\ \A i, j \in 1..n : i < j => days[order[i]] >= days[order[j]]
  <2> HIDE DEF days
  <2> QED
    BY <1>1, NewestFirstOrders
<1> HIDE DEF n, days, order
<1>3. ASSUME NEW i \in 1..n, NEW j \in 1..n, i < j
      PROVE  order[i] < order[j]
  <2>1. i # j /\ order[i] \in K /\ order[j] \in K
    BY <1>2, <1>3
  <2>2. order[i] # order[j]
    BY <1>2, <2>1
  <2>3. - order[i] >= - order[j] /\ order[i] \in Int /\ order[j] \in Int
    BY <1>1, <1>2, <1>3, <2>1
  <2> QED
    BY <2>2, <2>3
<1> QED
  BY <1>2, <1>3 DEF n, days, order

LEMMA FunctionIsSequence ==
    ASSUME NEW n \in Nat, NEW s, s = [i \in 1..n |-> s[i]]
    PROVE  Len(s) = n
<1> DEFINE S == {s[i] : i \in 1..n}
<1>1. s \in [1..n -> S]
  OBVIOUS
<1> HIDE DEF S
<1> QED
  BY <1>1

\* The ends of runs with given lengths.
RunsUpTo(rle, n, order) ==
    /\ rle = [i \in 1..n |-> rle[i]] /\ \A i \in 1..n : order[i] \in Int
    /\ \A i \in 1..n : rle[i].run = order[i] - (IF i = 1 THEN 0 ELSE order[i - 1])

LEMMA RunsEndInOrder ==
    ASSUME NEW n \in Nat, NEW order, NEW rle, RunsUpTo(rle, n, order), NEW i \in 0..n
    PROVE  RunEnds(rle)[i] = IF i = 0 THEN 0 ELSE order[i]
<1> DEFINE Ends(f) == f = [k \in 0..n |-> IF k = 0 THEN 0 ELSE f[k - 1] + rle[k].run]
           g == [k \in 0..n |-> IF k = 0 THEN 0 ELSE order[k]]
           e == CHOOSE f : Ends(f)
<1>0. /\ rle = [k \in 1..n |-> rle[k]] /\ \A k \in 1..n : order[k] \in Int
      /\ \A k \in 1..n : rle[k].run = order[k] - (IF k = 1 THEN 0 ELSE order[k - 1])
  BY DEF RunsUpTo
<1>1. RunEnds(rle) = e
  BY <1>0, FunctionIsSequence DEF RunEnds
<1>2. \A k \in 0..n :
         k = 0 \/ (k \in 1..n /\ k - 1 \in 0..n /\ (k = 1 <=> k - 1 = 0) /\ (k = 1 \/ k - 1 \in 1..n))
  OBVIOUS
<1>3. Ends(g)
  <2>1. \A k \in 0..n : g[k] = IF k = 0 THEN 0 ELSE g[k - 1] + rle[k].run
    <3>1. ASSUME NEW k \in 0..n, k # 0
          PROVE  g[k] = g[k - 1] + rle[k].run
      <4>1. g[k] = order[k] /\ g[k - 1] = (IF k = 1 THEN 0 ELSE order[k - 1])
        BY <1>2, <3>1
      <4>2. rle[k].run = order[k] - g[k - 1] /\ order[k] \in Int /\ g[k - 1] \in Int
        BY <1>0, <1>2, <3>1, <4>1
      <4> HIDE DEF g
      <4> QED
        BY <4>1, <4>2
    <3>2. ASSUME NEW k \in 0..n, k = 0
          PROVE  g[k] = 0
      BY <3>2
    <3> HIDE DEF g
    <3> QED
      BY <3>1, <3>2
  <2>2. g = [k \in 0..n |-> g[k]]
    OBVIOUS
  <2> HIDE DEF g
  <2> QED
    BY <2>1, <2>2
<1>4. Ends(e)
  <2> HIDE DEF Ends, g
  <2> QED
    BY <1>3
<1>5. \A k \in 0..n : e[k] = IF k = 0 THEN 0 ELSE e[k - 1] + rle[k].run
  <2> HIDE DEF e
  <2> QED
    BY <1>4
<1>6. \A k \in 0..n : g[k] = IF k = 0 THEN 0 ELSE g[k - 1] + rle[k].run
  <2> HIDE DEF g
  <2> QED
    BY <1>3
<1> HIDE DEF Ends, e
<1> DEFINE Bad == {k \in Nat : k <= n /\ e[k] # g[k]}
<1>7. Bad = {}
  <2>1. SUFFICES ASSUME Bad # {} PROVE FALSE
    OBVIOUS
  <2>2. PICK b \in Bad : \A l \in Bad : b <= l
    <3>1. Bad \in SUBSET Nat
      OBVIOUS
    <3> HIDE DEF Bad
    <3> QED
      BY <2>1, <3>1, LeastNatural
  <2>3. b \in 0..n /\ e[b] # g[b]
    BY <2>2
  <2>4. b # 0
    <3> HIDE DEF g
    <3> QED
      BY <1>5, <1>6, <2>3
  <2>5. b - 1 \in Nat /\ b - 1 <= n /\ ~ (b <= b - 1)
    BY <2>3, <2>4
  <2>6. e[b - 1] = g[b - 1]
    <3>1. b - 1 \notin Bad
      <4> HIDE DEF Bad
      <4> QED
        BY <2>2, <2>5
    <3> HIDE DEF g
    <3> QED
      BY <2>5, <3>1
  <2>7. g[b] = g[b - 1] + rle[b].run
    <3> HIDE DEF g
    <3> QED
      BY <1>6, <2>3, <2>4
  <2>8. e[b] = e[b - 1] + rle[b].run
    BY <1>5, <2>3, <2>4
  <2> HIDE DEF g, Bad
  <2> QED
    BY <2>3, <2>6, <2>7, <2>8
<1>8. e[i] = g[i]
  <2>1. i \in Nat /\ i <= n
    OBVIOUS
  <2> HIDE DEF g
  <2> QED
    BY <1>7, <2>1
<1> QED
  BY <1>1, <1>8

\* Cells without an end between them are alike.
LEMMA OneRun ==
    ASSUME NEW n \in Nat, NEW cells, NEW a \in 1..n, NEW b \in 1..n, a <= b,
           \A x \in 1..n : a <= x /\ x < b => cells[x] = cells[x + 1]
    PROVE  cells[b] = cells[a]
<1> DEFINE Bad == {x \in Nat : a <= x /\ x <= b /\ cells[x] # cells[a]}
<1>1. SUFFICES ASSUME Bad # {} PROVE FALSE
  <2>1. b \in Nat /\ b <= b
    OBVIOUS
  <2> QED
    BY <1>1, <2>1
<1>2. PICK x \in Bad : \A l \in Bad : x <= l
  <2>1. Bad \in SUBSET Nat
    OBVIOUS
  <2> HIDE DEF Bad
  <2> QED
    BY <1>1, <2>1, LeastNatural
<1>3. x \in Nat /\ a <= x /\ x <= b /\ cells[x] # cells[a]
  OBVIOUS
<1>4. x # a
  BY <1>3
<1> DEFINE w == x - 1
<1>5. w \in Nat /\ ~ (x <= w) /\ w \in 1..n /\ a <= w /\ w <= b /\ w < b /\ w + 1 = x
  BY <1>3, <1>4
<1>6. cells[w] = cells[a]
  <2>1. w \notin Bad
    <3> HIDE DEF Bad, w
    <3> QED
      BY <1>2, <1>5
  <2> HIDE DEF w
  <2> QED
    BY <1>5, <2>1
<1> HIDE DEF w, Bad
<1>7. cells[w] = cells[w + 1]
  BY <1>5
<1> QED
  BY <1>3, <1>5, <1>6, <1>7

\* What is read back from the encoding of a heatmap is the heatmap.
LEMMA HeatmapIsReadBack ==
    ASSUME LastCell \in Nat, NEW cells, cells = [c \in 1..LastCell |-> cells[c]]
    PROVE  Decode(Encode(cells)) = cells
<1> DEFINE ends == {c \in 1..LastCell : c = LastCell \/ cells[c] # cells[c + 1]}
           n == Cardinality(ends)
           order == NewestFirst([c \in ends |-> -c])
           rle == Encode(cells)
<1>1. ends \in SUBSET (1..LastCell) /\ ends \in SUBSET Int /\ ends \in SUBSET Nat
      /\ \A c \in 1..LastCell : c \notin ends => c # LastCell /\ cells[c] = cells[c + 1]
  OBVIOUS
<1>a. LastCell > 0 => LastCell \in ends
  OBVIOUS
<1>2. IsFiniteSet(ends)
  <2>1. 1 \in Int /\ LastCell \in Int
    OBVIOUS
  <2> HIDE DEF ends
  <2> QED
    BY <1>1, <2>1, FS_Interval, FS_Subset
<1>3. rle = [i \in 1..n |-> [value |-> cells[order[i]],
                             run |-> order[i] - (IF i = 1 THEN 0 ELSE order[i - 1])]]
  BY DEF Encode
<1> HIDE DEF ends
<1>4. /\ n \in Nat /\ order \in [1..n -> ends]
      /\ \A i, j \in 1..n : i < j => order[i] < order[j]
      /\ \A x \in ends : \E i \in 1..n : order[i] = x
  BY <1>1, <1>2, EndsInOrder
<1> HIDE DEF n, order, rle
<1>5. /\ rle = [i \in 1..n |-> rle[i]]
      /\ \A i \in 1..n : rle[i].run = order[i] - (IF i = 1 THEN 0 ELSE order[i - 1])
      /\ \A i \in 1..n : rle[i].value = cells[order[i]]
  BY <1>3
<1>6. Len(rle) = n
  BY <1>4, <1>5, FunctionIsSequence
<1>7. \A i \in 1..n : order[i] \in ends /\ order[i] \in 1..LastCell /\ order[i] \in Int
  BY <1>1, <1>4
<1>8. \A i \in 0..n : RunEnds(rle)[i] = IF i = 0 THEN 0 ELSE order[i]
  <2>1. RunsUpTo(rle, n, order)
    BY <1>5, <1>7 DEF RunsUpTo
  <2>2. ASSUME NEW i \in 0..n
        PROVE  RunEnds(rle)[i] = IF i = 0 THEN 0 ELSE order[i]
    BY <1>4, <2>1, RunsEndInOrder
  <2> QED
    BY <2>2
<1>9. \A i \in 1..n :
         i \in 0..n /\ i - 1 \in 0..n /\ i # 0 /\ (i = 1 \/ i - 1 \in 1..n) /\ (i - 1 = 0 <=> i = 1)
  BY <1>4
<1>10. \A i \in 1..n : \A c :
          Covers(rle, i, c) <=> (IF i = 1 THEN 0 ELSE order[i - 1]) < c /\ c <= order[i]
  BY <1>8, <1>9 DEF Covers
<1>11. ASSUME NEW c \in 1..LastCell, NEW i \in 1..n, Covers(rle, i, c)
       PROVE  rle[i].value = cells[c]
  <2>1. (IF i = 1 THEN 0 ELSE order[i - 1]) < c /\ c <= order[i]
    BY <1>10, <1>11
  <2>2. ASSUME NEW x \in 1..LastCell, c <= x, x < order[i]
        PROVE  cells[x] = cells[x + 1]
    <3>1. SUFFICES ASSUME x \in ends PROVE FALSE
      BY <1>1
    <3>2. PICK j \in 1..n : order[j] = x
      BY <1>4, <3>1
    <3>3. ~ (i < j) /\ i # j /\ i \in Int /\ j \in Int
      <4>1. order[i] \in Int /\ order[j] \in Int
        BY <1>7
      <4> QED
        BY <1>4, <2>2, <3>2, <4>1
    <3>4. j < i /\ i - 1 \in 1..n /\ i # 1 /\ (j = i - 1 \/ j < i - 1)
      <4>1. n \in Nat
        BY <1>4
      <4> QED
        BY <3>3, <4>1
    <3>5. order[j] <= order[i - 1]
      <4>1. order[j] \in Int /\ order[i - 1] \in Int
        BY <1>7, <3>4
      <4> QED
        BY <1>4, <3>4, <4>1
    <3>6. order[i - 1] \in Int /\ order[i - 1] < c
      BY <1>7, <2>1, <3>4
    <3> QED
      BY <2>2, <3>2, <3>5, <3>6
  <2>3. order[i] \in 1..LastCell
    BY <1>7
  <2>4. cells[order[i]] = cells[c]
    BY <2>1, <2>2, <2>3, OneRun
  <2> QED
    BY <1>5, <2>4
<1>12. ASSUME NEW c \in 1..LastCell
       PROVE  \E i \in 1..n : Covers(rle, i, c)
  <2> DEFINE Later == {x \in ends : c <= x}
  <2>1. PICK x \in Later : \A y \in Later : x <= y
    <3>1. Later \in SUBSET Nat /\ Later # {}
      <4>1. LastCell \in ends /\ c <= LastCell
        BY <1>a
      <4> QED
        BY <1>1, <4>1
    <3> HIDE DEF Later
    <3> QED
      BY <3>1, LeastNatural
  <2>2. x \in ends /\ c <= x /\ \A y \in ends : c <= y => x <= y
    BY <2>1
  <2>3. PICK i \in 1..n : order[i] = x
    BY <1>4, <2>2
  <2>4. CASE i = 1
    <3>1. 0 < c /\ c <= order[i]
      BY <2>2, <2>3
    <3> QED
      BY <1>10, <2>4, <3>1
  <2>5. CASE i # 1
    <3>1. i - 1 \in 1..n /\ i - 1 < i
      BY <1>4, <2>5
    <3>2. /\ order[i - 1] < order[i] /\ order[i - 1] \in ends
          /\ order[i - 1] \in Int /\ order[i] \in Int
      BY <1>4, <1>7, <3>1
    <3>3. order[i - 1] < c
      BY <2>2, <2>3, <3>2
    <3> QED
      BY <1>10, <2>2, <2>3, <2>5, <3>3
  <2> QED
    BY <2>4, <2>5
<1>13. \A c \in 1..LastCell : Decode(rle)[c] = cells[c]
  <2>1. ASSUME NEW c \in 1..LastCell
        PROVE  Decode(rle)[c] = cells[c]
    <3> DEFINE i == CHOOSE k \in 1..n : Covers(rle, k, c)
    <3>1. Decode(rle)[c] = rle[i].value
      BY <1>6, <1>12 DEF Decode
    <3>2. i \in 1..n /\ Covers(rle, i, c)
      BY <1>12
    <3> HIDE DEF i
    <3> QED
      BY <1>11, <3>1, <3>2
  <2> QED
    BY <2>1
<1>14. Decode(rle) = [c \in 1..LastCell |-> Decode(rle)[c]]
  BY DEF Decode
<1>15. Decode(rle) = cells
  BY <1>13, <1>14
<1> QED
  BY <1>15 DEF rle

-----------------------------------------------------------------------------
(* The inductive invariant.                                                *)

TodayOK(t) == t = NoDocument \/ t.d \in DayKeys \union {NoDay}
DocumentOK(document) ==
    \/ document = NoDocument
    \/ Paired(document.daily, document.heatDaily) /\ TodayOK(document.today)
StoreOK(s) ==
    /\ s = [today |-> s.today, daily |-> s.daily, heatDaily |-> s.heatDaily]
    /\ Paired(s.daily, s.heatDaily) /\ TodayOK(s.today)

CountsCells(cells) == cells = [c \in 1..LastCell |-> cells[c]]

\* No summary reaches back to the first years, not after the days that are
\* still to pass either.
FarFromTheFirst(date, passed) ==
    /\ IsDate(date) /\ passed \in Nat /\ passed <= MaxDays
    /\ date[1] + passed > MaxDays /\ \A w \in Windows : date[1] + passed > MaxDays + w

\* What is in RAM, what is in flash and what a dashboard has downloaded may all
\* become the history again: each has a heatmap for each of its days.
DaysInv ==
    /\ FarFromTheFirst(today, daysPassed) /\ dayKey \in DayKeys \union {NoDay}
    /\ StoreOK(store) /\ DocumentOK(saved) /\ DocumentOK(backup) /\ CountsCells(heat)

LEMMA DatesStayFar ==
    ASSUME NEW date, NEW passed, FarFromTheFirst(date, passed)
    PROVE  /\ KeyOf(date) \in DayKeys
           /\ passed < MaxDays => \A d \in {PreviousDate(date), date, NextDate(date)} :
                                     FarFromTheFirst(d, passed + 1)
<1> USE DEF FarFromTheFirst
<1>1. date[1] \in Int /\ MaxDays \in Nat /\ Windows \subseteq Nat
  BY DateParts, StatsDayAssumption
<1>2. SummaryDate(date)
  BY <1>1 DEF SummaryDate
<1>3. KeyOf(date) \in DayKeys
  BY <1>2, KeyOfSummaryDate
<1>4. ASSUME passed < MaxDays, NEW d, IsDate(d), d[1] >= date[1] - 1
      PROVE  FarFromTheFirst(d, passed + 1)
  <2>1. d[1] \in Int
    BY <1>4, DateParts
  <2> QED
    BY <1>1, <1>4, <2>1
<1>5. ASSUME passed < MaxDays
      PROVE  /\ IsDate(PreviousDate(date)) /\ PreviousDate(date)[1] >= date[1] - 1
             /\ IsDate(NextDate(date)) /\ NextDate(date)[1] >= date[1] - 1
  <2>1. date[1] > 1
    BY <1>1, <1>5
  <2>2. IsDate(NextDate(date)) /\ NextDate(date)[1] >= date[1]
    BY DayAfter
  <2>3. NextDate(date)[1] \in Int
    BY <2>2, DateParts
  <2> QED
    BY <1>1, <2>1, <2>2, <2>3, DayBefore
<1>6. date[1] >= date[1] - 1
  BY <1>1
<1> QED
  BY <1>3, <1>4, <1>5, <1>6

LEMMA EmptyIsPaired == Paired(<< >>, << >>)
<1>1. << >> = [i \in 1..0 |-> << >>[i]] /\ \A i : i \notin 1..0
  OBVIOUS
<1>2. PairedDays(0, << >>, << >>)
  BY <1>1 DEF PairedDays
<1> QED
  BY <1>2 DEF Paired

LEMMA CellsAreCounted ==
    /\ CountsCells(NoHeat) /\ \A rle : CountsCells(Decode(rle))
    /\ \A cells, visited : CountsCells(Warmer(cells, visited))
<1>1. CountsCells(NoHeat)
  BY DEF CountsCells, NoHeat
<1>2. \A rle : CountsCells(Decode(rle))
  BY DEF CountsCells, Decode
<1>3. \A cells, visited : CountsCells(Warmer(cells, visited))
  BY DEF CountsCells, Warmer
<1> QED
  BY <1>1, <1>2, <1>3

LEMMA DocumentOfIsOK ==
    ASSUME NEW s, StoreOK(s), NEW cells
    PROVE  DocumentOK(DocumentOf(s, cells))
<1> DEFINE document == DocumentOf(s, cells)
<1>1. document.daily = s.daily /\ document.heatDaily = s.heatDaily
  BY DEF DocumentOf
<1>2. DocumentOK(document)
  <2>1. TodayOK(document.today)
    <3>1. document.today = s.today \/ document.today = Day(NoDay, 0)
      BY DEF DocumentOf
    <3>2. TodayOK(Day(NoDay, 0))
      BY DEF TodayOK, Day
    <3> HIDE DEF document
    <3> QED
      BY <3>1, <3>2 DEF StoreOK
  <2> HIDE DEF document
  <2> QED
    BY <1>1, <2>1 DEF DocumentOK, StoreOK
<1> QED
  BY <1>2

LEMMA PersistedIsOK ==
    ASSUME NEW s, StoreOK(s), NEW cells, DocumentOK(saved), Persist(s, cells)
    PROVE  DocumentOK(saved')
<1>1. saved' = DocumentOf(s, cells) \/ saved' = saved \/ saved' = NoDocument
  BY DEF Persist
<1>2. DocumentOK(NoDocument)
  BY DEF DocumentOK
<1> QED
  BY <1>1, <1>2, DocumentOfIsOK

LEMMA LoadedIsOK ==
    ASSUME MaxDaily \in Nat, NEW document, DocumentOK(document), Load(document)
    PROVE  StoreOK(store') /\ CountsCells(heat')
<1>0. CountsCells(heat')
  BY CellsAreCounted DEF Load
<1>1. CASE document = NoDocument
  <2>1. store' = EmptyStore
    BY <1>1 DEF Load
  <2>2. store' = [today |-> NoDocument, daily |-> << >>, heatDaily |-> << >>]
    BY <2>1 DEF EmptyStore
  <2> QED
    BY <1>0, <2>2, EmptyIsPaired DEF StoreOK, TodayOK
<1>2. CASE document # NoDocument
  <2> DEFINE daily == Trimmed(document.daily, DOMAIN document.daily)
             maps == Trimmed(document.heatDaily, DOMAIN document.heatDaily)
  <2>1. store' = [today |-> document.today, daily |-> daily, heatDaily |-> maps]
    BY <1>2 DEF Load
  <2>2. Paired(document.daily, document.heatDaily) /\ TodayOK(document.today)
    BY <1>2 DEF DocumentOK
  <2>3. Paired(daily, maps)
    BY <2>2, PairedTrims
  <2> HIDE DEF daily, maps
  <2> QED
    BY <1>0, <2>1, <2>2, <2>3 DEF StoreOK
<1> QED
  BY <1>1, <1>2

LEMMA NewTodayIsOK ==
    ASSUME NEW s, StoreOK(s), NEW t, TodayOK(t)
    PROVE  StoreOK([s EXCEPT !.today = t])
<1> DEFINE r == [s EXCEPT !.today = t]
<1>1. r = [today |-> t, daily |-> s.daily, heatDaily |-> s.heatDaily]
  BY DEF StoreOK
<1>2. r.daily = s.daily /\ r.heatDaily = s.heatDaily /\ r.today = t
  BY <1>1
<1> HIDE DEF r
<1>3. StoreOK(r)
  BY <1>1, <1>2 DEF StoreOK
<1> QED
  BY <1>3 DEF r

LEMMA FinishedIsOK ==
    ASSUME MaxDaily \in Nat, NEW s, StoreOK(s), dayKey \in DayKeys, NEW n, NEW cells
    PROVE  StoreOK(Finished(s, n, cells))
<1> DEFINE e == Day(dayKey, n)
           h == [d |-> dayKey, cells |-> Encode(cells)]
           daily == Added(s.daily, e)
           maps == Added(s.heatDaily, h)
           r == Finished(s, n, cells)
<1>1. e.d \in DayKeys /\ e.d = h.d
  BY DEF Day
<1>2. r = [s EXCEPT !.daily = daily, !.heatDaily = maps]
  BY DEF Finished
<1> HIDE DEF e, h
<1>3. Paired(daily, maps)
  BY <1>1, AddedIsPaired DEF StoreOK
<1> HIDE DEF daily, maps, r
<1>4. r = [today |-> s.today, daily |-> daily, heatDaily |-> maps]
  BY <1>2 DEF StoreOK
<1>5. r.daily = daily /\ r.heatDaily = maps /\ r.today = s.today
  BY <1>4
<1>6. StoreOK(r)
  BY <1>3, <1>4, <1>5 DEF StoreOK
<1> QED
  BY <1>6 DEF r

LEMMA DaysInvInit == StatsDayInit => DaysInv
<1> SUFFICES ASSUME StatsDayInit PROVE DaysInv
  OBVIOUS
<1>1. FarFromTheFirst(today, daysPassed) /\ dayKey \in DayKeys \union {NoDay}
  <2>1. today \in StartDates /\ daysPassed = 0 /\ dayKey = NoDay
    BY DEF StatsDayInit
  <2>2. /\ IsDate(today) /\ today[1] > MaxDays /\ \A w \in Windows : today[1] > MaxDays + w
        /\ MaxDays \in Nat /\ today[1] \in Int
    BY <2>1, StatsDayAssumption, DateParts
  <2> QED
    BY <2>1, <2>2 DEF FarFromTheFirst
<1>2. store = [today |-> NoDocument, daily |-> << >>, heatDaily |-> << >>]
  BY DEF StatsDayInit, EmptyStore
<1>3. StoreOK(store)
  BY <1>2, EmptyIsPaired DEF StoreOK, TodayOK
<1> QED
  BY <1>1, <1>3, CellsAreCounted DEF StatsDayInit, DaysInv, DocumentOK

LEMMA DaysInvNext == DaysInv /\ [StatsDayNext]_statsDayVars => DaysInv'
<1> SUFFICES ASSUME DaysInv, [StatsDayNext]_statsDayVars PROVE DaysInv'
  OBVIOUS
<1> USE DEF DaysInv
<1>0. MaxDaily \in Nat
  BY StatsDayAssumption
<1>1. /\ KeyOf(today) \in DayKeys
      /\ daysPassed < MaxDays => \A d \in {PreviousDate(today), today, NextDate(today)} :
                                    FarFromTheFirst(d, daysPassed + 1)
  BY DatesStayFar
<1>a. \A k \in DayKeys \union {NoDay} : \A n : TodayOK(Day(k, n))
  BY DEF TodayOK, Day
<1>2. ASSUME NEW cells \in SUBSET (1..LastCell), Watch(cells)
      PROVE  DaysInv'
  <2>1. StoreOK(store') /\ dayKey' \in DayKeys \union {NoDay}
    <3>1. CASE clockSet
      <4> PICK t : t = Day(KeyOf(today), hits')
        OBVIOUS
      <4>1. dayKey' = KeyOf(today) /\ store' = [store EXCEPT !.today = t]
        BY <1>2, <3>1 DEF Watch
      <4>2. StoreOK([store EXCEPT !.today = t])
        BY <1>1, <1>a, NewTodayIsOK
      <4> QED
        BY <1>1, <4>1, <4>2
    <3>2. CASE ~clockSet
      <4>1. dayKey' = dayKey /\ store' = store
        BY <1>2, <3>2 DEF Watch
      <4> QED
        BY <4>1
    <3> QED
      BY <3>1, <3>2
  <2> QED
    BY <1>2, <2>1, CellsAreCounted DEF Watch
<1>3. CASE FinishDay
  <2> DEFINE s == Finished(store, hits, heat)
  <2>1. StoreOK(s)
    <3>1. dayKey \in DayKeys
      BY <1>3 DEF FinishDay
    <3> QED
      BY <1>0, <3>1, FinishedIsOK
  <2>2. store' = [s EXCEPT !.today = Day(KeyOf(today), 0)]
    BY <1>3 DEF FinishDay
  <2> HIDE DEF s
  <2>3. StoreOK(store')
    BY <1>1, <1>a, <2>1, <2>2, NewTodayIsOK
  <2>4. DocumentOK(saved')
    BY <1>3, <2>3, PersistedIsOK DEF FinishDay
  <2> QED
    BY <1>1, <1>3, <2>3, <2>4, CellsAreCounted DEF FinishDay
<1>4. CASE ChangeTimezone
  <2>1. FarFromTheFirst(today', daysPassed')
    BY <1>1, <1>4 DEF ChangeTimezone
  <2>2. dayKey' \in DayKeys \union {NoDay}
    <3>1. KeyOf(today') \in DayKeys
      BY <2>1, DatesStayFar
    <3> QED
      BY <1>4, <3>1 DEF ChangeTimezone
  <2>3. StoreOK(store')
    BY <1>4, <1>a, <2>2, NewTodayIsOK DEF ChangeTimezone
  <2>4. DocumentOK(saved')
    BY <1>4, <2>3, PersistedIsOK DEF ChangeTimezone
  <2> QED
    BY <1>4, <2>1, <2>2, <2>3, <2>4, CellsAreCounted DEF ChangeTimezone
<1>5. CASE Midnight
  BY <1>1, <1>5 DEF Midnight
<1>6. CASE SetClock
  BY <1>6 DEF SetClock
<1>7. CASE Download
  <2> DEFINE document == DocumentOf(store, heat)
  <2>1. backup' = document
    BY <1>7 DEF Download
  <2>2. DocumentOK(document)
    BY DocumentOfIsOK
  <2> HIDE DEF document
  <2> QED
    BY <1>7, <2>1, <2>2 DEF Download
<1>8. CASE Restore
  <2>1. StoreOK(store') /\ CountsCells(heat')
    BY <1>0, <1>8, LoadedIsOK DEF Restore
  <2> QED
    BY <1>8, <2>1 DEF Restore
<1>9. CASE ResetStats
  <2>1. store' = [today |-> NoDocument, daily |-> << >>, heatDaily |-> << >>]
    BY <1>9 DEF ResetStats, EmptyStore
  <2>2. StoreOK(store')
    BY <2>1, EmptyIsPaired DEF StoreOK, TodayOK
  <2> QED
    BY <1>9, <2>2, CellsAreCounted DEF ResetStats, DocumentOK
<1>10. CASE RestartStats
  <2>1. StoreOK(store') /\ CountsCells(heat')
    BY <1>0, <1>10, LoadedIsOK DEF RestartStats
  <2> QED
    BY <1>10, <2>1 DEF RestartStats
<1>11. CASE UNCHANGED statsDayVars
  BY <1>11 DEF statsDayVars
<1> QED
  BY <1>2, <1>3, <1>4, <1>5, <1>6, <1>7, <1>8, <1>9, <1>10, <1>11 DEF StatsDayNext

LEMMA DaysInvHolds == StatsDaySpec => []DaysInv
BY DaysInvInit, DaysInvNext, PTL DEF StatsDaySpec

-----------------------------------------------------------------------------
(* What the history and its summaries promise.                             *)

\* For any dates, any number of entries that are kept and any sequence of day
\* changes, changes of the timezone, restarts, resets, failed writes and
\* backups: no day is in the history twice, the newest come first, and the
\* heatmaps are those of the same days.
THEOREM DaysAreCountedOnce == StatsDaySpec => []EveryDayOnce
<1>1. DaysInv => EveryDayOnce
  <2> SUFFICES ASSUME DaysInv PROVE EveryDayOnce
    OBVIOUS
  <2> DEFINE daily == store.daily
             maps == store.heatDaily
  <2>1. PICK n : PairedDays(n, daily, maps)
    BY DEF DaysInv, StoreOK, Paired
  <2> HIDE DEF daily, maps
  <2>2. DOMAIN daily = 1..n /\ DOMAIN maps = 1..n
    BY <2>1 DEF PairedDays
  <2>3. DaysOf(daily) = DaysOf(maps)
    BY <2>1, <2>2 DEF PairedDays, DaysOf
  <2>4. \A i, j \in DOMAIN daily : i < j => daily[i].d > daily[j].d
    BY <2>1, <2>2 DEF PairedDays
  <2> QED
    BY <2>3, <2>4 DEF EveryDayOnce, daily, maps
<1> QED
  BY <1>1, DaysInvHolds, PTL

\* Wherever the statistics come from, the summary of any number of days adds up
\* the entries of the days that lie that few days back in the calendar and no
\* others: the day numbers of the code and the Gregorian calendar agree over the
\* ends of months and years, in leap years too.
THEOREM SummariesFollowTheCalendar == StatsDaySpec => []SummaryIsTheCalendarWindow
<1>1. DaysInv => SummaryIsTheCalendarWindow
  <2> SUFFICES ASSUME DaysInv, store.today # NoDocument, store.today.d # NoDay,
                      NEW days \in Windows
               PROVE  LET window == CalendarWindow(DateOf(store.today.d), days) \ {store.today.d}
                      IN  Summary(store, days) =
                             store.today.n + TotalOf(store.daily,
                                {i \in DOMAIN store.daily : store.daily[i].d \in window})
    BY DEF SummaryIsTheCalendarWindow
  <2> DEFINE key == store.today.d
             date == DateOf(key)
             last == DaySerial(key)
             InWindow(e) == /\ e.d # key
                            /\ DaySerial(e.d) >= last - days + 1 /\ DaySerial(e.d) <= last
             window == CalendarWindow(date, days) \ {key}
             counted == {i \in DOMAIN store.daily : InWindow(store.daily[i])}
             listed == {i \in DOMAIN store.daily : store.daily[i].d \in window}
  <2>1. key \in DayKeys
    BY DEF DaysInv, StoreOK, TodayOK
  <2>2. SummaryDate(date) /\ KeyOf(date) = key
    BY <2>1, KeysAreOfDates
  <2>3. IsDate(date) /\ days \in Nat \ {0} /\ date[1] > days
    BY <2>2, StatsDayAssumption DEF SummaryDate
  <2>4. PICK n : PairedDays(n, store.daily, store.heatDaily)
    BY DEF DaysInv, StoreOK, Paired
  <2>5. \A i \in DOMAIN store.daily : store.daily[i].d \in DayKeys
    <3>1. DOMAIN store.daily = 1..n
      BY <2>4 DEF PairedDays
    <3> QED
      BY <2>4, <3>1 DEF PairedDays
  <2>6. ASSUME NEW i \in DOMAIN store.daily
        PROVE  i \in counted <=> i \in listed
    <3> DEFINE k == store.daily[i].d
               e == DateOf(k)
    <3>1. SummaryDate(e) /\ KeyOf(e) = k
      BY <2>5, KeysAreOfDates
    <3>2. IsDate(e)
      BY <3>1 DEF SummaryDate
    <3> HIDE DEF k, e, key, date
    <3>3. k \in CalendarWindow(date, days)
            <=> DaySerial(k) >= last - days + 1 /\ DaySerial(k) <= last
      BY <2>2, <2>3, <3>1, <3>2, WindowHasTheNumbers
    <3> QED
      BY <3>3 DEF k, key
  <2>7. counted = listed
    <3> HIDE DEF InWindow, window
    <3> QED
      BY <2>6
  <2>8. last # 0
    <3>1. DaySerial(KeyOf(date)) > 0 /\ DaySerial(KeyOf(date)) \in Int
      <4>1. date[3] \in Int
        BY <2>3, DateParts
      <4> HIDE DEF date
      <4> QED
        BY <2>3, <4>1, SerialIsPositive
    <3> HIDE DEF date
    <3> QED
      BY <2>2, <3>1
  <2>9. Summary(store, days) = store.today.n + TotalOf(store.daily, counted)
    BY <2>8 DEF Summary
  <2> HIDE DEF counted, listed
  <2>10. Summary(store, days) = store.today.n + TotalOf(store.daily, listed)
    BY <2>7, <2>9
  <2> QED
    BY <2>10 DEF listed
<1> QED
  BY <1>1, DaysInvHolds, PTL

\* A day that ends while the device observes is in the history with what was
\* counted, and its heatmap reads back as it was, unless as many newer days are
\* there as the history keeps; at whatever lengths, cells and counts.
THEOREM EndedDaysAreKept == StatsDaySpec => FinishedDayIsKept
<1> DEFINE Ends == dayKey # NoDay /\ dayKey' \notin {dayKey, NoDay} /\ daysPassed' = daysPassed
           Kept == \/ \E i \in DOMAIN store'.daily :
                         /\ store'.daily[i] = Day(dayKey, hits)
                         /\ store'.heatDaily[i].d = dayKey /\ Decode(store'.heatDaily[i].cells) = heat
                   \/ Cardinality({i \in DOMAIN store'.daily : store'.daily[i].d > dayKey}) = MaxDaily
<1>1. ASSUME DaysInv, StatsDayNext, Ends
      PROVE  FinishDay
  <2>1. ASSUME NEW cells \in SUBSET (1..LastCell), Watch(cells)
        PROVE  FALSE
    BY <1>1, <2>1 DEF Watch
  <2>2. ~ ChangeTimezone
    <3>1. daysPassed \in Nat
      BY <1>1 DEF DaysInv, FarFromTheFirst
    <3>2. daysPassed + 1 # daysPassed
      BY <3>1
    <3> QED
      BY <1>1, <3>2 DEF ChangeTimezone
  <2>3. ~ Midnight /\ ~ SetClock /\ ~ Download /\ ~ Restore /\ ~ ResetStats /\ ~ RestartStats
    BY <1>1 DEF Midnight, SetClock, Download, Restore, ResetStats, RestartStats
  <2> QED
    BY <1>1, <2>1, <2>2, <2>3 DEF StatsDayNext
<1>2. ASSUME DaysInv, FinishDay
      PROVE  Kept
  <2> DEFINE e == Day(dayKey, hits)
             h == [d |-> dayKey, cells |-> Encode(heat)]
             daily == Added(store.daily, e)
             maps == Added(store.heatDaily, h)
             finished == Finished(store, hits, heat)
  <2>1. e.d = dayKey /\ h.d = dayKey /\ h.cells = Encode(heat)
    BY DEF Day
  <2>2. finished = [store EXCEPT !.daily = daily, !.heatDaily = maps]
    BY DEF Finished
  <2>3. store' = [finished EXCEPT !.today = Day(KeyOf(today), 0)]
    BY <1>2 DEF FinishDay
  <2> HIDE DEF e, h, daily, maps, finished
  <2>4. store'.daily = daily /\ store'.heatDaily = maps
    <3>1. store = [today |-> store.today, daily |-> store.daily, heatDaily |-> store.heatDaily]
      BY <1>2 DEF DaysInv, StoreOK
    <3>2. finished = [today |-> store.today, daily |-> daily, heatDaily |-> maps]
      BY <2>2, <3>1
    <3> QED
      BY <2>3, <3>2
  <2>5. dayKey \in DayKeys /\ MaxDaily \in Nat /\ Paired(store.daily, store.heatDaily)
    BY <1>2, StatsDayAssumption DEF DaysInv, StoreOK, FinishDay
  <2>6. \/ \E i \in DOMAIN daily : daily[i] = e /\ maps[i] = h
        \/ Cardinality({i \in DOMAIN daily : daily[i].d > e.d}) = MaxDaily
    BY <2>1, <2>5, AddedKeeps DEF daily, maps
  <2>7. Decode(Encode(heat)) = heat
    <3>1. LastCell \in Nat
      BY StatsDayAssumption DEF LastCell
    <3> QED
      BY <1>2, <3>1, HeatmapIsReadBack DEF DaysInv, CountsCells
  <2>8. CASE \E i \in DOMAIN daily : daily[i] = e /\ maps[i] = h
    <3>1. PICK i \in DOMAIN daily : daily[i] = e /\ maps[i] = h
      BY <2>8
    <3>2. i \in DOMAIN store'.daily /\ store'.daily[i] = Day(dayKey, hits)
          /\ store'.heatDaily[i].d = dayKey /\ Decode(store'.heatDaily[i].cells) = heat
      BY <2>1, <2>4, <2>7, <3>1 DEF e
    <3> QED
      BY <3>2
  <2>9. CASE Cardinality({i \in DOMAIN daily : daily[i].d > e.d}) = MaxDaily
    BY <2>1, <2>4, <2>9
  <2> QED
    BY <2>6, <2>8, <2>9
<1>3. DaysInv /\ [StatsDayNext]_statsDayVars => [Ends => Kept]_statsDayVars
  <2> HIDE DEF Ends, Kept
  <2> QED
    BY <1>1, <1>2
<1> QED
  BY <1>3, DaysInvHolds, PTL DEF StatsDaySpec, FinishedDayIsKept
=============================================================================
