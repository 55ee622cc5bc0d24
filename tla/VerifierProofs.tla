---------------------------- MODULE VerifierProofs ----------------------------
(***************************************************************************)
(* What is proved of the verifier for every program, configuration and     *)
(* day: what a repository brings along never weakens the gate, a           *)
(* suppression ends with its day, the solver reaches the least fixed       *)
(* point, a search finds a path when there is one, and the rules and the   *)
(* policy see every taint.  The calendar, which the second theorem rests   *)
(* on, comes first; the solver's theorems hold over any graph, any         *)
(* attributes and any join semilattice.                                    *)
(***************************************************************************)
EXTENDS Verifier, GraphProofs

-----------------------------------------------------------------------------
(* The leap days of the years up to a year, and the days before a year, in *)
(* closed form. They are those the years add one by one.                   *)
Leaps(year) == year \div 4 - year \div 100 + year \div 400

(* A year adds one leap day when it is a leap year.                        *)
LEMMA LeapsStep ==
   ASSUME NEW y \in Nat, y >= 1
   PROVE Leaps(y) = Leaps(y-1) + (IF IsLeap(y) THEN 1 ELSE 0)
<1>1. y \div 4 = (y-1) \div 4 + (IF y % 4 = 0 THEN 1 ELSE 0)
  OBVIOUS
<1>2. y \div 100 = (y-1) \div 100 + (IF y % 100 = 0 THEN 1 ELSE 0)
  OBVIOUS
<1>3. y \div 400 = (y-1) \div 400 + (IF y % 400 = 0 THEN 1 ELSE 0)
  OBVIOUS
<1>4. y % 400 = 0 => y % 100 = 0
  OBVIOUS
<1>5. y % 100 = 0 => y % 4 = 0
  OBVIOUS
<1> QED BY <1>1, <1>2, <1>3, <1>4, <1>5 DEF Leaps, IsLeap

YearStart(y) == IF y <= 1970 THEN 0 ELSE 365 * (y - 1970) + Leaps(y-1) - 477

(* A year starts as many days after the one before it as that one has.     *)
LEMMA YearStartStep ==
   ASSUME NEW y \in Nat, y > 1970
   PROVE YearStart(y) = YearStart(y-1) + (IF IsLeap(y-1) THEN 366 ELSE 365)
<1>1. Leaps(y-1) = Leaps(y-2) + (IF IsLeap(y-1) THEN 1 ELSE 0)
  <2> DEFINE z == y-1
  <2>1. z \in Nat /\ z >= 1 /\ z - 1 = y - 2
    OBVIOUS
  <2> HIDE DEF z
  <2>2. Leaps(z) = Leaps(z-1) + (IF IsLeap(z) THEN 1 ELSE 0)
    BY <2>1, LeapsStep
  <2> QED BY <2>1, <2>2 DEF z
<1>2. Leaps(1969) = 477
  BY DEF Leaps
<1>3. Leaps(y-1) \in Int /\ Leaps(y-2) \in Int
  BY DEF Leaps
<1>4. y - 1 = 1970 => y - 2 = 1969 /\ ~IsLeap(y-1)
  BY DEF IsLeap
<1>5. CASE y - 1 = 1970
  BY <1>1, <1>2, <1>3, <1>4, <1>5 DEF YearStart
<1>6. CASE y - 1 > 1970
  <2>1. (y-1)-1 = y - 2
    OBVIOUS
  <2>2. YearStart(y-1) = 365 * ((y-1) - 1970) + Leaps(y-2) - 477
    BY <1>6, <2>1 DEF YearStart
  <2>3. YearStart(y) = 365 * (y - 1970) + Leaps(y-1) - 477
    BY DEF YearStart
  <2> QED BY <2>2, <2>3, <1>1, <1>3
<1> QED BY <1>5, <1>6

(* The recursive count of the days before a year is the closed form: the   *)
(* closed form is a solution of the recursion, and by induction the only   *)
(* one.                                                                    *)
LEMMA DaysBeforeIs == \A y \in Nat : DaysBefore[y] = YearStart(y)
<1> DEFINE f == [year \in Nat |-> YearStart(year)]
           Step(g) == [year \in Nat |-> IF year <= 1970 THEN 0
                   ELSE g[year - 1] + (IF IsLeap(year - 1) THEN 366 ELSE 365)]
<1>1. f = Step(f)
  <2>1. ASSUME NEW y \in Nat PROVE f[y] = Step(f)[y]
    <3>1. CASE y <= 1970
      BY <3>1 DEF YearStart
    <3>2. CASE y > 1970
      <4>1. y - 1 \in Nat
        BY <3>2
      <4> QED BY <3>2, <4>1, YearStartStep
    <3> QED BY <3>1, <3>2
  <2> QED BY <2>1
<1>2. DaysBefore = Step(DaysBefore)
  <2>1. DaysBefore = CHOOSE g : g = Step(g)
    BY DEF DaysBefore
  <2> HIDE DEF f, Step
  <2> QED BY <1>1, <2>1
<1> DEFINE S == {y \in Nat : DaysBefore[y] = YearStart(y)}
<1>3. 0 \in S
  BY <1>2 DEF YearStart
<1>4. ASSUME NEW n \in Nat, n \in S PROVE n + 1 \in S
  <2>1. DaysBefore[n+1] = IF n + 1 <= 1970 THEN 0
                         ELSE DaysBefore[n] + (IF IsLeap(n) THEN 366 ELSE 365)
    <3>1. (n+1) - 1 = n /\ n + 1 \in Nat
      OBVIOUS
    <3> QED BY <1>2, <3>1
  <2>2. n + 1 > 1970 => YearStart(n+1) = YearStart(n) + (IF IsLeap(n) THEN 366 ELSE 365)
    <3>1. (n+1) - 1 = n /\ n + 1 \in Nat
      OBVIOUS
    <3> QED BY <3>1, YearStartStep
  <2>3. n + 1 <= 1970 => YearStart(n + 1) = 0
    BY DEF YearStart
  <2> QED BY <2>1, <2>2, <2>3, <1>4
<1> HIDE DEF S
<1>5. Nat \subseteq S
  BY <1>3, <1>4, Upwards
<1> QED BY <1>5 DEF S

(* The days of a year before one of its months.                            *)
MonthDays(y, m) ==
    LET leap == IF IsLeap(y) THEN 1 ELSE 0
    IN  IF m <= 1 THEN 0 ELSE
        CASE m = 2 -> 31 [] m = 3 -> 59 + leap [] m = 4 -> 90 + leap [] m = 5 -> 120 + leap
          [] m = 6 -> 151 + leap [] m = 7 -> 181 + leap [] m = 8 -> 212 + leap
          [] m = 9 -> 243 + leap [] m = 10 -> 273 + leap [] m = 11 -> 304 + leap
          [] m = 12 -> 334 + leap [] OTHER -> 365 + leap

(* A month starts as many days after the one before it as that one has.    *)
LEMMA MonthStep ==
    ASSUME NEW y \in Nat, NEW m \in Nat, m > 1
    PROVE  MonthDays(y, m) = MonthDays(y, m - 1) + DaysIn(y, m - 1)
<1>1. CASE m \in {2,3,4,5,6,7,8,9,10,11,12,13}
  BY <1>1 DEF MonthDays, DaysIn
<1>2. CASE m > 13
  BY <1>2 DEF MonthDays, DaysIn
<1> QED BY <1>1, <1>2

(* A date is as many days after the first of January 1970 as the closed    *)
(* forms say.                                                              *)
LEMMA DayIs ==
    ASSUME NEW date, date[1] \in Nat, date[2] \in Nat, date[3] \in Nat
    PROVE  DayOf(date) = YearStart(date[1]) + MonthDays(date[1], date[2]) + date[3] - 1
<1> DEFINE y == date[1]
           f == [month \in Nat |-> MonthDays(y, month)]
           Step(g) == [month \in Nat |-> IF month <= 1 THEN 0
                                         ELSE g[month - 1] + DaysIn(y, month - 1)]
           before == CHOOSE g : g = Step(g)
<1>1. f = Step(f)
  <2>1. ASSUME NEW m \in Nat PROVE f[m] = Step(f)[m]
    <3>1. CASE m <= 1
      BY <3>1 DEF MonthDays
    <3>2. CASE m > 1
      <4>1. m - 1 \in Nat
        BY <3>2
      <4> QED BY <3>2, <4>1, MonthStep
    <3> QED BY <3>1, <3>2
  <2> QED BY <2>1
<1>2. before = Step(before)
  <2> HIDE DEF f, Step
  <2> QED BY <1>1
<1>3. DayOf(date) = DaysBefore[y] + before[date[2]] + date[3] - 1
  BY DEF DayOf
<1> DEFINE S == {m \in Nat : before[m] = MonthDays(y, m)}
<1> HIDE DEF before
<1>4. 0 \in S
  BY <1>2 DEF MonthDays
<1>5. ASSUME NEW n \in Nat, n \in S PROVE n + 1 \in S
  <2>0. (n+1) - 1 = n /\ n + 1 \in Nat
    OBVIOUS
  <2>1. before[n+1] = IF n + 1 <= 1 THEN 0 ELSE before[n] + DaysIn(y, n)
    BY <1>2, <2>0
  <2>2. n + 1 > 1 => MonthDays(y, n+1) = MonthDays(y, n) + DaysIn(y, n)
    BY <2>0, MonthStep
  <2>3. n + 1 <= 1 => MonthDays(y, n + 1) = 0
    BY DEF MonthDays
  <2> QED BY <2>1, <2>2, <2>3, <1>5
<1> HIDE DEF S
<1>6. Nat \subseteq S
  BY <1>4, <1>5, Upwards
<1>7. before[date[2]] = MonthDays(y, date[2])
  BY <1>6 DEF S
<1>8. DaysBefore[y] = YearStart(y)
  BY DaysBeforeIs
<1> QED BY <1>3, <1>7, <1>8

(* A year ends before any later one starts.                                *)
LEMMA YearLength ==
    ASSUME NEW a \in Nat, NEW b \in Nat, 1970 <= a, a < b
    PROVE  YearStart(a) + (IF IsLeap(a) THEN 366 ELSE 365) <= YearStart(b)
<1>1. YearStart(a + 1) = YearStart(a) + (IF IsLeap(a) THEN 366 ELSE 365)
  <2>1. (a+1) - 1 = a /\ a + 1 \in Nat
    OBVIOUS
  <2> QED BY <2>1, YearStartStep
<1>2. YearStart(a + 1) <= YearStart(b)
  <2>1. a \div 4 <= (b - 1) \div 4 /\ a \div 400 <= (b-1) \div 400
    OBVIOUS
  <2>2. (b - 1) \div 100 - a \div 100 <= b - 1 - a
    OBVIOUS
  <2>3. (a + 1) - 1 = a
    OBVIOUS
  <2>4. YearStart(a+1) = 365 * ((a + 1) - 1970) + Leaps(a) - 477
    BY <2>3 DEF YearStart
  <2>5. YearStart(b) = 365 * (b - 1970) + Leaps(b-1) - 477
    BY DEF YearStart
  <2>6. Leaps(a) <= Leaps(b-1) + (b - 1 - a)
    <3> DEFINE a4 == a \div 4
               b4 == (b-1) \div 4
               a100 == a \div 100
               b100 == (b-1) \div 100
               a400 == a \div 400
               b400 == (b-1) \div 400
    <3>1. Leaps(a) = a4 - a100 + a400 /\ Leaps(b-1) = b4 - b100 + b400
      BY DEF Leaps
    <3>2. a4 <= b4 /\ a400 <= b400 /\ b100 - a100 <= b - 1 - a
      BY <2>1, <2>2
    <3>3. a4 \in Int /\ b4 \in Int /\ a100 \in Int /\ b100 \in Int /\ a400 \in Int /\ b400 \in Int
      OBVIOUS
    <3> HIDE DEF a4, b4, a100, b100, a400, b400
    <3> QED BY <3>1, <3>2, <3>3
  <2>7. Leaps(a) \in Int /\ Leaps(b-1) \in Int
    BY DEF Leaps
  <2> QED BY <2>4, <2>5, <2>6, <2>7
<1>3. YearStart(a) \in Int /\ YearStart(b) \in Int /\ YearStart(a+1) \in Int
  BY DEF YearStart, Leaps
<1> QED BY <1>1, <1>2, <1>3

(* A month ends before any later one of its year starts.                   *)
LEMMA MonthLength ==
    ASSUME NEW y \in Nat, NEW m \in 1..12, NEW n \in Nat, m < n, n <= 13
    PROVE  MonthDays(y, m) + DaysIn(y, m) <= MonthDays(y, n)
BY DEF MonthDays, DaysIn

Dates == Nat \X Nat \X Nat

(* What a date that valid_date lets pass is like, and which day it is.     *)
LEMMA ValidMonth ==
    ASSUME NEW date \in Dates, ValidDate(date)
    PROVE  /\ date[1] \in Nat /\ date[1] >= 1970 /\ date[2] \in 1..12 /\ date[3] \in Nat
           /\ 1 <= date[3] /\ date[3] <= DaysIn(date[1], date[2])
           /\ DayOf(date) = YearStart(date[1]) + MonthDays(date[1], date[2]) + date[3] - 1
<1>1. date[1] \in Nat /\ date[2] \in Nat /\ date[3] \in Nat
  BY DEF Dates
<1>2. DaysIn(date[1], date[2]) \in Nat
  BY <1>1 DEF DaysIn
<1>3. date[2] \in 1..12
  BY <1>1 DEF ValidDate, DaysIn
<1> QED BY <1>1, <1>2, <1>3, DayIs DEF ValidDate

(* The closed forms are numbers, and no month reaches past its year.       *)
LEMMA Ranges ==
    ASSUME NEW y \in Nat, NEW m \in 1..12
    PROVE  /\ YearStart(y) \in Int /\ MonthDays(y, m) \in Nat /\ DaysIn(y, m) \in Nat
           /\ MonthDays(y, m) + DaysIn(y, m) <= (IF IsLeap(y) THEN 366 ELSE 365)
<1>1. MonthDays(y, m) \in Nat /\ DaysIn(y, m) \in Nat
      /\ MonthDays(y, m) + DaysIn(y, m) <= (IF IsLeap(y) THEN 366 ELSE 365)
  BY DEF MonthDays, DaysIn
<1> QED BY <1>1 DEF YearStart, Leaps

(* A valid date that comes before another is fewer days after 1970.        *)
LEMMA BeforeIsFewer ==
    ASSUME NEW a \in Dates, NEW b \in Dates, ValidDate(a), ValidDate(b), Before(a, b)
    PROVE  DayOf(a) < DayOf(b)
<1> DEFINE ya == a[1] yb == b[1] ma == a[2] mb == b[2] da == a[3] db == b[3]
<1>1. /\ ya \in Nat /\ ya >= 1970 /\ ma \in 1..12 /\ da \in Nat /\ 1 <= da /\ da <= DaysIn(ya, ma)
      /\ DayOf(a) = YearStart(ya) + MonthDays(ya, ma) + da - 1
  BY ValidMonth
<1>2. /\ yb \in Nat /\ yb >= 1970 /\ mb \in 1..12 /\ db \in Nat /\ 1 <= db /\ db <= DaysIn(yb, mb)
      /\ DayOf(b) = YearStart(yb) + MonthDays(yb, mb) + db - 1
  BY ValidMonth
<1>3. ya < yb \/ (ya = yb /\ ma < mb) \/ (ya = yb /\ ma = mb /\ da < db)
  BY DEF Before
<1> HIDE DEF ya, yb, ma, mb, da, db
<1>4. /\ YearStart(ya) \in Int /\ MonthDays(ya, ma) \in Nat /\ DaysIn(ya, ma) \in Nat
      /\ MonthDays(ya, ma) + DaysIn(ya, ma) <= (IF IsLeap(ya) THEN 366 ELSE 365)
      /\ YearStart(yb) \in Int /\ MonthDays(yb, mb) \in Nat
  <2>1. ya \in Nat /\ ma \in 1..12
    BY <1>1
  <2>2. yb \in Nat /\ mb \in 1..12
    BY <1>2
  <2> QED BY <2>1, <2>2, Ranges
<1>5. CASE ya < yb
  <2>1. YearStart(ya) + (IF IsLeap(ya) THEN 366 ELSE 365) <= YearStart(yb)
    BY <1>1, <1>2, <1>5, YearLength
  <2> QED BY <1>1, <1>2, <1>4, <2>1
<1>6. CASE ya = yb /\ ma < mb
  <2>1. MonthDays(ya, ma) + DaysIn(ya, ma) <= MonthDays(ya, mb)
    BY <1>1, <1>2, <1>6, MonthLength
  <2> QED BY <1>1, <1>2, <1>4, <1>6, <2>1
<1>7. CASE ya = yb /\ ma = mb /\ da < db
  BY <1>1, <1>2, <1>4, <1>7
<1> QED BY <1>3, <1>5, <1>6, <1>7

(* The day of a valid date is a number.                                    *)
LEMMA DayIsInt ==
    ASSUME NEW c \in Dates, ValidDate(c)
    PROVE  DayOf(c) \in Int
<1>1. /\ c[1] \in Nat /\ c[2] \in 1..12 /\ c[3] \in Nat
      /\ DayOf(c) = YearStart(c[1]) + MonthDays(c[1], c[2]) + c[3] - 1
  BY ValidMonth
<1>2. YearStart(c[1]) \in Int /\ MonthDays(c[1], c[2]) \in Nat
  BY <1>1, Ranges
<1> QED BY <1>1, <1>2

(* The order in which the code compares dates, year by year, month by      *)
(* month and day by day as their texts compare, is that of the days they   *)
(* count.                                                                  *)
LEMMA BeforeCountsDays ==
    ASSUME NEW a \in Dates, NEW b \in Dates, ValidDate(a), ValidDate(b)
    PROVE  Before(a, b) <=> DayOf(a) < DayOf(b)
<1>1. CASE Before(a, b)
  BY <1>1, BeforeIsFewer
<1>2. CASE ~Before(a, b)
  <2>1. a = b \/ Before(b, a)
    <3>1. /\ a[1] \in Nat /\ a[2] \in Nat /\ a[3] \in Nat
          /\ b[1] \in Nat /\ b[2] \in Nat /\ b[3] \in Nat
      BY DEF Dates
    <3>2. (a[1] = b[1] /\ a[2] = b[2] /\ a[3] = b[3]) => a = b
      BY DEF Dates
    <3> QED BY <1>2, <3>1, <3>2 DEF Before
  <2>2. DayOf(a) \in Int /\ DayOf(b) \in Int
    BY DayIsInt
  <2>3. CASE a = b
    BY <1>2, <2>2, <2>3
  <2>4. CASE Before(b, a)
    <3>1. DayOf(b) < DayOf(a)
      BY <2>4, BeforeIsFewer
    <3> QED BY <1>2, <2>2, <3>1
  <2> QED BY <2>1, <2>3, <2>4
<1> QED BY <1>1, <1>2

(* A year that begins in March has 366 days only when the February it ends *)
(* in is long.                                                             *)
EndsInFebruary(y, k) == k = 365 => IsLeap(y + 1)

(* What utc_date_from_days computes on its way, with a name for each step. *)
Epoch == 719468
InEra(e) == e \in Nat /\ e <= 146096
EraDays(era) == 146097 * era
EraOf(t) == (t + 719468) \div 146097
DayOfEra(t) == t + 719468 - EraOf(t) * 146097
YearOfEra(e) == (e - e \div 1460 + e \div 36524 - e \div 146096) \div 365
DayOfYear(e) == e - (365 * YearOfEra(e) + YearOfEra(e) \div 4 - YearOfEra(e) \div 100)
MonthOfDay(k) == (5 * k + 2) \div 153

(* The first step of utc_date_from_days: a day is one of the 146097 of its *)
(* era.                                                                    *)
LEMMA EraOfDay ==
    ASSUME NEW t \in Nat
    PROVE  /\ EraOf(t) \in Nat /\ InEra(DayOfEra(t)) /\ EraDays(EraOf(t)) \in Nat
           /\ t + Epoch = EraDays(EraOf(t)) + DayOfEra(t)
<1>1. EraOf(t) \in Nat
  BY SMTT(30) DEF EraOf
<1>2. InEra(DayOfEra(t))
  BY SMTT(30) DEF EraOf, DayOfEra, InEra
<1>3. DayOfEra(t) = t + 719468 - EraOf(t) * 146097
  BY DEF DayOfEra
<1> QED BY <1>1, <1>2, <1>3, SMTT(30) DEF Epoch, EraDays

(* The second step: a day of an era is one of at most 366 of its year in   *)
(* that era, a year that begins in March.                                  *)
LEMMA YearInEra ==
    ASSUME NEW e, InEra(e)
    PROVE  /\ YearOfEra(e) \in Nat /\ YearOfEra(e) <= 399
           /\ DayOfYear(e) \in Nat /\ DayOfYear(e) <= 365
           /\ e = 365 * YearOfEra(e) + YearOfEra(e) \div 4 - YearOfEra(e) \div 100 + DayOfYear(e)
           /\ EndsInFebruary(YearOfEra(e), DayOfYear(e))
<1> DEFINE q == YearOfEra(e)
           k == DayOfYear(e)
<1>0. e \in Nat /\ e <= 146096
  BY DEF InEra
<1>1. q = (e - e \div 1460 + e \div 36524 - e \div 146096) \div 365
  BY DEF YearOfEra
<1>2. k = e - (365 * q + q \div 4 - q \div 100)
  BY DEF DayOfYear
<1> HIDE DEF q, k
<1>3. q \in Nat /\ q <= 399
  BY <1>0, <1>1, SMTT(60)
<1>4. k \in Int /\ e = 365 * q + q \div 4 - q \div 100 + k
  BY <1>0, <1>2, <1>3, SMTT(30)
<1>5. k \in Nat /\ k <= 365
  <2>1. 365 * q + q \div 4 - q \div 100 <= e /\ e <= 365 * q + q \div 4 - q \div 100 + 365
    BY <1>0, <1>1, <1>3, SMTT(60)
  <2> QED BY <1>0, <1>3, <1>4, <2>1, SMTT(30)
<1>6. k = 365 => (q + 1) % 4 = 0 /\ ((q + 1) % 100 # 0 \/ (q + 1) % 400 = 0)
  BY <1>0, <1>1, <1>2, <1>3, SMTT(60)
<1>7. EndsInFebruary(q, k)
  <2> SUFFICES ASSUME k = 365 PROVE IsLeap(q + 1)
    BY DEF EndsInFebruary
  <2> QED BY <1>6, SMTT(30) DEF IsLeap
<1> QED BY <1>3, <1>4, <1>5, <1>7 DEF q, k

(* Eras do not differ in their leap years, and each has 97.                *)
LEMMA LeapInEra ==
    ASSUME NEW era \in Nat, NEW q \in Nat
    PROVE  /\ q <= 399 => Leaps(q + era * 400) = 97 * era + q \div 4 - q \div 100
           /\ IsLeap(q + era * 400) <=> IsLeap(q)
<1>1. (q + era * 400) \div 4 = q \div 4 + 100 * era
  OBVIOUS
<1>2. (q + era * 400) \div 100 = q \div 100 + 4 * era
  OBVIOUS
<1>3. (q + era * 400) \div 400 = q \div 400 + era
  OBVIOUS
<1>4. q <= 399 => q \div 400 = 0
  OBVIOUS
<1>5. /\ (q + era * 400) % 4 = q % 4
      /\ (q + era * 400) % 100 = q % 100
      /\ (q + era * 400) % 400 = q % 400
  OBVIOUS
<1> QED BY <1>1, <1>2, <1>3, <1>4, <1>5 DEF Leaps, IsLeap

(* The days of a year that begins in March before one of its months.       *)
Offset(mp) ==
  CASE mp = 0 -> 0 [] mp = 1 -> 31 [] mp = 2 -> 61 [] mp = 3 -> 92 [] mp = 4 -> 122 [] mp = 5 -> 153
    [] mp = 6 -> 184 [] mp = 7 -> 214 [] mp = 8 -> 245 [] mp = 9 -> 275 [] mp = 10 -> 306
    [] mp = 11 -> 337
    [] OTHER -> 366

(* The third step: a day of such a year is one of the month that the code  *)
(* computes from it.                                                       *)
LEMMA MonthOfYear ==
    ASSUME NEW k \in Nat, k <= 365, NEW mp, mp = MonthOfDay(k)
    PROVE  /\ mp \in Nat /\ mp <= 11
           /\ (153 * mp + 2) \div 5 = Offset(mp)
           /\ Offset(mp) <= k /\ k < Offset(mp + 1)
<1>0. mp = (5 * k + 2) \div 153
  BY DEF MonthOfDay
<1>1. mp \in {0, 1, 2, 3, 4, 5, 6, 7, 8, 9, 10, 11}
  BY <1>0
<1>2. 153 * mp <= 5 * k + 2 /\ 5 * k + 2 < 153 * mp + 153
  BY <1>0
<1>3. (153 * mp + 2) \div 5 = Offset(mp)
  <2>1. ASSUME NEW m \in {0, 1, 2, 3, 4, 5, 6, 7, 8, 9, 10, 11}
        PROVE  (153 * m + 2) \div 5 = Offset(m)
    BY DEF Offset
  <2> QED BY <1>1, <2>1
<1>4. Offset(mp) <= k
  <2>1. mp \in Int
    BY <1>1
  <2>2. (153 * mp + 2) \div 5 <= k
    BY <1>2, <2>1
  <2> QED BY <2>2, <1>3
<1>5. k < Offset(mp + 1)
  <2>1. CASE mp = 11
    <3>1. mp + 1 = 12
      BY <2>1
    <3>2. Offset(12) = 366
      BY DEF Offset
    <3> QED BY <3>1, <3>2
  <2>2. CASE mp # 11
    <3>1. ASSUME NEW m \in {0, 1, 2, 3, 4, 5, 6, 7, 8, 9, 10}
          PROVE  Offset(m + 1) = (153 * (m + 1) + 2) \div 5
      BY DEF Offset
    <3>2. mp \in Int /\ Offset(mp + 1) = (153 * (mp + 1) + 2) \div 5
      BY <1>1, <2>2, <3>1
    <3>3. k < (153 * (mp + 1) + 2) \div 5
      BY <1>2, <3>2
    <3> QED BY <3>2, <3>3
  <2> QED BY <2>1, <2>2
<1>6. mp \in Nat /\ mp <= 11
  BY <1>1
<1> QED BY <1>3, <1>4, <1>5, <1>6

(* The closed form holds of 1970 too.                                      *)
LEMMA YearStartIs ==
    ASSUME NEW y \in Nat, y >= 1970
    PROVE  YearStart(y) = 365 * (y - 1970) + Leaps(y - 1) - 477
<1>1. Leaps(1969) = 477
  BY DEF Leaps
<1> QED BY <1>1 DEF YearStart

(* The months from March to December, counted from March and from January. *)
LEMMA MonthsFromMarch ==
    ASSUME NEW y \in Nat, NEW mp \in Nat, mp <= 9
    PROVE  /\ MonthDays(y, mp + 3) = 59 + (IF IsLeap(y) THEN 1 ELSE 0) + Offset(mp)
           /\ DaysIn(y, mp + 3) = Offset(mp + 1) - Offset(mp)
BY DEF MonthDays, DaysIn, Offset

(* Leap days are counted by LeapsStep but in the year zero.                *)
LEMMA LeapYearAfter ==
    ASSUME NEW p \in Nat
    PROVE  /\ Leaps(p) = Leaps(p - 1) + (IF IsLeap(p) THEN 1 ELSE 0) \/ p = 0
           /\ Leaps(p) \in Int /\ Leaps(p - 1) \in Int
<1>1. p >= 1 => Leaps(p) = Leaps(p - 1) + (IF IsLeap(p) THEN 1 ELSE 0)
  BY LeapsStep
<1>2. Leaps(p) \in Int /\ Leaps(p - 1) \in Int
  BY DEF Leaps
<1> QED BY <1>1, <1>2

(* The year that begins in March, and the day in it.                       *)
MarchYearOf(era, q) == q + era * 400

(* The year of an era is a year of the calendar, and no earlier than the   *)
(* one that holds the first of January 1970.                               *)
LEMMA MarchYear ==
    ASSUME NEW era \in Nat, NEW q \in Nat, q <= 399, NEW k \in Nat, k <= 365,
           EndsInFebruary(q, k), NEW t \in Nat,
           t + Epoch = EraDays(era) + (365 * q + q \div 4 - q \div 100 + k),
           NEW p, p = MarchYearOf(era, q)
    PROVE  /\ p \in Nat /\ p >= 1969 /\ (p = 1969 => k >= 306)
           /\ EndsInFebruary(p, k)
           /\ t + Epoch = 365 * p + Leaps(p) + k
<1>1. p = q + era * 400 /\ p \in Nat /\ p + 1 = (q + 1) + era * 400
  BY SMTT(30) DEF MarchYearOf
<1>2. Leaps(p) = 97 * era + q \div 4 - q \div 100
  BY <1>1, LeapInEra, SMTT(30)
<1>3. IsLeap(p + 1) <=> IsLeap(q + 1)
  BY <1>1, LeapInEra, SMTT(30)
<1>4. t + Epoch = 365 * p + Leaps(p) + k
  BY <1>1, <1>2, SMTT(30) DEF EraDays
<1>5. p >= 1969 /\ (p = 1969 => k >= 306)
  BY <1>1, SMTT(30) DEF EraDays, Epoch
<1>6. EndsInFebruary(p, k)
  BY <1>3 DEF EndsInFebruary
<1> QED BY <1>1, <1>4, <1>5, <1>6

(* The date of a day of such a year and month.                             *)
DateFrom(p, mp, day) ==
    <<p + (IF mp < 10 THEN 0 ELSE 1), mp + (IF mp < 10 THEN 3 ELSE -9), day>>

(* The date made from a year that begins in March, and a day in it, is     *)
(* valid and is the date of that day.                                      *)
LEMMA FromMarch ==
    ASSUME NEW p \in Nat, p >= 1969, NEW k \in Nat, k <= 365, EndsInFebruary(p, k),
           p = 1969 => k >= 306, NEW mp, mp = MonthOfDay(k),
           NEW date, date = DateFrom(p, mp, k - (153 * mp + 2) \div 5 + 1)
    PROVE  /\ date \in Dates /\ ValidDate(date)
           /\ DayOf(date) + Epoch = 365 * p + Leaps(p) + k
<1>2. /\ mp \in Nat /\ mp <= 11
      /\ (153 * mp + 2) \div 5 = Offset(mp)
      /\ Offset(mp) <= k /\ k < Offset(mp + 1)
  BY MonthOfYear
<1>3. Offset(mp) \in Nat
  BY <1>2 DEF Offset
<1> DEFINE day == k - Offset(mp) + 1
<1>4. day \in Nat /\ 1 <= day /\ date = DateFrom(p, mp, day)
  BY <1>2, <1>3
<1>5. CASE mp < 10
  <2>1. date = <<p, mp + 3, day>> /\ mp \in Nat /\ mp <= 9 /\ mp + 3 \in Nat
    BY <1>2, <1>4, <1>5 DEF DateFrom
  <2>2. p >= 1970
    <3>1. ASSUME NEW m \in {0, 1, 2, 3, 4, 5, 6, 7, 8, 9} PROVE Offset(m + 1) <= 306
      BY DEF Offset
    <3>2. mp \in {0, 1, 2, 3, 4, 5, 6, 7, 8, 9}
      BY <1>2, <1>5
    <3>3. Offset(mp + 1) <= 306 /\ Offset(mp + 1) \in Int
      BY <3>1, <3>2 DEF Offset
    <3> QED BY <1>2, <3>3
  <2>3. /\ MonthDays(p, mp + 3) = 59 + (IF IsLeap(p) THEN 1 ELSE 0) + Offset(mp)
        /\ DaysIn(p, mp + 3) = Offset(mp + 1) - Offset(mp)
    BY <2>1, MonthsFromMarch
  <2>4. Offset(mp + 1) \in Nat
    BY <1>2 DEF Offset
  <2>5. day <= DaysIn(p, mp + 3) /\ DaysIn(p, mp + 3) \in Int
    BY <1>2, <1>3, <2>3, <2>4
  <2>6. date \in Dates /\ ValidDate(date)
    BY <1>4, <2>1, <2>2, <2>5 DEF Dates, ValidDate
  <2>7. DayOf(date) = YearStart(p) + MonthDays(p, mp + 3) + day - 1
    BY <1>4, <2>1, DayIs
  <2>8. YearStart(p) = 365 * (p - 1970) + Leaps(p - 1) - 477
    BY <2>2, YearStartIs
  <2>9. Leaps(p) = Leaps(p - 1) + (IF IsLeap(p) THEN 1 ELSE 0) /\ Leaps(p - 1) \in Int
    BY <2>2, LeapYearAfter
  <2> QED BY <1>3, <2>3, <2>6, <2>7, <2>8, <2>9, SMTT(30) DEF Epoch
<1>6. CASE mp >= 10
  <2>1. date = <<p + 1, mp - 9, day>> /\ mp \in {10, 11} /\ mp - 9 \in Nat /\ p + 1 \in Nat
    BY <1>2, <1>4, <1>6 DEF DateFrom
  <2>2. MonthDays(p + 1, mp - 9) = Offset(mp) - 306
    BY <2>1 DEF MonthDays, Offset
  <2>3. day <= DaysIn(p + 1, mp - 9) /\ DaysIn(p + 1, mp - 9) \in Int
    BY <1>2, <2>1 DEF DaysIn, Offset, EndsInFebruary
  <2>4. date \in Dates /\ ValidDate(date)
    BY <1>4, <2>1, <2>3 DEF Dates, ValidDate
  <2>5. DayOf(date) = YearStart(p + 1) + MonthDays(p + 1, mp - 9) + day - 1
    BY <1>4, <2>1, DayIs
  <2>6. YearStart(p + 1) = 365 * (p + 1 - 1970) + Leaps(p) - 477
    <3>1. (p + 1) - 1 = p /\ p + 1 \in Nat /\ p + 1 >= 1970
      OBVIOUS
    <3> QED BY <3>1, YearStartIs
  <2>7. Leaps(p) \in Int
    BY LeapYearAfter
  <2> QED BY <1>3, <2>2, <2>4, <2>5, <2>6, <2>7, SMTT(30) DEF Epoch
<1> QED BY <1>2, <1>5, <1>6

(* The date of a day, from the era, the year and the day in it.            *)
LEMMA DateInEra ==
    ASSUME NEW t \in Nat, NEW era, era = EraOf(t), NEW e, e = DayOfEra(t),
           NEW q, q = YearOfEra(e), NEW k, k = DayOfYear(e),
           NEW p, p = MarchYearOf(era, q), NEW mp, mp = MonthOfDay(k)
    PROVE  DateOf(t) = <<p + (IF mp + (IF mp < 10 THEN 3 ELSE -9) <= 2 THEN 1 ELSE 0),
                         mp + (IF mp < 10 THEN 3 ELSE -9), k - (153 * mp + 2) \div 5 + 1>>
<1> DEFINE InMonth(r, j, m) == <<r + (IF m + (IF m < 10 THEN 3 ELSE -9) <= 2 THEN 1 ELSE 0),
                                m + (IF m < 10 THEN 3 ELSE -9), j - (153 * m + 2) \div 5 + 1>>
           InYear(r, j) == InMonth(r, j, (5 * j + 2) \div 153)
           InEraYear(a, d, y) == InYear(y + a * 400, d - (365 * y + y \div 4 - y \div 100))
           FromEra(a, d) ==
               InEraYear(a, d, (d - d \div 1460 + d \div 36524 - d \div 146096) \div 365)
<1>1. DateOf(t) = FromEra(EraOf(t), DayOfEra(t))
  BY SMTT(30) DEF DateOf, EraOf, DayOfEra
<1>2. FromEra(era, e) = InEraYear(era, e, q)
  BY DEF YearOfEra
<1>3. InEraYear(era, e, q) = InYear(p, k)
  BY DEF MarchYearOf, DayOfYear
<1>4. InYear(p, k) = InMonth(p, k, mp)
  BY DEF MonthOfDay
<1> QED BY <1>1, <1>2, <1>3, <1>4

(* The date the clock is converted to is the date of that day.             *)
LEMMA DateIsOfItsDay ==
    ASSUME NEW t \in Nat
    PROVE  DateOf(t) \in Dates /\ ValidDate(DateOf(t)) /\ DayOf(DateOf(t)) = t
<1>1. PICK era, e : era = EraOf(t) /\ e = DayOfEra(t)
  OBVIOUS
<1>2. PICK q, k : q = YearOfEra(e) /\ k = DayOfYear(e)
  OBVIOUS
<1>3. PICK p, mp : p = MarchYearOf(era, q) /\ mp = MonthOfDay(k)
  OBVIOUS
<1>4. era \in Nat /\ InEra(e) /\ EraDays(era) \in Nat /\ t + Epoch = EraDays(era) + e
  BY <1>1, EraOfDay
<1>5. /\ q \in Nat /\ q <= 399 /\ k \in Nat /\ k <= 365
      /\ e = 365 * q + q \div 4 - q \div 100 + k
      /\ EndsInFebruary(q, k)
  BY <1>2, <1>4, YearInEra
<1>6. t + Epoch = EraDays(era) + (365 * q + q \div 4 - q \div 100 + k)
  BY <1>4, <1>5
<1>7. /\ p \in Nat /\ p >= 1969 /\ (p = 1969 => k >= 306)
      /\ EndsInFebruary(p, k)
      /\ t + Epoch = 365 * p + Leaps(p) + k
  BY <1>3, <1>4, <1>5, <1>6, MarchYear
<1>8. mp \in Nat /\ mp <= 11
  BY <1>3, <1>5, MonthOfYear
<1>9. DateOf(t) = DateFrom(p, mp, k - (153 * mp + 2) \div 5 + 1)
  <2>1. DateOf(t) = <<p + (IF mp + (IF mp < 10 THEN 3 ELSE -9) <= 2 THEN 1 ELSE 0),
                      mp + (IF mp < 10 THEN 3 ELSE -9), k - (153 * mp + 2) \div 5 + 1>>
    BY <1>1, <1>2, <1>3, DateInEra
  <2> QED BY <1>7, <1>8, <2>1 DEF DateFrom
<1>10. /\ DateOf(t) \in Dates /\ ValidDate(DateOf(t))
       /\ DayOf(DateOf(t)) + Epoch = 365 * p + Leaps(p) + k
  BY <1>3, <1>5, <1>7, <1>9, FromMarch
<1>11. DayOf(DateOf(t)) \in Int
  BY <1>10, DayIsInt
<1> QED BY <1>7, <1>10, <1>11, SMTT(30) DEF Epoch

-----------------------------------------------------------------------------
(* The verdict is the answer to a request, and it does not change with     *)
(* what is computed after it: the program, its graph and its results stay. *)
VerdictAnswers ==
    verdict # <<>> => /\ result # <<>>
                      /\ verdict[1] \in Requests
                      /\ verdict[2] = ExitOf(verdict[1])

(* A verdict is given once, on results that are no longer touched.         *)
LEMMA VerdictStays == Spec => []VerdictAnswers
<1>1. Init => VerdictAnswers
  BY DEF Init, VerdictAnswers
<1>2. VerdictAnswers /\ [Next]_vars => VerdictAnswers'
  <2> SUFFICES ASSUME VerdictAnswers, [Next]_vars PROVE VerdictAnswers' OBVIOUS
  <2>1. ASSUME UNCHANGED <<program, graph, result, verdict>> PROVE VerdictAnswers'
    <3>1. \A request : ExitOf(request)' = ExitOf(request)
      BY <2>1 DEF ExitOf
    <3> QED BY <2>1, <3>1 DEF VerdictAnswers
  <2>2. CASE Solve
    BY <2>1, <2>2 DEF Solve
  <2>3. CASE RunRules
    BY <2>3 DEF RunRules, VerdictAnswers
  <2>4. ASSUME NEW request \in Requests, Decide(request) PROVE VerdictAnswers'
    <3>1. ExitOf(request)' = ExitOf(request)
      BY <2>4 DEF ExitOf, Decide
    <3> QED BY <2>4, <3>1 DEF Decide, VerdictAnswers
  <2>5. CASE UNCHANGED vars
    BY <2>1, <2>5 DEF vars
  <2> QED BY <2>2, <2>3, <2>4, <2>5 DEF Next
<1> QED BY <1>1, <1>2, PTL DEF Spec

(* What a configuration that is not trusted may add is more to find.       *)
LEMMA MoreIsShown ==
    ASSUME NEW config, config.suppressions = {}, NEW g, NEW properties, NEW problems
    PROVE  Diagnostics(BuiltIn, g, properties, problems)
             \subseteq Diagnostics(config, g, properties, problems)
<1>1. EvaluatePolicy(g, {}) = {}
  BY DEF EvaluatePolicy
<1>2. BuiltIn.rules = {} /\ BuiltIn.suppressions = {}
  BY DEF BuiltIn
<1> QED BY <1>1, <1>2 DEF Diagnostics

(* What fails for some diagnostics fails for more of them.                 *)
LEMMA MoreFails ==
    ASSUME NEW persona, NEW fewer, NEW more, fewer \subseteq more, NEW properties,
           OutcomeShouldFail(persona, fewer, properties)
    PROVE  OutcomeShouldFail(persona, more, properties)
BY DEF OutcomeShouldFail

(* Of the personas that can fail, the gate is the one that fails least.    *)
LEMMA GateIsWeakest ==
    ASSUME NEW persona, persona # "audit", NEW diagnostics, NEW properties,
           OutcomeShouldFail("gate", diagnostics, properties)
    PROVE  OutcomeShouldFail(persona, diagnostics, properties)
BY DEF OutcomeShouldFail

(* What fails the built-in configuration fails any that keeps from what    *)
(* validate_repository refuses: it shows no less and its persona fails no  *)
(* less.                                                                   *)
LEMMA UntrustedIsStricter ==
    ASSUME NEW config, config.suppressions = {}, config.persona # "audit",
           NEW asked, NEW strict, NEW g, NEW found, NEW problems,
           Gate(BuiltIn, asked, strict, g, found, problems) = "finding"
    PROVE  Gate(config, asked, strict, g, found, problems) = "finding"
<1> DEFINE own == Diagnostics(BuiltIn, g, found.properties, problems)
           more == Diagnostics(config, g, found.properties, problems)
           persona == IF asked = <<>> THEN config.persona ELSE asked[1]
           weakest == IF asked = <<>> THEN "gate" ELSE asked[1]
<1>1. own \subseteq more
  BY MoreIsShown
<1>2. EvaluatePolicy(g, BuiltIn.rules) = {} /\ BuiltIn.persona = "gate"
  BY DEF EvaluatePolicy, BuiltIn
<1>3. OutcomeShouldFail(weakest, own, found.properties)
  BY <1>2 DEF Gate
<1>4. OutcomeShouldFail(weakest, more, found.properties)
  <2> HIDE DEF own, more, weakest
  <2> QED BY <1>1, <1>3, MoreFails
<1>5. OutcomeShouldFail(persona, more, found.properties)
  <2>1. CASE asked = <<>>
    <3> HIDE DEF more
    <3> QED BY <1>4, <2>1, GateIsWeakest
  <2>2. CASE asked # <<>>
    <3> HIDE DEF more
    <3> QED BY <1>4, <2>2
  <2> QED BY <2>1, <2>2
<1> QED BY <1>5 DEF Gate

(* A request from which the files in the tree are taken away.              *)
LEMMA Without ==
    ASSUME NEW request \in Requests, NEW apart, apart = WithoutTree(request)
    PROVE  /\ apart.policy = OutsideOnly(request.policy)
           /\ apart.config = OutsideOnly(request.config)
           /\ apart.automatic = <<>>
           /\ apart.trusts = request.trusts
           /\ apart.asked = request.asked
           /\ apart.strict = request.strict
           /\ apart.today = request.today
<1>1. DOMAIN request = {"policy", "config", "automatic", "trusts", "asked", "strict", "today"}
  BY RequestAssumption
<1> QED BY <1>1 DEF WithoutTree

(* An untrusted request that is answered is one without a policy that lies *)
(* in the tree, and its configuration, if it is not built in or given      *)
(* from outside, passed validate_repository.                               *)
LEMMA ApartOrBuiltIn ==
    ASSUME NEW request \in Requests, ~request.trusts,
           ~Contradictory(request), PolicyOutside(request),
           Accepted(ConfigOf(request), request.today),
           NEW apart, apart = WithoutTree(request)
    PROVE  /\ ~Contradictory(apart) /\ PolicyOutside(apart)
           /\ Accepted(ConfigOf(apart), request.today)
           /\ \/ ConfigOf(apart) = ConfigOf(request)
              \/ /\ ConfigOf(apart) = BuiltIn
                 /\ ConfigOf(request).persona # "audit"
                 /\ ConfigOf(request).suppressions = {}
<1>1. /\ apart.policy = OutsideOnly(request.policy)
      /\ apart.config = OutsideOnly(request.config)
      /\ apart.automatic = <<>> /\ ~apart.trusts
  BY Without
<1>2. OutsideOnly(request.policy) = request.policy
  <2>1. request.policy = <<>> \/ request.policy = <<request.policy[1]>>
    BY RequestAssumption
  <2>2. ASSUME request.policy = <<request.policy[1]>> PROVE 1 \in DOMAIN request.policy
    <3> DEFINE file == request.policy[1]
    <3>1. 1 \in DOMAIN <<file>>
      OBVIOUS
    <3> QED BY <2>2, <3>1
  <2> QED BY <2>1, <2>2 DEF OutsideOnly, PolicyOutside
<1>3. OutsideOnly(request.config) \in {<<>>, request.config}
  BY DEF OutsideOnly
<1>4. ~Contradictory(apart) /\ PolicyOutside(apart)
  BY <1>1, <1>2, <1>3 DEF Contradictory, PolicyOutside
<1>5. Accepted(BuiltIn, request.today)
  BY DEF Accepted, BuiltIn
<1>6. \/ ConfigOf(apart) = ConfigOf(request)
      \/ ConfigOf(apart) = BuiltIn /\ ConfigOf(request).trust = "repository"
  <2>1. CASE Given(apart) = Given(request)
    BY <1>1, <1>2, <2>1 DEF ConfigOf, TrustOf
  <2>2. CASE Given(apart) # Given(request)
    <3>1. request.policy = <<>> /\ Given(apart) = <<>> /\ Given(request) # <<>>
      BY <1>1, <1>2, <1>3, <2>2 DEF Given
    <3> QED BY <1>1, <3>1 DEF ConfigOf, TrustOf
  <2> QED BY <2>1, <2>2
<1> QED BY <1>4, <1>5, <1>6 DEF Accepted, RepositoryMay

(* Whatever the repository brings along, in load_config_from_snapshot and  *)
(* validate_repository and then in the decision of the gate, nothing that  *)
(* would be stopped without it is let pass: for every program, every set   *)
(* of requests and every configuration they name.                          *)
THEOREM RepositoryNeverWeakens == Spec => []RepositoryCannotWeaken
<1>1. VerdictAnswers => RepositoryCannotWeaken
  <2> SUFFICES ASSUME VerdictAnswers, verdict # <<>>, ~verdict[1].trusts
               PROVE  LET apart == ExitOf(WithoutTree(verdict[1]))
                      IN  /\ verdict[2] = "pass" => apart = "pass"
                          /\ verdict[2] = "incomplete" => apart # "finding"
    BY DEF RepositoryCannotWeaken
  <2> DEFINE request == verdict[1]
             apart == WithoutTree(request)
  <2>1. request \in Requests /\ ~request.trusts /\ verdict[2] = ExitOf(request)
    BY DEF VerdictAnswers
  <2>2. SUFFICES ASSUME ExitOf(request) # "refused"
                 PROVE  /\ ExitOf(request) = "pass" => ExitOf(apart) = "pass"
                        /\ ExitOf(request) = "incomplete" => ExitOf(apart) # "finding"
    BY <2>1
  <2> HIDE DEF request
  <2>3. /\ ~Contradictory(request) /\ PolicyOutside(request)
        /\ Accepted(ConfigOf(request), request.today)
    BY <2>2 DEF ExitOf
  <2> DEFINE problems == UNION {Problems(program[s]) : s \in DOMAIN program}
             gate(config) == Gate(config, request.asked, request.strict, graph, result[1], problems)
             rest == IF request.strict /\ ~(result[1].complete /\ SourceCommit) THEN "incomplete" ELSE "pass"
  <2>4. ExitOf(request) = gate(ConfigOf(request))
    BY <2>3 DEF ExitOf
  <2>5. /\ apart.asked = request.asked /\ apart.strict = request.strict
        /\ apart.today = request.today
    BY <2>1, Without
  <2>6. /\ ~Contradictory(apart) /\ PolicyOutside(apart)
        /\ Accepted(ConfigOf(apart), request.today)
        /\ \/ ConfigOf(apart) = ConfigOf(request)
           \/ /\ ConfigOf(apart) = BuiltIn
              /\ ConfigOf(request).persona # "audit"
              /\ ConfigOf(request).suppressions = {}
    BY <2>1, <2>3, ApartOrBuiltIn
  <2>7. ExitOf(apart) = gate(ConfigOf(apart))
    BY <2>5, <2>6 DEF ExitOf
  <2>8. \A config : gate(config) \in {"finding", rest}
    BY DEF Gate
  <2>9. gate(ConfigOf(apart)) = "finding" => gate(ConfigOf(request)) = "finding"
    BY <2>6, UntrustedIsStricter
  <2>10. rest \in {"pass", "incomplete"}
    OBVIOUS
  <2> HIDE DEF gate, rest, apart
  <2> QED BY <2>4, <2>7, <2>8, <2>9, <2>10
<1> QED BY <1>1, VerdictStays, PTL

(* The files a request names, and the built-in configuration, have dates.  *)
LEMMA ExpiriesAreDates ==
    ASSUME NEW request \in Requests, NEW s \in ConfigOf(request).suppressions
    PROVE  s.expiry \in Dates
<1>1. Given(request) = request.policy \/ Given(request) = request.config
      \/ Given(request) = request.automatic
  BY DEF Given
<1>2. Given(request) # <<>>
  BY DEF ConfigOf, BuiltIn
<1>3. s \in Given(request)[1].suppressions
  BY <1>2 DEF ConfigOf
<1> QED BY <1>1, <1>2, <1>3, RequestAssumption DEF Dates

(* Comparing a valid date with the clock's is counting days.               *)
LEMMA ExpiredCountsDays ==
    ASSUME NEW s, s.expiry \in Dates, ValidDate(s.expiry), NEW today \in Nat
    PROVE  Expired(s, today) <=> DayOf(s.expiry) < today
<1>1. DateOf(today) \in Dates /\ ValidDate(DateOf(today)) /\ DayOf(DateOf(today)) = today
  BY DateIsOfItsDay
<1>2. Before(s.expiry, DateOf(today)) <=> DayOf(s.expiry) < DayOf(DateOf(today))
  BY <1>1, BeforeCountsDays
<1> QED BY <1>1, <1>2 DEF Expired

(* A suppression of a trusted configuration holds up to the end of its     *)
(* day: load_config_from_snapshot refuses the check just when one of them  *)
(* has a date that valid_date does not take, or one whose day is past,     *)
(* where days are counted one by one and not by eras, as                   *)
(* utc_date_from_days does.                                                *)
THEOREM SuppressionsAlwaysExpire == Spec => []SuppressionsExpire
<1>1. VerdictAnswers => SuppressionsExpire
  <2> SUFFICES ASSUME VerdictAnswers, verdict # <<>>,
                      ConfigOf(verdict[1]).trust = "trusted",
                      PolicyOutside(verdict[1]), ~Contradictory(verdict[1])
               PROVE  (verdict[2] = "refused") <=>
                        \E s \in ConfigOf(verdict[1]).suppressions :
                            ~ValidDate(s.expiry) \/ DayOf(s.expiry) < verdict[1].today
    BY DEF SuppressionsExpire
  <2> DEFINE request == verdict[1]
             config == ConfigOf(request)
             today == request.today
  <2>1. request \in Requests /\ verdict[2] = ExitOf(request)
    BY DEF VerdictAnswers
  <2>2. today \in Nat
    BY <2>1, RequestAssumption
  <2>3. \A asked, strict, g, found, problems :
            Gate(config, asked, strict, g, found, problems) # "refused"
    BY DEF Gate
  <2>4. ExitOf(request) = "refused" <=> ~Accepted(config, today)
    BY <2>3 DEF ExitOf
  <2>5. Accepted(config, today) <=>
          \A s \in config.suppressions : ValidDate(s.expiry) /\ ~Expired(s, today)
    BY DEF Accepted
  <2>6. ASSUME NEW s \in config.suppressions, ValidDate(s.expiry)
        PROVE  Expired(s, today) <=> DayOf(s.expiry) < today
    <3>1. s.expiry \in Dates
      BY <2>1, ExpiriesAreDates
    <3> HIDE DEF today
    <3> QED BY <2>2, <2>6, <3>1, ExpiredCountsDays
  <2> HIDE DEF config, today
  <2>7. ~Accepted(config, today) <=>
          \E s \in config.suppressions : ~ValidDate(s.expiry) \/ DayOf(s.expiry) < today
    BY <2>5, <2>6
  <2> QED BY <2>1, <2>4, <2>7 DEF config, today
<1> QED BY <1>1, VerdictStays, PTL

-----------------------------------------------------------------------------
(* The order of the lattice.                                               *)
LEMMA BelowItself == ASSUME NEW a \in Value PROVE Below(a, a)
BY JoinAssumption DEF Below

LEMMA BelowJoin ==
    ASSUME NEW a \in Value, NEW b \in Value
    PROVE  Below(a, Join(a, b)) /\ Below(b, Join(a, b))
<1>1. Join(Join(a, b), b) = Join(a, Join(b, b)) BY JoinAssumption
<1>2. Join(Join(a, b), a) = Join(Join(b, a), a) BY JoinAssumption
<1>3. Join(Join(b, a), a) = Join(b, Join(a, a)) BY JoinAssumption
<1>4. QED BY <1>1, <1>2, <1>3, JoinAssumption DEF Below

LEMMA BelowTransitive ==
    ASSUME NEW a \in Value, NEW b \in Value, NEW c \in Value, Below(a, b), Below(b, c)
    PROVE  Below(a, c)
<1>1. Join(Join(c, b), a) = Join(c, Join(b, a)) BY JoinAssumption
<1>2. QED BY <1>1 DEF Below

LEMMA JoinIsLeast ==
    ASSUME NEW a \in Value, NEW b \in Value, NEW c \in Value, Below(a, c), Below(b, c)
    PROVE  Below(Join(a, b), c)
<1>1. Join(Join(c, a), b) = Join(c, Join(a, b)) BY JoinAssumption
<1>2. QED BY <1>1 DEF Below

-----------------------------------------------------------------------------
(* The solver lists nodes as the searches do.                              *)
LEMMA ListingLists ==
    ASSUME NEW S \in SUBSET Int, IsFiniteSet(S)
    PROVE  Listing(S) \in Seq(S) /\ Range(Listing(S)) = S
<1>1. Listing(S) = Ascending(S) BY DEF Listing, Ascending
<1>2. QED BY <1>1, AscendingLists

(* The solver's start: what is not declared has nothing to say.            *)
LEMMA SolverStarts ==
    ASSUME NEW declared \in SUBSET Node, NEW edges \in SUBSET (Node \X Node),
           NEW attributes \in [declared -> Value],
           SolveInit(declared, edges, attributes)
    PROVE  DInv
<1>1. initial \in [Node -> Value] BY JoinAssumption DEF SolveInit
<1>2. queue \in Seq(Node) /\ Range(queue) = declared
    <2>1. Listing(declared) \in Seq(declared) /\ Range(Listing(declared)) = declared
        BY NodeAssumption, FS_Subset, ListingLists
    <2>2. Seq(declared) \subseteq Seq(Node) OBVIOUS
    <2>3. QED BY <2>1, <2>2 DEF SolveInit
<1>3. DataflowTypeOK BY <1>1, <1>2 DEF SolveInit, DataflowTypeOK
<1>4. KeepsOwn BY <1>1, BelowItself DEF KeepsOwn, SolveInit
<1>5. Absorbed
    <2> SUFFICES ASSUME NEW e \in flow, e[1] \notin Range(queue)
                 PROVE  Below(values[e[1]], values[e[2]])
        BY DEF Absorbed
    <2>1. e[1] \in Node /\ e[2] \in Node BY <1>3 DEF DataflowTypeOK
    <2>2. values[e[1]] = Bottom BY <1>2, <2>1 DEF SolveInit
    <2>3. values[e[2]] \in Value BY <1>3, <2>1 DEF DataflowTypeOK
    <2>4. QED BY <2>2, <2>3, JoinAssumption DEF Below
<1>6. QED BY <1>3, <1>4, <1>5 DEF DInv

(* A node's value only grows, and a popped node tells all its successors.  *)
LEMMA ValuesGrow ==
    ASSUME DataflowTypeOK, Propagate
    PROVE  /\ values' \in [Node -> Value]
           /\ \A n \in Node : Below(values[n], values'[n])
           /\ \A n \in Node : <<Head(queue), n>> \in flow =>
                  values'[n] = Join(values[n], values[Head(queue)])
<1>1. Head(queue) \in Node BY RangeOfQueue DEF DataflowTypeOK, Propagate
<1>2. values' = [n \in Node |-> IF <<Head(queue), n>> \in flow
                               THEN Join(values[n], values[Head(queue)]) ELSE values[n]]
    BY DEF Propagate, Pushed
<1>3. \A n \in Node : values[n] \in Value BY DEF DataflowTypeOK
<1>4. \A n \in Node : Join(values[n], values[Head(queue)]) \in Value
                      /\ Below(values[n], Join(values[n], values[Head(queue)]))
    BY <1>1, <1>3, BelowJoin, JoinAssumption
<1>5. QED BY <1>2, <1>3, <1>4, BelowItself

LEMMA PropagatePreserves ==
    ASSUME DInv, Propagate
    PROVE  DInv'
<1> DEFINE changed == {n \in Node : values'[n] # values[n] /\ n \notin Range(Tail(queue))}
<1>0. DataflowTypeOK /\ Absorbed /\ KeepsOwn BY DEF DInv
<1>1. /\ Head(queue) \in Node /\ Tail(queue) \in Seq(Node)
      /\ Range(queue) = {Head(queue)} \cup Range(Tail(queue))
    BY <1>0, RangeOfQueue DEF DataflowTypeOK, Propagate
<1>2. flow' = flow /\ initial' = initial BY DEF Propagate
<1>3. Listing(changed) \in Seq(Node) /\ Range(Listing(changed)) = changed
    <2>1. Listing(changed) \in Seq(changed) /\ Range(Listing(changed)) = changed
        BY NodeAssumption, FS_Subset, ListingLists
    <2>2. Seq(changed) \subseteq Seq(Node) OBVIOUS
    <2>3. QED BY <2>1, <2>2
<1>4. queue' = Tail(queue) \o Listing(changed) BY DEF Propagate
<1>5. queue' \in Seq(Node) /\ Range(queue') = Range(Tail(queue)) \cup changed
    <2> HIDE DEF changed
    <2> DEFINE rest == Tail(queue)
               added == Listing(changed)
    <2>1. rest \in Seq(Node) /\ added \in Seq(Node) BY <1>1, <1>3
    <2>2. queue' = rest \o added BY <1>4
    <2>3. Range(added) = changed BY <1>3
    <2> HIDE DEF rest, added
    <2>4. rest \o added \in Seq(Node) BY <2>1
    <2>5. Range(rest \o added) = Range(rest) \cup Range(added)
        BY <2>1, RangeOfConcatenation
    <2>6. QED BY <2>2, <2>3, <2>4, <2>5 DEF rest
<1>6. DataflowTypeOK' BY <1>0, <1>2, <1>5, ValuesGrow DEF DataflowTypeOK
<1>7. KeepsOwn'
    <2> SUFFICES ASSUME NEW n \in Node PROVE Below(initial'[n], values'[n])
        BY DEF KeepsOwn
    <2>1. Below(initial[n], values[n]) /\ Below(values[n], values'[n])
        BY <1>0, ValuesGrow DEF KeepsOwn
    <2>2. initial[n] \in Value /\ values[n] \in Value /\ values'[n] \in Value
        BY <1>0, ValuesGrow DEF DataflowTypeOK
    <2>3. QED BY <1>2, <2>1, <2>2, BelowTransitive
<1>8. Absorbed'
    <2> SUFFICES ASSUME NEW e \in flow, e[1] \notin Range(queue')
                 PROVE  Below(values'[e[1]], values'[e[2]])
        BY <1>2 DEF Absorbed
    <2>1. e[1] \in Node /\ e[2] \in Node /\ e = <<e[1], e[2]>>
        BY <1>0 DEF DataflowTypeOK
    <2>2. e[1] \notin Range(Tail(queue)) /\ values'[e[1]] = values[e[1]]
        BY <1>5, <2>1
    <2>3. /\ values[e[1]] \in Value /\ values[e[2]] \in Value /\ values'[e[2]] \in Value
          /\ Below(values[e[2]], values'[e[2]])
        BY <1>0, <2>1, ValuesGrow DEF DataflowTypeOK
    <2>4. CASE e[1] = Head(queue)
        <3>1. values'[e[2]] = Join(values[e[2]], values[e[1]])
            BY <1>0, <2>1, <2>4, ValuesGrow
        <3>2. QED BY <2>2, <2>3, <3>1, BelowJoin
    <2>5. CASE e[1] # Head(queue)
        <3>1. Below(values[e[1]], values[e[2]]) BY <1>0, <1>1, <2>2, <2>5 DEF Absorbed
        <3>2. QED BY <2>2, <2>3, <3>1, BelowTransitive
    <2>6. QED BY <2>4, <2>5
<1>9. QED BY <1>6, <1>7, <1>8 DEF DInv

LEMMA DInvHolds == DataflowSpec => []DInv
<1>1. (\E declared \in SUBSET Node, edges \in SUBSET (Node \X Node) :
           \E attributes \in [declared -> Value] : SolveInit(declared, edges, attributes))
      => DInv
    BY SolverStarts
<1>2. DInv /\ [Propagate]_dataflowVars => DInv'
    <2> SUFFICES ASSUME DInv, [Propagate]_dataflowVars PROVE DInv' OBVIOUS
    <2>1. CASE Propagate BY <2>1, PropagatePreserves
    <2>2. CASE UNCHANGED dataflowVars
        BY <2>2 DEF DInv, DataflowTypeOK, Absorbed, KeepsOwn, dataflowVars, Below
    <2>3. QED BY <2>1, <2>2
<1>3. QED BY <1>1, <1>2, PTL DEF DataflowSpec

(* Dataflow::solve, over any graph and any join semilattice: when the work *)
(* list is empty, every edge and every attribute is accounted for.         *)
THEOREM SolverReachesFixpoint == DataflowSpec => []FixpointReached
<1>1. DInv => FixpointReached
    <2> SUFFICES ASSUME DInv, Solved PROVE Closed(values) BY DEF FixpointReached
    <2>1. Range(queue) = {} BY DEF Solved, Range
    <2>2. QED BY <2>1 DEF DInv, Absorbed, KeepsOwn, Closed
<1>2. QED BY <1>1, DInvHolds, PTL

(* And it is the least such assignment, at every moment: no value claims a *)
(* taint or a secret that nothing brings to its node.                      *)
THEOREM SolverInventsNothing == DataflowSpec => []Least
<1>1. (\E declared \in SUBSET Node, edges \in SUBSET (Node \X Node) :
           \E attributes \in [declared -> Value] : SolveInit(declared, edges, attributes))
      => Least
    BY DEF Least, Closed, SolveInit
<1>2. ASSUME DInv, Least, Propagate PROVE Least'
    <2>0. DataflowTypeOK /\ flow' = flow /\ initial' = initial BY <1>2 DEF DInv, Propagate
    <2> SUFFICES ASSUME NEW p \in [Node -> Value], Closed(p), NEW n \in Node
                 PROVE  Below(values'[n], p[n])
        BY <2>0 DEF Least, Closed
    <2>1. \A m \in Node : values[m] \in Value /\ p[m] \in Value /\ Below(values[m], p[m])
        BY <1>2, <2>0 DEF Least, DataflowTypeOK
    <2>2. Head(queue) \in Node BY <1>2, <2>0, RangeOfQueue DEF DataflowTypeOK, Propagate
    <2>3. CASE <<Head(queue), n>> \in flow
        <3>1. values'[n] = Join(values[n], values[Head(queue)])
            BY <1>2, <2>0, <2>3, ValuesGrow
        <3>2. Below(p[Head(queue)], p[n]) BY <2>3 DEF Closed
        <3>3. Below(values[Head(queue)], p[n]) BY <2>1, <2>2, <3>2, BelowTransitive
        <3>4. QED BY <2>1, <2>2, <3>1, <3>3, JoinIsLeast
    <2>4. CASE <<Head(queue), n>> \notin flow
        <3>1. values'[n] = values[n] BY <1>2, <2>4 DEF Propagate, Pushed
        <3>2. QED BY <2>1, <3>1
    <2>5. QED BY <2>3, <2>4
<1>3. ASSUME Least, UNCHANGED dataflowVars PROVE Least'
    BY <1>3 DEF Least, Closed, dataflowVars
<1>4. DInv /\ Least /\ [Propagate]_dataflowVars => Least' BY <1>2, <1>3
<1>5. QED BY <1>1, <1>4, DInvHolds, PTL DEF DataflowSpec

-----------------------------------------------------------------------------
(* A join is untrusted when either part is.                                *)
LEMMA JoinTaint ==
    ASSUME NEW a \in Value, NEW b \in Value
    PROVE  IsUntrusted(Join(a, b)) <=> (IsUntrusted(a) \/ IsUntrusted(b))
<1>1. Join(a, b) = JoinAssign(a, b) /\ Join(b, a) = JoinAssign(b, a)
  BY ValueAssumption
<1>2. a.trust.label \in DOMAIN TrustRank /\ b.trust.label \in DOMAIN TrustRank
  BY ValueAssumption
<1>3. ~IsUntrusted(Default)
  BY DEF Default, Abstract, Trusted, Level, IsUntrusted
<1>4. Join(a, Default) = a /\ Join(Default, a) = a /\ Join(b, Default) = b /\ Join(Default, b) = b
      /\ Default \in Value
  BY JoinAssumption, ValueAssumption
<1>5. CASE a.value = BottomValue
  <2>1. JoinAssign(a, Default) = Default
    BY <1>5 DEF JoinAssign
  <2>2. Join(a, Default) = JoinAssign(a, Default)
    BY <1>4, ValueAssumption
  <2>3. a = Default
    BY <1>4, <2>1, <2>2
  <2> QED BY <1>3, <1>4, <2>3
<1>6. CASE b.value = BottomValue
  <2>0. Default.value = BottomValue
    BY DEF Default, Abstract
  <2>1. JoinAssign(b, Default) = Default
    BY <1>6 DEF JoinAssign
  <2>2. Join(b, Default) = JoinAssign(b, Default)
    BY <1>4, ValueAssumption
  <2>3. b = Default
    BY <1>4, <2>1, <2>2
  <2> QED BY <1>3, <1>4, <2>3
<1>7. CASE a.value # BottomValue /\ b.value # BottomValue
  <2>1. Join(a, b) = Abstract(JoinValue(a.value, b.value), JoinTrust(a.trust, b.trust),
                              JoinSecrecy(a.secrecy, b.secrecy))
    BY <1>1, <1>7 DEF JoinAssign
  <2>2. Join(a, b).trust = JoinTrust(a.trust, b.trust)
    BY <2>1 DEF Abstract
  <2>3. a.trust.label \in {"trusted", "mixed", "unknown", "untrusted"}
        /\ b.trust.label \in {"trusted", "mixed", "unknown", "untrusted"}
    BY <1>2 DEF TrustRank
  <2>4. JoinTrust(a.trust, b.trust).label = "untrusted"
          <=> (a.trust.label = "untrusted" \/ b.trust.label = "untrusted")
    BY <2>3 DEF JoinTrust, JoinLevel, TrustRank, Level
  <2> QED BY <2>2, <2>4 DEF IsUntrusted
<1> QED BY <1>5, <1>6, <1>7

(* So is the join of all the attributes of a node.                         *)
LEMMA JoinAllTaint ==
    ASSUME NEW parts \in SUBSET Value, IsFiniteSet(parts)
    PROVE  /\ JoinAll(parts) \in Value
           /\ IsUntrusted(JoinAll(parts)) <=> \E v \in parts : IsUntrusted(v)
<1> DEFINE some(s) == CHOOSE x \in s : TRUE
           Step(f) == [s \in SUBSET parts |-> IF s = {} THEN Default
                                              ELSE JoinAssign(f[s \ {some(s)}], some(s))]
           fold == CHOOSE f : f = Step(f)
           pick == [s \in SUBSET parts |-> some(s)]
           op == [p \in parts \X Value |-> Join(p[2], p[1])]
<1>1. JoinAll(parts) = fold[parts]
  BY DEF JoinAll, FoldSet, MapThenFoldSet
<1>2. \A s \in SUBSET parts : s # {} => pick[s] \in s
  OBVIOUS
<1>3. \A s : s # {} => some(s) \in s
  OBVIOUS
<1>4. op \in [parts \X Value -> Value]
  BY JoinAssumption
<1>5. \E f : f = Step(f)
  <2>1. PICK f \in [SUBSET parts -> Value] : IsFold(parts, Default, pick, op, f)
    <3>1. Default \in Value
      BY JoinAssumption, ValueAssumption
    <3> HIDE DEF pick, op
    <3> QED BY <1>2, <1>4, <3>1, FoldExists
  <2>2. ASSUME NEW s \in SUBSET parts, s # {}
        PROVE  op[<<pick[s], f[s \ {pick[s]}]>>] = JoinAssign(f[s \ {some(s)}], some(s))
    <3>1. pick[s] = some(s) /\ some(s) \in parts /\ s \ {some(s)} \in SUBSET parts
      BY <1>3, <2>2
    <3> HIDE DEF some, pick
    <3>2. f[s \ {some(s)}] \in Value
      BY <3>1
    <3>3. op[<<some(s), f[s \ {some(s)}]>>] = Join(f[s \ {some(s)}], some(s))
      BY <3>1, <3>2
    <3>4. some(s) \in Value
      BY <3>1
    <3>5. Join(f[s \ {some(s)}], some(s)) = JoinAssign(f[s \ {some(s)}], some(s))
      BY <3>2, <3>4, ValueAssumption
    <3> QED BY <3>1, <3>3, <3>5
  <2>3. f = [s \in SUBSET parts |-> IF s = {} THEN Default ELSE op[<<pick[s], f[s \ {pick[s]}]>>]]
    BY <2>1 DEF IsFold
  <2> HIDE DEF some, pick, op
  <2>4. f = Step(f)
    BY <2>2, <2>3
  <2> HIDE DEF Step
  <2> QED BY <2>4
<1>6. fold = Step(fold)
  <2> HIDE DEF Step
  <2> QED BY <1>5
<1> DEFINE Right(s) == /\ fold[s] \in Value
                       /\ IsUntrusted(fold[s]) <=> \E v \in s : IsUntrusted(v)
           N == {n \in Nat : \A s \in SUBSET parts : Cardinality(s) <= n => Right(s)}
<1>7. ASSUME NEW s \in SUBSET parts
      PROVE  /\ IsFiniteSet(s) /\ Cardinality(s) \in Nat
             /\ s # {} => /\ s \ {some(s)} \in SUBSET parts /\ Cardinality(s) > 0
                          /\ Cardinality(s \ {some(s)}) = Cardinality(s) - 1
  <2>1. IsFiniteSet(s) /\ Cardinality(s) \in Nat
    BY FS_Subset, FS_CardinalityType
  <2>2. Cardinality(s) = 0 <=> s = {}
    BY <2>1, FS_EmptySet
  <2>3. s # {} => some(s) \in s
    BY <1>3
  <2> HIDE DEF some
  <2>4. s # {} => Cardinality(s \ {some(s)}) = Cardinality(s) - 1
    BY <2>1, <2>3, FS_RemoveElement
  <2> QED BY <2>1, <2>2, <2>4
<1> HIDE DEF fold
<1>8. Right({})
  <2>1. fold[{}] = Default
    BY <1>6
  <2>2. Default \in Value
    BY JoinAssumption, ValueAssumption
  <2> QED BY <2>1, <2>2 DEF Default, Abstract, Trusted, Level, IsUntrusted
<1>9. ASSUME NEW s \in SUBSET parts, s # {}, Right(s \ {some(s)})
      PROVE  Right(s)
  <2>1. some(s) \in s
    BY <1>3, <1>9
  <2>2. fold[s] = JoinAssign(fold[s \ {some(s)}], some(s))
    BY <1>6, <1>9
  <2> HIDE DEF some
  <2>3. some(s) \in Value /\ fold[s \ {some(s)}] \in Value
    BY <1>9, <2>1
  <2>4. fold[s] = Join(fold[s \ {some(s)}], some(s))
    BY <2>2, <2>3, ValueAssumption
  <2>5. fold[s] \in Value
    BY <2>3, <2>4, JoinAssumption
  <2>6. IsUntrusted(fold[s]) <=> (IsUntrusted(fold[s \ {some(s)}]) \/ IsUntrusted(some(s)))
    BY <2>3, <2>4, JoinTaint
  <2> QED BY <1>9, <2>1, <2>5, <2>6
<1> HIDE DEF some
<1>10. 0 \in N
  <2>1. ASSUME NEW s \in SUBSET parts, Cardinality(s) <= 0 PROVE s = {}
    <3>1. Cardinality(s) \in Nat /\ (s # {} => Cardinality(s) > 0)
      BY <1>7
    <3> QED BY <2>1, <3>1
  <2> HIDE DEF Right
  <2> QED BY <1>8, <2>1
<1>11. ASSUME NEW n \in Nat, n \in N PROVE n + 1 \in N
  <2>1. ASSUME NEW s \in SUBSET parts, Cardinality(s) <= n + 1 PROVE Right(s)
    <3>1. CASE s # {}
      <4>1. /\ s \ {some(s)} \in SUBSET parts
            /\ Cardinality(s \ {some(s)}) = Cardinality(s) - 1 /\ Cardinality(s) \in Nat
        BY <1>7, <3>1
      <4>2. Cardinality(s \ {some(s)}) <= n
        BY <2>1, <4>1
      <4> HIDE DEF Right
      <4>3. Right(s \ {some(s)})
        BY <1>11, <4>1, <4>2
      <4> QED BY <1>9, <3>1, <4>3
    <3> HIDE DEF Right
    <3> QED BY <1>8, <3>1
  <2> HIDE DEF Right
  <2> QED BY <2>1
<1> HIDE DEF N
<1>12. Nat \subseteq N
  BY <1>10, <1>11, Upwards
<1>13. Right(parts)
  <2>0. Cardinality(parts) \in Nat
    BY FS_CardinalityType
  <2>1. Cardinality(parts) \in Nat /\ Cardinality(parts) <= Cardinality(parts)
    BY <2>0
  <2>2. Cardinality(parts) \in N
    BY <1>12, <2>1
  <2> HIDE DEF Right
  <2> QED BY <2>1, <2>2 DEF N
<1> QED BY <1>1, <1>13

-----------------------------------------------------------------------------
(* What can reach a node when fewer kinds of edges count, or from fewer    *)
(* nodes, can reach it.                                                    *)
LEMMA SpreadGrows ==
    ASSUME NEW g, Searchable(g), NEW few, NEW many, few \subseteq many, NEW avoided,
           NEW from \in SUBSET Int, NEW more \in SUBSET Int, from \subseteq more
    PROVE  Spread(g, few, avoided, from) \subseteq Spread(g, many, avoided, more)
<1> DEFINE C == Spread(g, many, avoided, more)
<1>1. C \in SUBSET Int /\ more \subseteq C /\ Shut(g, many, avoided, C)
  BY SpreadIsLeast
<1> HIDE DEF C
<1>2. Shut(g, few, avoided, C) /\ from \subseteq C
  BY <1>1 DEF Shut
<1>3. Spread(g, few, avoided, from) \subseteq C
  BY <1>1, <1>2, SpreadIsLeast
<1> QED BY <1>3 DEF C

(* A node that a policy takes for gated is behind the gate for the rules.  *)
LEMMA PolicyGatesAreGates ==
    ASSUME NEW g, Searchable(g), g.entrypoints \in SUBSET Int, g.entrypoints # {},
           NEW gate, NEW n, PolicyDominates(g, gate, n)
    PROVE  Dominates(g, gate, n)
<1>1. CASE gate = n
  BY <1>1 DEF Dominates
<1>2. CASE gate # n
  <2>1. n \notin Spread(g, PolicyKinds, {gate}, g.entrypoints \ {gate})
    BY <1>2 DEF PolicyDominates
  <2>2. ASSUME NEW e \in g.entrypoints, e # gate
        PROVE  n \notin Spread(g, {"control", "call"}, {gate}, {e})
    <3>1. {"control", "call"} \subseteq PolicyKinds
      BY DEF PolicyKinds
    <3>2. {e} \in SUBSET Int /\ g.entrypoints \ {gate} \in SUBSET Int
          /\ {e} \subseteq g.entrypoints \ {gate}
      BY <2>2
    <3>3. Spread(g, {"control", "call"}, {gate}, {e})
            \subseteq Spread(g, PolicyKinds, {gate}, g.entrypoints \ {gate})
      BY <3>1, <3>2, SpreadGrows
    <3> QED BY <2>1, <3>3
  <2>3. \A e \in g.entrypoints : ~PathAvoiding(g, e, n, gate)
    BY <2>2 DEF PathAvoiding
  <2> QED BY <2>3 DEF Dominates
<1> QED BY <1>1, <1>2

(* A graph of a program fits the solver and the searches.                  *)
LEMMA FittingGraph ==
    ASSUME NEW g, Fits(g)
    PROVE  /\ Searchable(g)
           /\ NodesOf(g) \in SUBSET Node /\ NodesOf(g) \subseteq Int
           /\ g.entrypoints \in SUBSET Int
           /\ FlowOf(g) \in SUBSET (Node \X Node)
           /\ \A n \in NodesOf(g) :
                 /\ JoinAll(g.node[n].attributes) \in Value
                 /\ IsUntrusted(JoinAll(g.node[n].attributes))
                      <=> \E v \in g.node[n].attributes : IsUntrusted(v)
<1>1. Searchable(g)
  BY NodeAssumption DEF Fits, Searchable
<1>2. NodesOf(g) \in SUBSET Node /\ NodesOf(g) \subseteq Int /\ g.entrypoints \in SUBSET Int
  BY NodeAssumption DEF Fits
<1>3. FlowOf(g) \in SUBSET (Node \X Node)
  BY DEF Fits, FlowOf
<1>4. ASSUME NEW n \in NodesOf(g)
      PROVE  /\ JoinAll(g.node[n].attributes) \in Value
             /\ IsUntrusted(JoinAll(g.node[n].attributes))
                  <=> \E v \in g.node[n].attributes : IsUntrusted(v)
  <2>1. g.node[n].attributes \in SUBSET Value /\ IsFiniteSet(g.node[n].attributes)
    BY DEF Fits
  <2> QED BY <2>1, JoinAllTaint
<1> QED BY <1>1, <1>2, <1>3, <1>4

(* What brings a taint to a node.                                          *)
Brings(m, n) ==
    m \in NodesOf(graph) /\ IsUntrusted(initial[m]) /\ n \in Spread(graph, DataKinds, {}, {m})

(* The graph is the program's and so are the flow and the attributes, the  *)
(* solver is on its way, an untrusted value was brought, and the rules     *)
(* run when the queue is empty.                                            *)
TaintInv ==
    /\ program \in Programs /\ graph = GraphOf(program)
    /\ flow = FlowOf(graph)
    /\ initial = [n \in Node |-> IF n \in NodesOf(graph)
                                 THEN JoinAll(graph.node[n].attributes) ELSE Bottom]
    /\ DInv
    /\ \A n \in Node : IsUntrusted(values[n]) => \E m : Brings(m, n)
    /\ result # <<>> => Solved

LEMMA TaintStarts == Init => TaintInv
<1> SUFFICES ASSUME Init PROVE TaintInv
  OBVIOUS
<1> DEFINE attributes == [n \in NodesOf(graph) |-> JoinAll(graph.node[n].attributes)]
<1>1. program \in Programs /\ graph = GraphOf(program) /\ result = <<>>
      /\ SolveInit(NodesOf(graph), FlowOf(graph), attributes)
  BY DEF Init
<1>2. Fits(graph)
  BY <1>1, ProgramAssumption
<1>3. attributes \in [NodesOf(graph) -> Value]
  BY <1>2, FittingGraph
<1>4. NodesOf(graph) \in SUBSET Node /\ FlowOf(graph) \in SUBSET (Node \X Node)
      /\ Searchable(graph) /\ NodesOf(graph) \subseteq Int
  BY <1>2, FittingGraph
<1>5. DInv
  <2> HIDE DEF attributes
  <2> QED BY <1>1, <1>3, <1>4, SolverStarts
<1>6. /\ flow = FlowOf(graph) /\ values = initial
      /\ initial = [n \in Node |-> IF n \in NodesOf(graph)
                                   THEN JoinAll(graph.node[n].attributes) ELSE Bottom]
  BY <1>1, <1>4 DEF SolveInit
<1>7. ASSUME NEW n \in Node, IsUntrusted(values[n])
      PROVE  \E m : Brings(m, n)
  <2>1. ~IsUntrusted(Bottom)
    BY ValueAssumption DEF Default, Abstract, Trusted, Level, IsUntrusted
  <2>2. n \in NodesOf(graph)
    BY <1>6, <1>7, <2>1
  <2>3. {n} \in SUBSET Int
    BY <1>4, <2>2
  <2>4. n \in Spread(graph, DataKinds, {}, {n})
    BY <1>4, <2>3, SpreadIsLeast
  <2>5. Brings(n, n)
    BY <1>6, <1>7, <2>2, <2>4 DEF Brings
  <2> QED BY <2>5
<1> QED BY <1>1, <1>5, <1>6, <1>7 DEF TaintInv

LEMMA TaintSolve ==
    ASSUME TaintInv, Solve
    PROVE  TaintInv'
<1>1. Propagate /\ program' = program /\ graph' = graph /\ result' = result
  BY DEF Solve
<1>2. DInv' /\ flow' = flow /\ initial' = initial /\ queue # <<>>
  BY <1>1, PropagatePreserves DEF TaintInv, Propagate
<1>3. Fits(graph) /\ Searchable(graph) /\ NodesOf(graph) \subseteq Int /\ DataflowTypeOK
  BY ProgramAssumption, FittingGraph DEF TaintInv, DInv
<1>4. ASSUME NEW n \in Node, IsUntrusted(values'[n])
      PROVE  \E m : Brings(m, n)
  <2>1. CASE <<Head(queue), n>> \in flow
    <3>1. Head(queue) \in Node
      BY <1>2, <1>3, RangeOfQueue DEF DataflowTypeOK
    <3>2. values'[n] = Join(values[n], values[Head(queue)])
      BY <1>1, <1>3, <2>1, ValuesGrow
    <3>3. values[n] \in Value /\ values[Head(queue)] \in Value
      BY <1>3, <3>1 DEF DataflowTypeOK
    <3>4. IsUntrusted(values[n]) \/ IsUntrusted(values[Head(queue)])
      BY <1>4, <3>2, <3>3, JoinTaint
    <3>5. CASE IsUntrusted(values[Head(queue)])
      <4>1. PICK m : Brings(m, Head(queue))
        BY <3>1, <3>5 DEF TaintInv
      <4>2. {m} \in SUBSET Int
        BY <1>3, <4>1 DEF Brings
      <4>3. Shut(graph, DataKinds, {}, Spread(graph, DataKinds, {}, {m}))
        BY <1>3, <4>2, SpreadIsLeast
      <4>4. PICK e \in graph.edges : e.kind \in DataKinds /\ e.from = Head(queue) /\ e.to = n
        BY <2>1 DEF TaintInv, FlowOf
      <4>5. n \in Spread(graph, DataKinds, {}, {m})
        BY <4>1, <4>3, <4>4 DEF Shut, Brings
      <4>6. Brings(m, n)
        BY <4>1, <4>5 DEF Brings
      <4> QED BY <4>6
    <3> QED BY <3>4, <3>5 DEF TaintInv
  <2>2. CASE <<Head(queue), n>> \notin flow
    <3>1. values'[n] = values[n]
      BY <1>1, <2>2 DEF Propagate, Pushed
    <3> QED BY <1>4, <3>1 DEF TaintInv
  <2> QED BY <2>1, <2>2
<1>5. \A n \in Node : IsUntrusted(values'[n]) => \E m : Brings(m, n)'
  BY <1>1, <1>2, <1>4 DEF Brings
<1> QED BY <1>1, <1>2, <1>5 DEF TaintInv, Solved

LEMMA TaintInvHolds == Spec => []TaintInv
<1>1. TaintInv /\ [Next]_vars => TaintInv'
  <2> SUFFICES ASSUME TaintInv, [Next]_vars PROVE TaintInv'
    OBVIOUS
  <2>1. CASE Solve
    BY <2>1, TaintSolve
  <2>2. ASSUME UNCHANGED <<dataflowVars, program, graph>>, result' # <<>> => Solved
        PROVE  TaintInv'
    <3>1. DInv'
      BY <2>2 DEF TaintInv, DInv, DataflowTypeOK, Absorbed, KeepsOwn, dataflowVars, Below
    <3>2. \A m, n : Brings(m, n)' <=> Brings(m, n)
      BY <2>2 DEF Brings, dataflowVars
    <3> QED BY <2>2, <3>1, <3>2 DEF TaintInv, dataflowVars, Solved
  <2>3. CASE RunRules
    BY <2>2, <2>3 DEF RunRules, dataflowVars
  <2>4. ASSUME NEW request \in Requests, Decide(request)
        PROVE  TaintInv'
    BY <2>2, <2>4 DEF Decide, dataflowVars, TaintInv
  <2>5. CASE UNCHANGED vars
    BY <2>2, <2>5 DEF vars, dataflowVars, TaintInv
  <2> QED BY <2>1, <2>3, <2>4, <2>5 DEF Next
<1> QED BY <1>1, TaintStarts, PTL DEF Spec

(* When the queue is empty a node is untrusted just when something         *)
(* untrusted can reach it.                                                 *)
LEMMA TaintIsReach ==
    ASSUME TaintInv, Solved, NEW n \in NodesOf(graph)
    PROVE  IsUntrusted(values[n]) <=> \E m : Brings(m, n)
<1>1. Fits(graph) /\ DataflowTypeOK /\ Absorbed /\ KeepsOwn
  BY ProgramAssumption DEF TaintInv, DInv
<1>2. Searchable(graph) /\ NodesOf(graph) \in SUBSET Node
  BY <1>1, FittingGraph
<1> DEFINE C == {x \in Node : IsUntrusted(values[x])}
<1>3. C \in SUBSET Int
  BY NodeAssumption
<1>4. \A x \in Node : values[x] \in Value /\ initial[x] \in Value
  BY <1>1 DEF DataflowTypeOK
<1>5. ASSUME NEW a \in Value, NEW b \in Value, Below(a, b), IsUntrusted(a)
      PROVE  IsUntrusted(b)
  BY <1>5, JoinTaint DEF Below
<1>6. Shut(graph, DataKinds, {}, C)
  <2> SUFFICES ASSUME NEW e \in graph.edges, e.from \in C, e.kind \in DataKinds
               PROVE  e.to \in C
    BY DEF Shut
  <2>1. <<e.from, e.to>> \in flow
    BY DEF TaintInv, FlowOf
  <2>2. e.from \in Node /\ e.to \in Node
    BY <1>1 DEF Fits
  <2>3. Range(queue) = {}
    BY DEF Solved, Range
  <2>4. Below(values[e.from], values[e.to])
    BY <1>1, <2>1, <2>3 DEF Absorbed
  <2> QED BY <1>4, <1>5, <2>2, <2>4
<1>7. ASSUME NEW m, Brings(m, n)
      PROVE  IsUntrusted(values[n])
  <2>1. m \in Node /\ IsUntrusted(initial[m])
    BY <1>2, <1>7 DEF Brings
  <2>2. Below(initial[m], values[m])
    BY <1>1, <2>1 DEF KeepsOwn
  <2>3. m \in C
    BY <1>4, <1>5, <2>1, <2>2
  <2>4. {m} \in SUBSET Int /\ {m} \subseteq C
    BY <1>3, <2>3
  <2> HIDE DEF C
  <2>5. Spread(graph, DataKinds, {}, {m}) \subseteq C
    BY <1>2, <1>3, <1>6, <2>4, SpreadIsLeast
  <2> QED BY <1>7, <2>5 DEF Brings, C
<1>8. n \in Node
  BY <1>2
<1> QED BY <1>7, <1>8 DEF TaintInv

(* What the rules read is reachability, and the policy misses none of it:  *)
(* the values Dataflow::solve leaves are untrusted just where an untrusted *)
(* attribute can flow, a policy rule that forbids paths (product/policy.rs)*)
(* reports every such node, and a node that its own walk takes for gated   *)
(* is dominated by that gate for GraphIndex too.                           *)
THEOREM TaintAlwaysSeen == Spec => []TaintIsSeen
<1>1. TaintInv => TaintIsSeen
  <2> SUFFICES ASSUME TaintInv, result # <<>> PROVE TaintIsSeen
    BY DEF TaintIsSeen
  <2> DEFINE tainted == {n \in NodesOf(graph) : Tainted(n)}
  <2>1. Solved /\ Fits(graph)
    BY ProgramAssumption DEF TaintInv
  <2>2. /\ Searchable(graph) /\ NodesOf(graph) \subseteq Int
        /\ NodesOf(graph) \in SUBSET Node /\ graph.entrypoints \in SUBSET Int
    BY <2>1, FittingGraph
  <2>3. ASSUME NEW m \in NodesOf(graph)
        PROVE  /\ IsUntrusted(initial[m])
                    <=> \E v \in graph.node[m].attributes : IsUntrusted(v)
               /\ initial[m] = JoinedValue(graph.node[m])
    <3>1. initial[m] = JoinAll(graph.node[m].attributes)
      BY <2>2 DEF TaintInv
    <3>2. IsUntrusted(JoinAll(graph.node[m].attributes))
            <=> \E v \in graph.node[m].attributes : IsUntrusted(v)
      BY <2>1, FittingGraph
    <3> QED BY <3>1, <3>2 DEF JoinedValue
  <2>4. ASSUME NEW n \in NodesOf(graph)
        PROVE  Tainted(n) <=> \E m : Brings(m, n)
    <3>1. ASSUME NEW m \in NodesOf(graph)
          PROVE  HasPath(graph, m, n, DataKinds) <=> n \in Spread(graph, DataKinds, {}, {m})
      BY <2>2, PathIsReach
    <3> QED BY <2>3, <3>1 DEF Tainted, Brings
  <2>5. tainted = {n \in NodesOf(graph) : IsUntrusted(values[n])}
    BY <2>1, <2>4, TaintIsReach
  <2>6. ASSUME NEW n \in NodesOf(graph), Tainted(n)
        PROVE  n \in Found(graph, ForbidPaths)
    <3>1. PICK m : Brings(m, n)
      BY <2>4, <2>6
    <3>2. m \in NodesOf(graph) /\ m \in Int /\ {m} \in SUBSET Int
      BY <2>2, <3>1 DEF Brings
    <3>3. DataKinds \subseteq PolicyKinds
      BY DEF DataKinds, PolicyKinds
    <3>4. n \in Spread(graph, PolicyKinds, {}, {m})
      BY <2>2, <3>1, <3>2, <3>3, SpreadGrows DEF Brings
    <3>5. HasPath(graph, m, n, PolicyKinds)
      BY <2>2, <3>2, <3>4, PathIsReach
    <3>6. IsUntrusted(JoinedValue(graph.node[m]))
      BY <2>3, <3>1, <3>2 DEF Brings
    <3>7. ShortestPath(graph, m, n, PolicyKinds) \in UntrustedPaths(graph, n)
      BY <3>2, <3>5, <3>6 DEF UntrustedPaths, HasPath
    <3>8. SelectorMatches(graph, n, ForbidPaths)
      BY DEF SelectorMatches, ForbidPaths
    <3>9. ForbidPaths.kind = "forbid_path"
      BY DEF ForbidPaths
    <3> QED BY <3>7, <3>8, <3>9 DEF Found
  <2>7. ASSUME graph.entrypoints # {}, NEW gate, NEW n, PolicyDominates(graph, gate, n)
        PROVE  Dominates(graph, gate, n)
    BY <2>2, <2>7, PolicyGatesAreGates
  <2>8. tainted \subseteq Found(graph, ForbidPaths)
    BY <2>6
  <2>9. graph.entrypoints # {} =>
            \A gate \in OfKind(graph, {"gate"}), n \in NodesOf(graph) :
                PolicyDominates(graph, gate, n) => Dominates(graph, gate, n)
    BY <2>7
  <2> QED BY <2>5, <2>8, <2>9 DEF TaintIsSeen
<1> QED BY <1>1, TaintInvHolds, PTL
=============================================================================
