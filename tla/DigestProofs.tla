----------------------------- MODULE DigestProofs -----------------------------
(***************************************************************************)
(* The digest job, for every number of members, browsers and changes and   *)
(* every set of timezones: its types, with the facts about its records and *)
(* its ledger that the other proofs about it use, and what it does with    *)
(* the ledger: it implements SendLedger, it never sends for a day at or    *)
(* before one it has sent for, and it clears only the reminder it has      *)
(* settled.  And it loses no wake.                                         *)
(***************************************************************************)
EXTENDS Digest, TLAPS

-----------------------------------------------------------------------------
(* What the job relies on about the calendar arithmetic of Hour, for every *)
(* length of the hour and the day and every set of timezones.              *)


(* A day has at least one tick, and an hour is no longer than a day.        *)
LEMMA DayTicksType == DayTicks \in Nat \ {0} /\ maxLate \in Nat \ {0} /\ maxLate <= DayTicks
<1>1. \A a, b \in Nat \ {0} : a * b \in Nat /\ a * b >= b
  OBVIOUS
<1> QED
  BY <1>1, HourAssumption DEF DayTicks, maxLate

(* What ZonesAssumption says of one timezone.                               *)
LEMMA ZoneType ==
    ASSUME NEW z \in Zones
    PROVE  /\ z.before \in Int /\ z.at \in Nat /\ z.after \in Int
           /\ z.before < DayTicks /\ - DayTicks < z.before
           /\ z.after < DayTicks /\ - DayTicks < z.after
           /\ z.before - z.after < DayTicks /\ z.after - z.before < DayTicks
<1>1. z.before \in Int /\ z.at \in Nat /\ z.after \in Int
  BY ZonesAssumption DEF Zone
<1>2. /\ {z.before, z.after} \subseteq 1 - DayTicks .. DayTicks - 1
      /\ z.before - z.after < DayTicks /\ z.after - z.before < DayTicks
  BY ZonesAssumption
<1> QED
  BY <1>1, <1>2, DayTicksType

(* The offset in force is one of the zone's two.                            *)
LEMMA OffsetType ==
    ASSUME NEW z \in Zones, NEW t \in Int
    PROVE  Offset(z, t) \in Int /\ Offset(z, t) < DayTicks /\ - DayTicks < Offset(z, t)
BY ZoneType DEF Offset

(* The quotient brackets the dividend.                                      *)
LEMMA Quotient ==
    ASSUME NEW n \in Int, NEW d \in Nat \ {0}
    PROVE  /\ n \div d \in Int
           /\ (n \div d) * d <= n
           /\ n < (n \div d) * d + d
<1>1. n \div d \in Int /\ n % d \in 0 .. d - 1 /\ n = d * (n \div d) + (n % d)
  OBVIOUS
<1>2. \A q \in Int : d * q = q * d /\ q * d \in Int
  OBVIOUS
<1> QED
  BY <1>1, <1>2

(* A larger factor gives a product larger by at least the other factor.     *)
LEMMA ProductMono ==
    ASSUME NEW a \in Int, NEW b \in Int, NEW d \in Nat \ {0}, a < b
    PROVE  a * d + d <= b * d
<1>1. \A k \in Nat \ {0} : k * d >= d
  OBVIOUS
<1>2. b - a \in Nat \ {0}
  OBVIOUS
<1>3. (b - a) * d >= d
  BY <1>1, <1>2
<1>4. (b - a) * d = b * d - a * d
  OBVIOUS
<1>5. a * d \in Int /\ b * d \in Int
  OBVIOUS
<1> QED
  BY <1>3, <1>4, <1>5

(* Division is monotone.                                                    *)
LEMMA QuotientMono ==
    ASSUME NEW a \in Int, NEW b \in Int, NEW d \in Nat \ {0}, a <= b
    PROVE  a \div d <= b \div d
<1> DEFINE p == a \div d
           q == b \div d
<1>1. p \in Int /\ p * d <= a
  BY Quotient
<1>2. q \in Int /\ b < q * d + d
  BY Quotient
<1>3. SUFFICES ASSUME q < p PROVE FALSE
  BY <1>1, <1>2
<1> HIDE DEF p, q
<1>4. q * d + d <= p * d
  BY <1>1, <1>2, <1>3, ProductMono
<1>5. p * d \in Int /\ q * d \in Int
  BY <1>1, <1>2
<1> QED
  BY <1>1, <1>2, <1>4, <1>5

(* A day's wall times are integers.                                         *)
LEMMA WallType ==
    ASSUME NEW day \in Int, NEW h \in Nat
    PROVE  Wall(day, h) \in Int /\ Wall(day, h) >= day * DayTicks
<1>1. \A a \in Int : \A d \in Nat : a * d \in Int
  OBVIOUS
<1>2. \A a, d \in Nat : a * d \in Nat
  OBVIOUS
<1>3. day * DayTicks \in Int /\ h * HourTicks \in Nat
  BY <1>1, <1>2, DayTicksType, HourAssumption
<1> QED
  BY <1>3 DEF Wall

(* Wall times of one hour on two days are at least a day apart.             *)
LEMMA WallMono ==
    ASSUME NEW a \in Int, NEW b \in Int, NEW h \in Nat, a < b
    PROVE  Wall(a, h) + DayTicks <= Wall(b, h)
<1>1. a * DayTicks + DayTicks <= b * DayTicks
  BY ProductMono, DayTicksType
<1>2. a * DayTicks \in Int /\ b * DayTicks \in Int /\ h * HourTicks \in Int
  BY DayTicksType, HourAssumption
<1> QED
  BY <1>1, <1>2, DayTicksType DEF Wall

(* The local day never goes back (LocalDay).                                *)
LEMMA LocalDayMono ==
    ASSUME NEW z \in Zones, NEW t \in Int, NEW u \in Int, t <= u
    PROVE  /\ LocalDay(z, t) \in Int
           /\ LocalDay(z, t) <= LocalDay(z, u)
<1> DEFINE D == DayTicks
           b == z.before
           a == z.after
           c == z.at
<1>1. D \in Nat \ {0} /\ b \in Int /\ a \in Int /\ c \in Int
  BY DayTicksType, ZoneType
<1>2. (c + b - 1) \div D <= (c + a) \div D
  BY ZonesAssumption
<1>3. /\ LocalDay(z, t) = IF t < c THEN (t + b) \div D ELSE (t + a) \div D
      /\ LocalDay(z, u) = IF u < c THEN (u + b) \div D ELSE (u + a) \div D
  BY DEF LocalDay, Offset
<1> HIDE DEF D, b, a, c
<1>4. \A n \in Int : n \div D \in Int
  BY <1>1, Quotient
<1>5. \A x, y \in Int : x <= y => x \div D <= y \div D
  BY <1>1, QuotientMono
<1>6. LocalDay(z, t) \in Int
  BY <1>1, <1>3, <1>4
<1>7. CASE u < c
  BY <1>1, <1>3, <1>5, <1>6, <1>7
<1>8. CASE t >= c
  BY <1>1, <1>3, <1>5, <1>6, <1>8
<1>9. CASE t < c /\ u >= c
  <2>1. (t + b) \div D <= (c + b - 1) \div D
    BY <1>1, <1>5, <1>9
  <2>2. (c + a) \div D <= (u + a) \div D
    BY <1>1, <1>5, <1>9
  <2>3. /\ (t + b) \div D \in Int /\ (c + b - 1) \div D \in Int
        /\ (c + a) \div D \in Int /\ (u + a) \div D \in Int
    BY <1>1, <1>4
  <2> QED
    BY <1>1, <1>2, <1>3, <1>9, <2>1, <2>2, <2>3
<1> QED
  BY <1>1, <1>7, <1>8, <1>9

(* An instant no other precedes is the earliest.                            *)
LEMMA EarliestIs ==
    ASSUME NEW S, S \subseteq Int, NEW x \in S, \A y \in S : x <= y
    PROVE  Earliest(S) = x
<1>1. \A t \in S : (\A u \in S : t <= u) <=> t = x
  OBVIOUS
<1> QED
  BY <1>1 DEF Earliest

(* Likewise the latest.                                                     *)
LEMMA LatestIs ==
    ASSUME NEW S, S \subseteq Int, NEW x \in S, \A y \in S : y <= x
    PROVE  Latest(S) = x
<1>1. \A t \in S : (\A u \in S : u <= t) <=> t = x
  OBVIOUS
<1> QED
  BY <1>1 DEF Latest

(* instantOf in closed form: the wall time under the offset before the      *)
(* change when that is before it, else under the one after, else, in the    *)
(* gap, the change itself (instantOf, hour.go).                             *)
LEMMA InstantForm ==
    ASSUME NEW z \in Zones, NEW day \in Int, NEW h \in Nat
    PROVE  instantOf(z, day, h) =
             LET w == Wall(day, h)
             IN IF w - z.before < z.at THEN w - z.before
                ELSE IF w - z.after >= z.at THEN w - z.after
                ELSE z.at
<1> DEFINE w == Wall(day, h)
           D == DayTicks
           b == z.before
           a == z.after
           c == z.at
           O(t) == IF t < c THEN b ELSE a
           C == Candidates(z, day, h)
           V == {t \in C : Reads(z, t, day, h)}
<1>1. /\ D \in Nat \ {0} /\ b \in Int /\ a \in Int /\ c \in Int /\ w \in Int
      /\ b < D /\ -D < b /\ a < D /\ -D < a
  <2>1. w \in Int
    BY WallType
  <2> QED
    BY <2>1, DayTicksType, ZoneType
<1>2. \A t \in Int : Offset(z, t) = O(t)
  BY DEF Offset
<1>3. C = {w - O(w - D), w - O(w), w - O(w + D)}
  <2>1. C = {w - Offset(z, w - D), w - Offset(z, w), w - Offset(z, w + D)}
    BY DEF Candidates
  <2> QED
    BY <1>1, <1>2, <2>1
<1>4. V = {t \in C : t + O(t) = w}
  <2>1. \A t \in C : t \in Int
    BY <1>1, <1>3
  <2> QED
    BY <1>2, <2>1 DEF Reads
<1>5. instantOf(z, day, h) = IF V # {} THEN Earliest(V)
                                ELSE OffsetChange(z, Earliest(C), Latest(C))
  BY DEF instantOf
<1> HIDE DEF w, D, b, a, c, C, V
<1>8. C \subseteq Int /\ V \subseteq C
  BY <1>1, <1>3, <1>4
<1>9. CASE w - b < c
  <2>1. w - b \in V
    BY <1>1, <1>3, <1>4, <1>9
  <2>2. \A y \in V : w - b <= y
    BY <1>1, <1>3, <1>4, <1>9
  <2>3. Earliest(V) = w - b
    BY <1>8, <2>1, <2>2, EarliestIs
  <2> QED
    BY <1>5, <1>9, <2>1, <2>3 DEF w, b, c
<1>10. CASE ~(w - b < c) /\ w - a >= c
  <2>1. w - a \in V
    BY <1>1, <1>3, <1>4, <1>10
  <2>2. \A y \in V : w - a <= y
    BY <1>1, <1>3, <1>4, <1>10
  <2>3. Earliest(V) = w - a
    BY <1>8, <2>1, <2>2, EarliestIs
  <2> QED
    BY <1>5, <1>10, <2>1, <2>3 DEF w, a, b, c
<1>11. CASE ~(w - b < c) /\ ~(w - a >= c)
  <2>1. V = {}
    BY <1>1, <1>3, <1>4, <1>11
  <2>2. C = {w - a, w - b}
    BY <1>1, <1>3, <1>11
  <2>3. Earliest(C) = w - a /\ Latest(C) = w - b
    <3>1. w - a \in C /\ w - b \in C /\ \A y \in C : w - a <= y /\ y <= w - b
      BY <1>1, <1>11, <2>2
    <3> QED
      BY <1>8, <3>1, EarliestIs, LatestIs
  <2> DEFINE P(t) == /\ Offset(z, t) = Offset(z, w - b)
                     /\ Offset(z, t - 1) # Offset(z, w - b)
  <2>4. \A t \in w - a + 1 .. w - b : P(t) <=> t = c
    BY <1>1, <1>2, <1>11
  <2>5. c \in w - a + 1 .. w - b
    BY <1>1, <1>11
  <2>6. OffsetChange(z, w - a, w - b) = CHOOSE t \in w - a + 1 .. w - b : P(t)
    BY DEF OffsetChange
  <2> HIDE DEF P
  <2>7. OffsetChange(z, w - a, w - b) = c
    BY <2>4, <2>5, <2>6
  <2> QED
    BY <1>5, <1>11, <2>1, <2>3, <2>7 DEF w, a, b, c
<1> QED
  BY <1>9, <1>10, <1>11

(* What the proofs use of instantOf: it is an instant, it is later on a     *)
(* later day, and at it the local clock has reached the hour.               *)
LEMMA InstantType ==
    ASSUME NEW z \in Zones, NEW day \in Int, NEW h \in Nat
    PROVE  /\ instantOf(z, day, h) \in Int
           /\ instantOf(z, day, h) + Offset(z, instantOf(z, day, h)) >= Wall(day, h)
<1> DEFINE w == Wall(day, h)
           b == z.before
           a == z.after
           c == z.at
           i == instantOf(z, day, h)
<1>1. b \in Int /\ a \in Int /\ c \in Int /\ w \in Int
  BY ZoneType, WallType
<1>2. i = IF w - b < c THEN w - b ELSE IF w - a >= c THEN w - a ELSE c
  BY InstantForm
<1>3. Offset(z, i) = IF i < c THEN b ELSE a
  BY DEF Offset
<1> HIDE DEF w, b, a, c, i
<1>4. i \in Int /\ i + Offset(z, i) >= w
  BY <1>1, <1>2, <1>3
<1> QED
  BY <1>4 DEF i, w

(* A later day's hour is a later instant.                                   *)
LEMMA InstantMono ==
    ASSUME NEW z \in Zones, NEW d \in Int, NEW e \in Int, NEW h \in Nat, d < e
    PROVE  instantOf(z, d, h) < instantOf(z, e, h)
<1> DEFINE v == Wall(d, h)
           w == Wall(e, h)
           D == DayTicks
           b == z.before
           a == z.after
           c == z.at
           i == instantOf(z, d, h)
           j == instantOf(z, e, h)
<1>1. /\ D \in Nat \ {0} /\ b \in Int /\ a \in Int /\ c \in Int /\ v \in Int /\ w \in Int
      /\ b - a < D /\ a - b < D
  <2>1. v \in Int /\ w \in Int
    BY WallType
  <2> QED
    BY <2>1, DayTicksType, ZoneType
<1>2. v + D <= w
  BY WallMono
<1>3. i = IF v - b < c THEN v - b ELSE IF v - a >= c THEN v - a ELSE c
  BY InstantForm
<1>4. j = IF w - b < c THEN w - b ELSE IF w - a >= c THEN w - a ELSE c
  BY InstantForm
<1> HIDE DEF v, w, D, b, a, c, i, j
<1>5. i < j
  BY <1>1, <1>2, <1>3, <1>4
<1> QED
  BY <1>5 DEF i, j

(* The hour of the day after tomorrow has not passed, so the loop of        *)
(* nextDigest ends there at the latest.                                     *)
LEMMA LaterDayNotTooLate ==
    ASSUME NEW z \in Zones, NEW t \in Int, NEW h \in Nat,
           NEW day \in Int, day >= LocalDay(z, t) + LookAhead
    PROVE  NotTooLate(z, day, h, t)
<1> DEFINE D == DayTicks
           i == instantOf(z, day, h)
           w == Wall(day, h)
           q == LocalDay(z, t)
<1>1. D \in Nat \ {0} /\ maxLate \in Nat \ {0}
  BY DayTicksType
<1>2. i \in Int /\ i + Offset(z, i) >= w /\ w \in Int
  BY InstantType, WallType
<1>3. Offset(z, t) \in Int /\ Offset(z, i) \in Int
  BY <1>2, OffsetType
<1>4. Offset(z, i) - Offset(z, t) < D
  BY ZoneType, DayTicksType DEF Offset
<1>5. q \in Int /\ t + Offset(z, t) < q * D + D
  <2> DEFINE n == t + Offset(z, t)
  <2>1. n \in Int
    BY <1>3
  <2>2. q = n \div D
    BY DEF LocalDay
  <2> HIDE DEF n, D, q
  <2>3. q \in Int /\ n < q * D + D
    BY <1>1, <2>1, <2>2, Quotient
  <2> QED
    BY <2>3 DEF n
<1> HIDE DEF i, w, D, q
<1>6. q + 1 < day /\ q + 1 \in Int
  BY <1>5 DEF q, LookAhead
<1>7. (q + 1) * D + D <= day * D
  BY <1>1, <1>6, ProductMono
<1>8. (q + 1) * D = q * D + D /\ q * D \in Int /\ day * D \in Int
  BY <1>1, <1>5
<1>9. w >= day * D
  BY WallType DEF w, D
<1>10. i >= t
  BY <1>1, <1>2, <1>3, <1>4, <1>5, <1>7, <1>8, <1>9
<1> QED
  BY <1>1, <1>2, <1>10 DEF NotTooLate, i

(* nextDay is the least day the search may stop at.                         *)
LEMMA NextDayIsLeast ==
    ASSUME NEW z \in Zones, NEW t \in Int, NEW h \in Nat, NEW sent \in Int
    PROVE  LET first == FirstDay(z, sent, t)
               day == nextDay(h, z, sent, t)
           IN /\ first \in Int /\ day \in Int
              /\ first <= day
              /\ NotTooLate(z, day, h, t)
              /\ \A e \in Int : first <= e /\ e < day => ~NotTooLate(z, e, h, t)
<1> DEFINE f == FirstDay(z, sent, t)
           N(e) == NotTooLate(z, e, h, t)
           P(e) == N(e) /\ \A k \in f .. e - 1 : ~N(k)
<1>1. f \in Int /\ f >= LocalDay(z, t) /\ LocalDay(z, t) \in Int
  BY LocalDayMono DEF FirstDay
<1>2. N(f + 2)
  BY <1>1, LaterDayNotTooLate DEF LookAhead
<1>3. nextDay(h, z, sent, t) = CHOOSE e \in f .. f + 2 : P(e)
  BY DEF nextDay, LookAhead
<1> HIDE DEF f, N
<1>4. \E e \in f .. f + 2 : P(e)
  <2>1. CASE N(f)
    BY <1>1, <2>1
  <2>2. CASE ~N(f) /\ N(f + 1)
    BY <1>1, <2>2
  <2>3. CASE ~N(f) /\ ~N(f + 1)
    <3>1. \A k \in f .. (f + 2) - 1 : k = f \/ k = f + 1
      BY <1>1
    <3>2. \A k \in f .. (f + 2) - 1 : ~N(k)
      BY <2>3, <3>1
    <3>3. P(f + 2)
      BY <1>2, <3>2
    <3> QED
      BY <1>1, <3>3
  <2> QED
    BY <2>1, <2>2, <2>3
<1> DEFINE d == nextDay(h, z, sent, t)
<1>5. d \in f .. f + 2 /\ P(d)
  BY <1>3, <1>4
<1> HIDE DEF d
<1>6. d \in Int /\ f <= d /\ N(d) /\ \A e \in Int : f <= e /\ e < d => ~N(e)
  BY <1>1, <1>5
<1> QED
  BY <1>1, <1>6 DEF d, f, N

(* A digest is never for a day already sent for, nor for a day before       *)
(* today, and its instant is less than maxLate past.                        *)
LEMMA NextDayType ==
    ASSUME NEW z \in Zones, NEW t \in Int, NEW h \in Nat, NEW sent \in Int
    PROVE  /\ nextDay(h, z, sent, t) \in Int
           /\ nextDay(h, z, sent, t) > sent
           /\ nextDay(h, z, sent, t) >= LocalDay(z, t)
           /\ nextDigest(h, z, sent, t) \in Int
           /\ nextDigest(h, z, sent, t) > t - maxLate
<1> DEFINE d == nextDay(h, z, sent, t)
           f == FirstDay(z, sent, t)
<1>1. d \in Int /\ f \in Int /\ f <= d /\ NotTooLate(z, d, h, t)
  BY NextDayIsLeast
<1>2. f > sent /\ f >= LocalDay(z, t) /\ LocalDay(z, t) \in Int
  BY LocalDayMono DEF FirstDay
<1>3. nextDigest(h, z, sent, t) = instantOf(z, d, h)
  BY DEF nextDigest
<1>4. instantOf(z, d, h) \in Int
  BY <1>1, InstantType
<1> HIDE DEF d, f
<1>5. d > sent /\ d >= LocalDay(z, t)
  BY <1>1, <1>2
<1>6. instantOf(z, d, h) > t - maxLate
  BY <1>1, <1>4, DayTicksType DEF NotTooLate
<1> QED
  BY <1>1, <1>3, <1>4, <1>5, <1>6 DEF d

(* From a day's local midnight on, the day is a natural number.             *)
LEMMA LocalDayNat ==
    ASSUME NEW z \in Zones, NEW t \in Int, t >= DayTicks
    PROVE  LocalDay(z, t) \in Nat
<1> DEFINE n == t + Offset(z, t)
           D == DayTicks
           q == n \div D
<1>1. n \in Int /\ n > 0 /\ D \in Nat \ {0}
  BY OffsetType, DayTicksType
<1>2. q \in Int /\ n < q * D + D
  BY <1>1, Quotient
<1>3. LocalDay(z, t) = q
  BY DEF LocalDay
<1> HIDE DEF n, D, q
<1>4. q >= 0
  <2> SUFFICES ASSUME q < 0 PROVE FALSE
    BY <1>2
  <2>1. q * D + D <= 0 * D
    BY <1>1, <1>2, ProductMono
  <2>2. 0 * D = 0 /\ q * D \in Int
    BY <1>1, <1>2
  <2> QED
    BY <1>1, <1>2, <2>1, <2>2
<1> QED
  BY <1>2, <1>3, <1>4

(* With the settings and the ledger unchanged, a later look finds the next  *)
(* digest no earlier: a timer set for it never has to be moved forward.     *)
THEOREM NextDigestMono ==
    ASSUME NEW z \in Zones, NEW t \in Int, NEW u \in Int, t <= u,
           NEW h \in Nat, NEW sent \in Int
    PROVE  nextDigest(h, z, sent, t) <= nextDigest(h, z, sent, u)
<1> DEFINE d == nextDay(h, z, sent, t)
           e == nextDay(h, z, sent, u)
           f == FirstDay(z, sent, t)
           g == FirstDay(z, sent, u)
<1>1. /\ d \in Int /\ f \in Int /\ f <= d
      /\ \A k \in Int : f <= k /\ k < d => ~NotTooLate(z, k, h, t)
  BY NextDayIsLeast
<1>2. e \in Int /\ g \in Int /\ g <= e /\ NotTooLate(z, e, h, u)
  BY NextDayIsLeast
<1>3. f <= g
  BY LocalDayMono DEF FirstDay
<1>4. instantOf(z, e, h) \in Int /\ instantOf(z, d, h) \in Int
  BY <1>1, <1>2, InstantType
<1>5. nextDigest(h, z, sent, t) = instantOf(z, d, h)
  BY DEF nextDigest
<1>6. nextDigest(h, z, sent, u) = instantOf(z, e, h)
  BY DEF nextDigest
<1> HIDE DEF d, e, f, g
<1>7. NotTooLate(z, e, h, t)
  BY <1>2, <1>4, DayTicksType DEF NotTooLate
<1>8. d <= e
  BY <1>1, <1>2, <1>3, <1>7
<1>9. CASE d = e
  BY <1>4, <1>5, <1>6, <1>9
<1>10. CASE d < e
  <2>1. instantOf(z, d, h) < instantOf(z, e, h)
    BY <1>1, <1>2, <1>10, InstantMono
  <2> QED
    BY <1>4, <1>5, <1>6, <2>1
<1> QED
  BY <1>1, <1>2, <1>8, <1>9, <1>10

-----------------------------------------------------------------------------
(* TypeOK needs two more facts to be inductive.                            *)

\* The digest keys of a member have a latest one, as MAX(key) needs.
LedgerMax ==
    \A m \in Members :
        DigestKeys(m) = {} \/ \E k \in DigestKeys(m) : \A j \in DigestKeys(m) : j <= k

\* A transaction is open while the job delivers.
TxOpen == tx.open <=> pc = "deliver"

TypeInv == TypeOK /\ LedgerMax /\ TxOpen

-----------------------------------------------------------------------------
(* Types.                                                                  *)

(* The hours and times in the rows are naturals.                            *)
LEMMA ConstantTypes ==
    /\ Hours \subseteq Nat
    /\ DefaultHour \in Hours
    /\ StartTime \in Nat /\ MaxTime \in Nat
    /\ Time \subseteq Nat
    /\ EndTimes \subseteq Nat
    /\ RetryAfter \in Nat \ {0}
    /\ NoTime = -1 /\ NoDay = -1 /\ NoTime \in Int
    /\ UserOf \in [Members -> Users]
    /\ \A t \in Time : t >= DayTicks
BY JobAssumption, HourAssumption, DigestAssumption, DayTicksType DEF Time, NoTime, NoDay

(* soonest is no later than either instant, unless one is missing.          *)
LEMMA SoonestType ==
    ASSUME NEW n \in Int, NEW at \in Nat
    PROVE  /\ soonest(n, at) \in Int /\ soonest(n, at) # NoTime /\ soonest(n, at) <= at
           /\ n # NoTime => soonest(n, at) <= n
BY ConstantTypes DEF soonest

(* The records an action builds have the types of the variables.            *)
LEMMA TxTypes ==
    /\ \A m \in Members, kind \in {digestKind, reminderKind}, key \in Nat :
          [m |-> m, kind |-> kind, key |-> key] \in Send
    /\ \A s \in Send, c \in BOOLEAN, n \in Int, T, G \in SUBSET Browsers :
          [open |-> TRUE, send |-> s, cleared |-> c, then |-> n, todo |-> T, gone |-> G] \in Tx
    /\ \A x \in Tx : /\ x.open /\ x.send \in Send /\ x.cleared \in BOOLEAN /\ x.then \in Int
                     /\ x.todo \in SUBSET Browsers /\ x.gone \in SUBSET Browsers
    /\ \A s \in Send : s.m \in Members /\ s.kind \in {digestKind, reminderKind} /\ s.key \in Nat
    /\ ~NoTx.open
BY DEF Send, Tx, NoTx

(* An open transaction is a Tx record.                                      *)
LEMMA OpenTx ==
    ASSUME TypeInv
    PROVE  tx.open => tx \in Tx
BY TxTypes DEF TypeInv, TypeOK, SendTypes

(* SentThrough is a day or NoDay, and the latest key.                       *)
LEMMA SentThroughType ==
    ASSUME TypeInv, NEW m \in Members
    PROVE  /\ DigestKeys(m) \subseteq Nat
           /\ SentThrough(m) \in Nat \cup {NoDay}
           /\ SentThrough(m) \in Int
           /\ \A k \in DigestKeys(m) : k <= SentThrough(m)
<1>1. DigestKeys(m) \subseteq Nat
  BY TxTypes DEF TypeInv, TypeOK, SendTypes, DigestKeys
<1>2. CASE DigestKeys(m) = {}
  BY <1>1, <1>2, ConstantTypes DEF SentThrough
<1>3. CASE DigestKeys(m) # {}
  <2>1. \E k \in DigestKeys(m) : \A j \in DigestKeys(m) : j <= k
    BY <1>3 DEF TypeInv, LedgerMax
  <2>2. SentThrough(m) \in DigestKeys(m) /\ \A j \in DigestKeys(m) : j <= SentThrough(m)
    BY <1>3, <2>1 DEF SentThrough
  <2> QED
    BY <1>1, <2>2
<1> QED
  BY <1>2, <1>3

(* A digest the look computes has a natural number as its key and as its    *)
(* instant, and the key is after the days sent for.                         *)
LEMMA NextTypes ==
    ASSUME NEW h \in Hours, NEW z \in Zones, NEW sent \in Nat \cup {NoDay}, NEW t \in Time
    PROVE  /\ nextDay(h, z, sent, t) \in Nat
           /\ nextDay(h, z, sent, t) > sent
           /\ nextDigest(h, z, sent, t) \in Nat
<1>1. h \in Nat /\ sent \in Int /\ t \in Int /\ t >= DayTicks
  BY ConstantTypes
<1>2. LocalDay(z, t) \in Nat
  BY <1>1, LocalDayNat
<1>3. /\ nextDay(h, z, sent, t) \in Int
      /\ nextDay(h, z, sent, t) > sent
      /\ nextDay(h, z, sent, t) >= LocalDay(z, t)
      /\ nextDigest(h, z, sent, t) \in Int
      /\ nextDigest(h, z, sent, t) > t - maxLate
  BY <1>1, NextDayType
<1> QED
  BY <1>1, <1>2, <1>3, DayTicksType

(* The keys keep a latest one when a send is added and when those of some   *)
(* memberships go.                                                          *)
LEMMA LedgerMaxAdd ==
    ASSUME TypeInv, NEW s \in Send, ledger' = ledger \cup {s}
    PROVE  LedgerMax'
<1> SUFFICES ASSUME NEW m \in Members
             PROVE  \/ DigestKeys(m)' = {}
                    \/ \E k \in DigestKeys(m)' : \A j \in DigestKeys(m)' : j <= k
  BY DEF LedgerMax
<1>1. DigestKeys(m) \subseteq Nat /\ s.key \in Nat
  BY SentThroughType, TxTypes
<1>2. DigestKeys(m) = {} \/ \E k \in DigestKeys(m) : \A j \in DigestKeys(m) : j <= k
  BY DEF TypeInv, LedgerMax
<1>3. DigestKeys(m)' = IF s.m = m /\ s.kind = digestKind THEN DigestKeys(m) \cup {s.key}
                                                         ELSE DigestKeys(m)
  BY DEF DigestKeys
<1> QED
  BY <1>1, <1>2, <1>3

(* Likewise when memberships are deleted.                                   *)
LEMMA LedgerMaxDelete ==
    ASSUME TypeInv, NEW M, ledger' = {s \in ledger : s.m \notin M}
    PROVE  LedgerMax'
<1> SUFFICES ASSUME NEW m \in Members
             PROVE  \/ DigestKeys(m)' = {}
                    \/ \E k \in DigestKeys(m)' : \A j \in DigestKeys(m)' : j <= k
  BY DEF LedgerMax
<1>1. DigestKeys(m)' = IF m \in M THEN {} ELSE DigestKeys(m)
  BY DEF DigestKeys
<1> QED
  BY <1>1 DEF TypeInv, LedgerMax

(* And when the ledger is left alone.                                       *)
LEMMA LedgerMaxSame ==
    ASSUME TypeInv, ledger' = ledger
    PROVE  LedgerMax'
BY DEF TypeInv, LedgerMax, DigestKeys

(* A row of the list of reminders, and the send it asks for.                *)
LEMMA ReminderRow ==
    ASSUME TypeInv, NEW r \in reminders
    PROVE  /\ r.m \in Members /\ r.at \in Time /\ r.at \in Nat
           /\ [m |-> r.m, kind |-> reminderKind, key |-> r.at] \in Send
<1>1. r.m \in Members /\ r.at \in Time
  BY DEF TypeInv, TypeOK, SendTypes
<1> QED
  BY <1>1, TxTypes, ConstantTypes

(* A row of the list of members, and what the look computes from it.        *)
LEMMA MemberRow ==
    ASSUME TypeInv, NEW r \in members
    PROVE  /\ r.m \in Members /\ r.hour \in Hours /\ r.zone \in Zones
           /\ r.sent \in Nat \cup {NoDay}
           /\ DigestKey(r) \in Nat /\ DigestKey(r) > r.sent
           /\ DigestAt(r) \in Nat
           /\ DigestAfter(r, DigestKey(r)) \in Nat /\ DigestAfter(r, DigestKey(r)) \in Int
           /\ [m |-> r.m, kind |-> digestKind, key |-> DigestKey(r)] \in Send
<1>1. r.m \in Members /\ r.hour \in Hours /\ r.zone \in Zones /\ r.sent \in Nat \cup {NoDay}
  BY DEF TypeInv, TypeOK, SendTypes
<1>2. lookNow \in Time
  BY ConstantTypes DEF TypeInv, TypeOK, JobTypes, Time
<1>3. DigestKey(r) \in Nat /\ DigestKey(r) > r.sent /\ DigestAt(r) \in Nat
  BY <1>1, <1>2, NextTypes DEF DigestKey, DigestAt
<1>4. DigestAfter(r, DigestKey(r)) \in Nat
  BY <1>1, <1>2, <1>3, NextTypes DEF DigestAfter
<1> QED
  BY <1>1, <1>3, <1>4, TxTypes

(* What is left of a step's type correctness after its own assignments.     *)
LEMMA TypeParts ==
    ASSUME JobTypes', RowTypes', SendTypes', BoundTypes', LedgerMax', TxOpen'
    PROVE  TypeInv'
BY DEF TypeInv, TypeOK

(* Every step of the job keeps the types.                                   *)
LEMMA JobStepType == TypeInv /\ JobStep => TypeInv'
<1> SUFFICES ASSUME TypeInv, JobStep PROVE TypeInv'
  OBVIOUS
<1> USE ConstantTypes DEF jobVars, wakeVars, memberVars, accountVars, listVars, bounds
<1>0. JobTypes /\ RowTypes /\ SendTypes /\ BoundTypes /\ LedgerMax /\ TxOpen
  BY DEF TypeInv, TypeOK
<1> USE <1>0
<1>1. CASE ListReminders
  <2>1. JobTypes'
    <3>1. lookNow' \in StartTime .. now'
      BY <1>1 DEF ListReminders, JobTypes, Time
    <3> QED
      BY <1>1, <3>1 DEF ListReminders, JobTypes
  <2>2. RowTypes'
    BY <1>1 DEF ListReminders, RowTypes
  <2>3. SendTypes'
    <3>1. \A m \in Members : Waiting(m, now) => remind[m] \in Time
      BY DEF Waiting, RowTypes
    <3>2. reminders' \subseteq [m : Members, at : Time]
      BY <1>1, <3>1 DEF ListReminders
    <3> QED
      BY <1>1, <3>2 DEF ListReminders, SendTypes
  <2>4. BoundTypes'
    BY <1>1 DEF ListReminders, BoundTypes
  <2>5. LedgerMax'
    BY <1>1, LedgerMaxSame DEF ListReminders
  <2>6. TxOpen'
    BY <1>1, TxTypes DEF ListReminders, TxOpen, ResumeAt
  <2> QED
    BY <2>1, <2>2, <2>3, <2>4, <2>5, <2>6, TypeParts
<1>2. CASE ReminderNotDue
  <2>1. JobTypes'
    BY <1>2 DEF ReminderNotDue, soonest, SendTypes, JobTypes
  <2>2. RowTypes'
    BY <1>2 DEF ReminderNotDue, RowTypes
  <2>3. SendTypes'
    BY <1>2 DEF ReminderNotDue, SendTypes
  <2>4. BoundTypes'
    BY <1>2 DEF ReminderNotDue, BoundTypes
  <2>5. LedgerMax'
    BY <1>2, LedgerMaxSame DEF ReminderNotDue
  <2>6. TxOpen'
    BY <1>2, TxTypes DEF ReminderNotDue, TxOpen, ResumeAt
  <2> QED
    BY <2>1, <2>2, <2>3, <2>4, <2>5, <2>6, TypeParts
<1>3. CASE SettleReminder
  <2>1. JobTypes'
    BY <1>3 DEF SettleReminder, JobTypes
  <2>2. RowTypes'
    BY <1>3 DEF SettleReminder, SendTypes, ClearReminder, RowTypes
  <2>3. SendTypes'
    <3>1. ledger' \subseteq Send
      BY <1>3, ReminderRow DEF SettleReminder, SendTypes
    <3> QED
      BY <1>3, <3>1 DEF SettleReminder, SendTypes
  <2>4. BoundTypes'
    BY <1>3 DEF SettleReminder, BoundTypes
  <2>5. LedgerMax'
    <3>1. \E s \in Send : ledger' = ledger \cup {s}
      BY <1>3, ReminderRow DEF SettleReminder
    <3> QED
      BY <3>1, LedgerMaxAdd
  <2>6. TxOpen'
    BY <1>3, TxTypes DEF SettleReminder, TxOpen, ResumeAt
  <2> QED
    BY <2>1, <2>2, <2>3, <2>4, <2>5, <2>6, TypeParts
<1>4. CASE SendReminder
  <2>1. JobTypes'
    BY <1>4 DEF SendReminder, JobTypes
  <2>2. RowTypes'
    BY <1>4 DEF SendReminder, RowTypes
  <2>3. SendTypes'
    <3>1. tx' \in Tx
      <4>1. PICK r \in reminders :
              tx' = [open |-> TRUE, send |-> [m |-> r.m, kind |-> reminderKind, key |-> r.at],
                     cleared |-> remind[r.m] = r.at, then |-> NoTime,
                     todo |-> BrowsersOf(UserOf[r.m]), gone |-> {}]
        BY <1>4 DEF SendReminder
      <4>2. BrowsersOf(UserOf[r.m]) \in SUBSET Browsers /\ (remind[r.m] = r.at) \in BOOLEAN
        BY DEF BrowsersOf
      <4> QED
        BY <4>1, <4>2, ReminderRow, TxTypes, Zenon
    <3> QED
      BY <1>4, <3>1 DEF SendReminder, SendTypes
  <2>4. BoundTypes'
    BY <1>4 DEF SendReminder, BoundTypes
  <2>5. LedgerMax'
    BY <1>4, LedgerMaxSame DEF SendReminder
  <2>6. TxOpen'
    BY <1>4, TxTypes DEF SendReminder, TxOpen, ResumeAt
  <2> QED
    BY <2>1, <2>2, <2>3, <2>4, <2>5, <2>6, TypeParts
<1>5. CASE ListMembers
  <2>1. JobTypes'
    BY <1>5 DEF ListMembers, JobTypes
  <2>2. RowTypes'
    BY <1>5 DEF ListMembers, RowTypes
  <2>3. SendTypes'
    BY <1>5, SentThroughType DEF ListMembers, RowTypes, Subscribed, SendTypes
  <2>4. BoundTypes'
    BY <1>5 DEF ListMembers, BoundTypes
  <2>5. LedgerMax'
    BY <1>5, LedgerMaxSame DEF ListMembers
  <2>6. TxOpen'
    BY <1>5, TxTypes DEF ListMembers, TxOpen, ResumeAt
  <2> QED
    BY <2>1, <2>2, <2>3, <2>4, <2>5, <2>6, TypeParts
<1>6. CASE DigestNotDue
  <2>1. JobTypes'
    <3>1. next' \in Int
      BY <1>6, MemberRow, SoonestType DEF DigestNotDue, JobTypes
    <3> QED
      BY <1>6, <3>1 DEF DigestNotDue, JobTypes
  <2>2. RowTypes'
    BY <1>6 DEF DigestNotDue, RowTypes
  <2>3. SendTypes'
    BY <1>6 DEF DigestNotDue, SendTypes
  <2>4. BoundTypes'
    BY <1>6 DEF DigestNotDue, BoundTypes
  <2>5. LedgerMax'
    BY <1>6, LedgerMaxSame DEF DigestNotDue
  <2>6. TxOpen'
    BY <1>6, TxTypes DEF DigestNotDue, TxOpen, ResumeAt
  <2> QED
    BY <2>1, <2>2, <2>3, <2>4, <2>5, <2>6, TypeParts
<1>7. CASE SettleDigest
  <2>1. JobTypes'
    <3>1. next' \in Int
      BY <1>7, MemberRow, SoonestType DEF SettleDigest, JobTypes
    <3> QED
      BY <1>7, <3>1 DEF SettleDigest, JobTypes
  <2>2. RowTypes'
    BY <1>7 DEF SettleDigest, RowTypes
  <2>3. SendTypes'
    <3>1. ledger' \subseteq Send
      BY <1>7, MemberRow DEF SettleDigest, SendTypes
    <3> QED
      BY <1>7, <3>1 DEF SettleDigest, SendTypes
  <2>4. BoundTypes'
    BY <1>7 DEF SettleDigest, BoundTypes
  <2>5. LedgerMax'
    <3>1. \E s \in Send : ledger' = ledger \cup {s}
      BY <1>7, MemberRow DEF SettleDigest
    <3> QED
      BY <3>1, LedgerMaxAdd
  <2>6. TxOpen'
    BY <1>7, TxTypes DEF SettleDigest, TxOpen, ResumeAt
  <2> QED
    BY <2>1, <2>2, <2>3, <2>4, <2>5, <2>6, TypeParts
<1>8. CASE SendDigest
  <2>1. JobTypes'
    BY <1>8 DEF SendDigest, JobTypes
  <2>2. RowTypes'
    BY <1>8 DEF SendDigest, RowTypes
  <2>3. SendTypes'
    <3>1. tx' \in Tx
      <4>1. PICK r \in members :
              tx' = [open |-> TRUE, send |-> [m |-> r.m, kind |-> digestKind, key |-> DigestKey(r)],
                     cleared |-> FALSE, then |-> DigestAfter(r, DigestKey(r)),
                     todo |-> BrowsersOf(UserOf[r.m]), gone |-> {}]
        BY <1>8 DEF SendDigest
      <4>2. BrowsersOf(UserOf[r.m]) \in SUBSET Browsers
        BY DEF BrowsersOf
      <4> QED
        BY <4>1, <4>2, MemberRow, TxTypes, Zenon
    <3> QED
      BY <1>8, <3>1 DEF SendDigest, SendTypes
  <2>4. BoundTypes'
    BY <1>8 DEF SendDigest, BoundTypes
  <2>5. LedgerMax'
    BY <1>8, LedgerMaxSame DEF SendDigest
  <2>6. TxOpen'
    BY <1>8, TxTypes DEF SendDigest, TxOpen, ResumeAt
  <2> QED
    BY <2>1, <2>2, <2>3, <2>4, <2>5, <2>6, TypeParts
<1>9. CASE EndLook
  <2>1. JobTypes'
    BY <1>9 DEF EndLook, Sleep, JobTypes
  <2>2. RowTypes'
    BY <1>9 DEF EndLook, Sleep, RowTypes
  <2>3. SendTypes'
    BY <1>9 DEF EndLook, Sleep, SendTypes
  <2>4. BoundTypes'
    BY <1>9 DEF EndLook, Sleep, BoundTypes
  <2>5. LedgerMax'
    BY <1>9, LedgerMaxSame DEF EndLook, Sleep
  <2>6. TxOpen'
    BY <1>9, TxTypes DEF EndLook, Sleep, TxOpen, ResumeAt
  <2> QED
    BY <2>1, <2>2, <2>3, <2>4, <2>5, <2>6, TypeParts
<1>10. CASE SendOne
  <2>1. JobTypes'
    BY <1>10 DEF SendOne, JobTypes
  <2>2. RowTypes'
    BY <1>10 DEF SendOne, RowTypes
  <2>3. SendTypes'
    <3>1. tx \in Tx
      BY <1>10, OpenTx DEF SendOne, TxOpen
    <3>2. PICK b \in Browsers :
            \/ tx' = [tx EXCEPT !.todo = @ \ {b}]
            \/ tx' = [tx EXCEPT !.todo = @ \ {b}, !.gone = @ \cup {b}]
      BY <1>10 DEF SendOne
    <3>3. \A T \in SUBSET Browsers : [tx EXCEPT !.todo = T] \in Tx
      BY <3>1 DEF Tx
    <3>4. \A T, G \in SUBSET Browsers : [tx EXCEPT !.todo = T, !.gone = G] \in Tx
      BY <3>1 DEF Tx
    <3>5. tx.todo \ {b} \in SUBSET Browsers /\ tx.gone \cup {b} \in SUBSET Browsers
      BY <3>1, TxTypes
    <3>6. tx' \in Tx
      BY <3>2, <3>3, <3>4, <3>5
    <3> QED
      BY <1>10, <3>6 DEF SendOne, SendTypes
  <2>4. BoundTypes'
    BY <1>10 DEF SendOne, BoundTypes
  <2>5. LedgerMax'
    BY <1>10, LedgerMaxSame DEF SendOne
  <2>6. TxOpen'
    <3>1. tx \in Tx
      BY <1>10, OpenTx DEF SendOne, TxOpen
    <3> QED
      BY <1>10, <3>1 DEF SendOne, TxOpen, Tx
  <2> QED
    BY <2>1, <2>2, <2>3, <2>4, <2>5, <2>6, TypeParts
<1>11. CASE CommitSend
  <2>1. JobTypes'
    BY <1>11, OpenTx, TxTypes DEF CommitSend, ResumeAt, soonest, JobTypes
  <2>2. RowTypes'
    BY <1>11, OpenTx, TxTypes DEF CommitSend, RowTypes
  <2>3. SendTypes'
    <3>1. tx.send \in Send
      BY <1>11, OpenTx, TxTypes DEF CommitSend, TxOpen
    <3> QED
      BY <1>11, <3>1 DEF CommitSend, SendTypes
  <2>4. BoundTypes'
    BY <1>11 DEF CommitSend, BoundTypes
  <2>5. LedgerMax'
    <3>1. tx.send \in Send
      BY <1>11, OpenTx, TxTypes DEF CommitSend, TxOpen
    <3> QED
      BY <1>11, <3>1, LedgerMaxAdd DEF CommitSend
  <2>6. TxOpen'
    BY <1>11, TxTypes DEF CommitSend, TxOpen, ResumeAt
  <2> QED
    BY <2>1, <2>2, <2>3, <2>4, <2>5, <2>6, TypeParts
<1> QED
  BY <1>1, <1>2, <1>3, <1>4, <1>5, <1>6, <1>7, <1>8, <1>9, <1>10, <1>11 DEF JobStep

(* So does every error and every step of the process.                       *)
LEMMA ProcessStepType ==
    TypeInv /\ (JobFault \/ Clock \/ Wakes \/ HandlerWakes \/ Starts \/ Stops \/ Exits) => TypeInv'
<1> SUFFICES ASSUME TypeInv, JobFault \/ Clock \/ Wakes \/ HandlerWakes \/ Starts \/ Stops \/ Exits
             PROVE TypeInv'
  OBVIOUS
<1> USE ConstantTypes DEF jobVars, wakeVars, memberVars, accountVars, listVars, bounds
<1>0. JobTypes /\ RowTypes /\ SendTypes /\ BoundTypes /\ LedgerMax /\ TxOpen
  BY DEF TypeInv, TypeOK
<1> USE <1>0
<1>1. CASE ReminderFails
  <2>1. JobTypes'
    BY <1>1 DEF ReminderFails, soonest, JobTypes
  <2>2. RowTypes'
    BY <1>1 DEF ReminderFails, RowTypes
  <2>3. SendTypes'
    BY <1>1 DEF ReminderFails, SendTypes
  <2>4. BoundTypes'
    BY <1>1, DigestAssumption DEF ReminderFails, FaultAllowed, BoundTypes
  <2>5. LedgerMax'
    BY <1>1, LedgerMaxSame DEF ReminderFails
  <2>6. TxOpen'
    BY <1>1, TxTypes DEF ReminderFails, TxOpen, ResumeAt
  <2> QED
    BY <2>1, <2>2, <2>3, <2>4, <2>5, <2>6, TypeParts
<1>2. CASE ListFails
  <2>1. JobTypes'
    BY <1>2 DEF ListFails, LookFailed, JobTypes
  <2>2. RowTypes'
    BY <1>2 DEF ListFails, LookFailed, RowTypes
  <2>3. SendTypes'
    BY <1>2 DEF ListFails, LookFailed, SendTypes
  <2>4. BoundTypes'
    BY <1>2, DigestAssumption DEF ListFails, LookFailed, FaultAllowed, BoundTypes
  <2>5. LedgerMax'
    BY <1>2, LedgerMaxSame DEF ListFails, LookFailed
  <2>6. TxOpen'
    BY <1>2, TxTypes DEF ListFails, LookFailed, TxOpen, ResumeAt
  <2> QED
    BY <2>1, <2>2, <2>3, <2>4, <2>5, <2>6, TypeParts
<1>3. CASE DigestFails
  <2>1. JobTypes'
    BY <1>3 DEF DigestFails, soonest, JobTypes
  <2>2. RowTypes'
    BY <1>3 DEF DigestFails, RowTypes
  <2>3. SendTypes'
    BY <1>3 DEF DigestFails, SendTypes
  <2>4. BoundTypes'
    BY <1>3, DigestAssumption DEF DigestFails, FaultAllowed, BoundTypes
  <2>5. LedgerMax'
    BY <1>3, LedgerMaxSame DEF DigestFails
  <2>6. TxOpen'
    BY <1>3, TxTypes DEF DigestFails, TxOpen, ResumeAt
  <2> QED
    BY <2>1, <2>2, <2>3, <2>4, <2>5, <2>6, TypeParts
<1>4. CASE RollBackSend
  <2>1. JobTypes'
    BY <1>4 DEF RollBackSend, soonest, ResumeAt, JobTypes
  <2>2. RowTypes'
    BY <1>4 DEF RollBackSend, RowTypes
  <2>3. SendTypes'
    BY <1>4 DEF RollBackSend, SendTypes
  <2>4. BoundTypes'
    BY <1>4, DigestAssumption DEF RollBackSend, FaultAllowed, BoundTypes
  <2>5. LedgerMax'
    BY <1>4, LedgerMaxSame DEF RollBackSend
  <2>6. TxOpen'
    BY <1>4, TxTypes DEF RollBackSend, TxOpen, ResumeAt
  <2> QED
    BY <2>1, <2>2, <2>3, <2>4, <2>5, <2>6, TypeParts
<1>5. CASE Clock
  <2>1. JobTypes'
    BY <1>5 DEF Clock, Tick, Time, JobTypes
  <2>2. RowTypes'
    BY <1>5 DEF Clock, Tick, RowTypes
  <2>3. SendTypes'
    BY <1>5 DEF Clock, Tick, SendTypes
  <2>4. BoundTypes'
    BY <1>5 DEF Clock, Tick, BoundTypes
  <2>5. LedgerMax'
    BY <1>5, LedgerMaxSame DEF Clock, Tick
  <2>6. TxOpen'
    BY <1>5, TxTypes DEF Clock, Tick, TxOpen, ResumeAt
  <2> QED
    BY <2>1, <2>2, <2>3, <2>4, <2>5, <2>6, TypeParts
<1>6. CASE Wakes
  <2>1. JobTypes'
    BY <1>6 DEF Wakes, Woken, Fired, JobTypes
  <2>2. RowTypes'
    BY <1>6 DEF Wakes, Woken, Fired, RowTypes
  <2>3. SendTypes'
    BY <1>6 DEF Wakes, Woken, Fired, SendTypes
  <2>4. BoundTypes'
    BY <1>6 DEF Wakes, Woken, Fired, BoundTypes
  <2>5. LedgerMax'
    BY <1>6, LedgerMaxSame DEF Wakes, Woken, Fired
  <2>6. TxOpen'
    BY <1>6, TxTypes DEF Wakes, Woken, Fired, TxOpen, ResumeAt
  <2> QED
    BY <2>1, <2>2, <2>3, <2>4, <2>5, <2>6, TypeParts
<1>7. CASE HandlerWakes
  <2>1. JobTypes'
    BY <1>7 DEF HandlerWakes, CallWake, JobTypes
  <2>2. RowTypes'
    BY <1>7 DEF HandlerWakes, CallWake, RowTypes
  <2>3. SendTypes'
    BY <1>7 DEF HandlerWakes, CallWake, SendTypes
  <2>4. BoundTypes'
    BY <1>7 DEF HandlerWakes, CallWake, BoundTypes
  <2>5. LedgerMax'
    BY <1>7, LedgerMaxSame DEF HandlerWakes, CallWake
  <2>6. TxOpen'
    BY <1>7, TxTypes DEF HandlerWakes, CallWake, TxOpen, ResumeAt
  <2> QED
    BY <2>1, <2>2, <2>3, <2>4, <2>5, <2>6, TypeParts
<1>8. CASE Starts
  <2>1. JobTypes'
    BY <1>8 DEF Starts, StartJob, JobTypes
  <2>2. RowTypes'
    BY <1>8 DEF Starts, StartJob, RowTypes
  <2>3. SendTypes'
    BY <1>8 DEF Starts, StartJob, SendTypes
  <2>4. BoundTypes'
    BY <1>8 DEF Starts, StartJob, BoundTypes
  <2>5. LedgerMax'
    BY <1>8, LedgerMaxSame DEF Starts, StartJob
  <2>6. TxOpen'
    BY <1>8, TxTypes DEF Starts, StartJob, TxOpen, ResumeAt
  <2> QED
    BY <2>1, <2>2, <2>3, <2>4, <2>5, <2>6, TypeParts
<1>9. CASE Stops
  <2>1. JobTypes'
    BY <1>9 DEF Stops, StopJob, JobTypes
  <2>2. RowTypes'
    BY <1>9 DEF Stops, StopJob, RowTypes
  <2>3. SendTypes'
    BY <1>9 DEF Stops, StopJob, SendTypes
  <2>4. BoundTypes'
    BY <1>9, DigestAssumption DEF Stops, StopJob, FaultAllowed, BoundTypes
  <2>5. LedgerMax'
    BY <1>9, LedgerMaxSame DEF Stops, StopJob
  <2>6. TxOpen'
    BY <1>9, TxTypes DEF Stops, StopJob, TxOpen, ResumeAt
  <2> QED
    BY <2>1, <2>2, <2>3, <2>4, <2>5, <2>6, TypeParts
<1>10. CASE Exits
  <2>1. JobTypes'
    BY <1>10 DEF Exits, Exit, JobTypes
  <2>2. RowTypes'
    BY <1>10 DEF Exits, Exit, RowTypes
  <2>3. SendTypes'
    BY <1>10 DEF Exits, Exit, SendTypes
  <2>4. BoundTypes'
    BY <1>10, DigestAssumption DEF Exits, Exit, FaultAllowed, BoundTypes
  <2>5. LedgerMax'
    BY <1>10, LedgerMaxSame DEF Exits, Exit
  <2>6. TxOpen'
    BY <1>10, TxTypes DEF Exits, Exit, TxOpen, ResumeAt
  <2> QED
    BY <2>1, <2>2, <2>3, <2>4, <2>5, <2>6, TypeParts
<1> QED
  BY <1>1, <1>2, <1>3, <1>4, <1>5, <1>6, <1>7, <1>8, <1>9, <1>10 DEF JobFault

(* And every handler.                                                       *)
LEMMA HandlerType == TypeInv /\ Handler => TypeInv'
<1> SUFFICES ASSUME TypeInv, Handler PROVE TypeInv'
  OBVIOUS
<1> USE ConstantTypes DEF jobVars, wakeVars, memberVars, accountVars, listVars, bounds
<1>0. JobTypes /\ RowTypes /\ SendTypes /\ BoundTypes /\ LedgerMax /\ TxOpen
  BY DEF TypeInv, TypeOK
<1> USE <1>0
<1>1. ASSUME NEW m \in Members, LoadRemindLater(m)
      PROVE  TypeInv'
  <2>1. JobTypes'
    BY <1>1 DEF LoadRemindLater, JobTypes
  <2>2. RowTypes'
    BY <1>1 DEF LoadRemindLater, JobTypes, RowTypes
  <2>3. SendTypes'
    BY <1>1 DEF LoadRemindLater, SendTypes
  <2>4. BoundTypes'
    BY <1>1 DEF LoadRemindLater, BoundTypes
  <2>5. LedgerMax'
    BY <1>1, LedgerMaxSame DEF LoadRemindLater
  <2>6. TxOpen'
    BY <1>1, TxTypes DEF LoadRemindLater, TxOpen, ResumeAt
  <2> QED
    BY <2>1, <2>2, <2>3, <2>4, <2>5, <2>6, TypeParts
<1>2. ASSUME NEW m \in Members, SetReminder(m)
      PROVE  TypeInv'
  <2>1. JobTypes'
    BY <1>2 DEF SetReminder, Writes, CommittedChange, Answered, reminderAt, JobTypes
  <2>2. RowTypes'
    BY <1>2 DEF SetReminder, Writes, CommittedChange, Answered, reminderAt, RowTypes
  <2>3. SendTypes'
    BY <1>2 DEF SetReminder, Writes, CommittedChange, Answered, reminderAt, SendTypes
  <2>4. BoundTypes'
    BY <1>2, DigestAssumption DEF SetReminder, Writes, CommittedChange, Answered, reminderAt, BoundTypes
  <2>5. LedgerMax'
    BY <1>2, LedgerMaxSame DEF SetReminder, Writes, CommittedChange, Answered, reminderAt
  <2>6. TxOpen'
    BY <1>2, TxTypes DEF SetReminder, Writes, CommittedChange, Answered, reminderAt, TxOpen, ResumeAt
  <2> QED
    BY <2>1, <2>2, <2>3, <2>4, <2>5, <2>6, TypeParts
<1>3. ASSUME NEW m \in Members, RescheduleReminder(m)
      PROVE  TypeInv'
  <2>1. JobTypes'
    BY <1>3 DEF RescheduleReminder, Writes, CommittedChange, Answered, reminderAt, JobTypes
  <2>2. RowTypes'
    BY <1>3 DEF RescheduleReminder, Writes, CommittedChange, Answered, reminderAt, RowTypes
  <2>3. SendTypes'
    BY <1>3 DEF RescheduleReminder, Writes, CommittedChange, Answered, reminderAt, SendTypes
  <2>4. BoundTypes'
    BY <1>3, DigestAssumption DEF RescheduleReminder, Writes, CommittedChange, Answered, reminderAt, BoundTypes
  <2>5. LedgerMax'
    BY <1>3, LedgerMaxSame DEF RescheduleReminder, Writes, CommittedChange, Answered, reminderAt
  <2>6. TxOpen'
    BY <1>3, TxTypes DEF RescheduleReminder, Writes, CommittedChange, Answered, reminderAt, TxOpen, ResumeAt
  <2> QED
    BY <2>1, <2>2, <2>3, <2>4, <2>5, <2>6, TypeParts
<1>4. ASSUME NEW m \in Members, RemoveReminder(m)
      PROVE  TypeInv'
  <2>1. JobTypes'
    BY <1>4 DEF RemoveReminder, Writes, CommittedChange, Answered, JobTypes
  <2>2. RowTypes'
    BY <1>4 DEF RemoveReminder, Writes, CommittedChange, Answered, RowTypes
  <2>3. SendTypes'
    BY <1>4 DEF RemoveReminder, Writes, CommittedChange, Answered, SendTypes
  <2>4. BoundTypes'
    BY <1>4, DigestAssumption DEF RemoveReminder, Writes, CommittedChange, Answered, BoundTypes
  <2>5. LedgerMax'
    BY <1>4, LedgerMaxSame DEF RemoveReminder, Writes, CommittedChange, Answered
  <2>6. TxOpen'
    BY <1>4, TxTypes DEF RemoveReminder, Writes, CommittedChange, Answered, TxOpen, ResumeAt
  <2> QED
    BY <2>1, <2>2, <2>3, <2>4, <2>5, <2>6, TypeParts
<1>5. ASSUME NEW m \in Members, RefuseReminder(m)
      PROVE  TypeInv'
  <2>1. JobTypes'
    BY <1>5 DEF RefuseReminder, Answered, JobTypes
  <2>2. RowTypes'
    BY <1>5 DEF RefuseReminder, Answered, RowTypes
  <2>3. SendTypes'
    BY <1>5 DEF RefuseReminder, Answered, SendTypes
  <2>4. BoundTypes'
    BY <1>5 DEF RefuseReminder, Answered, BoundTypes
  <2>5. LedgerMax'
    BY <1>5, LedgerMaxSame DEF RefuseReminder, Answered
  <2>6. TxOpen'
    BY <1>5, TxTypes DEF RefuseReminder, Answered, TxOpen, ResumeAt
  <2> QED
    BY <2>1, <2>2, <2>3, <2>4, <2>5, <2>6, TypeParts
<1>6. ASSUME NEW m \in Members, SaveNotifications(m)
      PROVE  TypeInv'
  <2>1. JobTypes'
    BY <1>6 DEF SaveNotifications, Writes, CommittedChange, JobTypes
  <2>2. RowTypes'
    BY <1>6 DEF SaveNotifications, Writes, CommittedChange, RowTypes
  <2>3. SendTypes'
    BY <1>6 DEF SaveNotifications, Writes, CommittedChange, SendTypes
  <2>4. BoundTypes'
    BY <1>6, DigestAssumption DEF SaveNotifications, Writes, CommittedChange, BoundTypes
  <2>5. LedgerMax'
    BY <1>6, LedgerMaxSame DEF SaveNotifications, Writes, CommittedChange
  <2>6. TxOpen'
    BY <1>6, TxTypes DEF SaveNotifications, Writes, CommittedChange, TxOpen, ResumeAt
  <2> QED
    BY <2>1, <2>2, <2>3, <2>4, <2>5, <2>6, TypeParts
<1>7. ASSUME NEW m \in Members, SaveMembers(m)
      PROVE  TypeInv'
  <2>1. JobTypes'
    BY <1>7 DEF SaveMembers, Writes, CommittedChange, JobTypes
  <2>2. RowTypes'
    BY <1>7 DEF SaveMembers, Writes, CommittedChange, RowTypes
  <2>3. SendTypes'
    BY <1>7 DEF SaveMembers, Writes, CommittedChange, SendTypes
  <2>4. BoundTypes'
    BY <1>7, DigestAssumption DEF SaveMembers, Writes, CommittedChange, BoundTypes
  <2>5. LedgerMax'
    BY <1>7, LedgerMaxSame DEF SaveMembers, Writes, CommittedChange
  <2>6. TxOpen'
    BY <1>7, TxTypes DEF SaveMembers, Writes, CommittedChange, TxOpen, ResumeAt
  <2> QED
    BY <2>1, <2>2, <2>3, <2>4, <2>5, <2>6, TypeParts
<1>8. ASSUME NEW m \in Members, Accept(m)
      PROVE  TypeInv'
  <2>1. JobTypes'
    BY <1>8 DEF Accept, Writes, CommittedChange, JobTypes
  <2>2. RowTypes'
    <3>1. row' \in [Members -> {"none", "row", "deleted"}]
      BY <1>8 DEF Accept, RowTypes
    <3>2. ends' \in [Members -> EndTimes \cup {NoTime}]
      BY <1>8 DEF Accept, RowTypes
    <3>3. on' \in [Members -> BOOLEAN] /\ hour' \in [Members -> Hours]
      BY <1>8 DEF Accept, RowTypes
    <3> QED
      BY <1>8, <3>1, <3>2, <3>3 DEF Accept, RowTypes
  <2>3. SendTypes'
    BY <1>8 DEF Accept, Writes, CommittedChange, SendTypes
  <2>4. BoundTypes'
    BY <1>8, DigestAssumption DEF Accept, Writes, CommittedChange, BoundTypes
  <2>5. LedgerMax'
    BY <1>8, LedgerMaxSame DEF Accept, Writes, CommittedChange
  <2>6. TxOpen'
    BY <1>8, TxTypes DEF Accept, Writes, CommittedChange, TxOpen, ResumeAt
  <2> QED
    BY <2>1, <2>2, <2>3, <2>4, <2>5, <2>6, TypeParts
<1>9. ASSUME NEW m \in Members, RemoveMember(m)
      PROVE  TypeInv'
  <2>1. JobTypes'
    BY <1>9 DEF RemoveMember, Writes, DeleteMemberships, JobTypes
  <2>2. RowTypes'
    BY <1>9 DEF RemoveMember, Writes, DeleteMemberships, RowTypes
  <2>3. SendTypes'
    BY <1>9 DEF RemoveMember, Writes, DeleteMemberships, SendTypes
  <2>4. BoundTypes'
    BY <1>9, DigestAssumption DEF RemoveMember, Writes, DeleteMemberships, BoundTypes
  <2>5. LedgerMax'
    BY <1>9, LedgerMaxDelete DEF RemoveMember, Writes, DeleteMemberships
  <2>6. TxOpen'
    BY <1>9, TxTypes DEF RemoveMember, Writes, DeleteMemberships, TxOpen, ResumeAt
  <2> QED
    BY <2>1, <2>2, <2>3, <2>4, <2>5, <2>6, TypeParts
<1>10. ASSUME NEW g, DeleteGarden(g)
      PROVE  TypeInv'
  <2>1. JobTypes'
    BY <1>10 DEF DeleteGarden, Writes, CommittedChange, DeleteMemberships, JobTypes
  <2>2. RowTypes'
    BY <1>10 DEF DeleteGarden, Writes, CommittedChange, DeleteMemberships, RowTypes
  <2>3. SendTypes'
    BY <1>10 DEF DeleteGarden, Writes, CommittedChange, DeleteMemberships, SendTypes
  <2>4. BoundTypes'
    BY <1>10, DigestAssumption DEF DeleteGarden, Writes, CommittedChange, DeleteMemberships, BoundTypes
  <2>5. LedgerMax'
    BY <1>10, LedgerMaxDelete DEF DeleteGarden, Writes, CommittedChange, DeleteMemberships
  <2>6. TxOpen'
    BY <1>10, TxTypes DEF DeleteGarden, Writes, CommittedChange, DeleteMemberships, TxOpen, ResumeAt
  <2> QED
    BY <2>1, <2>2, <2>3, <2>4, <2>5, <2>6, TypeParts
<1>11. ASSUME NEW u \in Users, SaveAccount(u)
      PROVE  TypeInv'
  <2>1. JobTypes'
    BY <1>11 DEF SaveAccount, Writes, CommittedChange, JobTypes
  <2>2. RowTypes'
    BY <1>11 DEF SaveAccount, Writes, CommittedChange, RowTypes
  <2>3. SendTypes'
    BY <1>11 DEF SaveAccount, Writes, CommittedChange, SendTypes
  <2>4. BoundTypes'
    BY <1>11, DigestAssumption DEF SaveAccount, Writes, CommittedChange, BoundTypes
  <2>5. LedgerMax'
    BY <1>11, LedgerMaxSame DEF SaveAccount, Writes, CommittedChange
  <2>6. TxOpen'
    BY <1>11, TxTypes DEF SaveAccount, Writes, CommittedChange, TxOpen, ResumeAt
  <2> QED
    BY <2>1, <2>2, <2>3, <2>4, <2>5, <2>6, TypeParts
<1>12. ASSUME NEW u \in Users, CloseAccount(u)
      PROVE  TypeInv'
  <2>1. JobTypes'
    BY <1>12 DEF CloseAccount, Writes, CommittedChange, DeleteMemberships, JobTypes
  <2>2. RowTypes'
    BY <1>12 DEF CloseAccount, Writes, CommittedChange, DeleteMemberships, RowTypes
  <2>3. SendTypes'
    BY <1>12 DEF CloseAccount, Writes, CommittedChange, DeleteMemberships, SendTypes
  <2>4. BoundTypes'
    BY <1>12, DigestAssumption DEF CloseAccount, Writes, CommittedChange, DeleteMemberships, BoundTypes
  <2>5. LedgerMax'
    BY <1>12, LedgerMaxDelete DEF CloseAccount, Writes, CommittedChange, DeleteMemberships
  <2>6. TxOpen'
    BY <1>12, TxTypes DEF CloseAccount, Writes, CommittedChange, DeleteMemberships, TxOpen, ResumeAt
  <2> QED
    BY <2>1, <2>2, <2>3, <2>4, <2>5, <2>6, TypeParts
<1>13. ASSUME NEW b \in Browsers, RemoveBrowser(b)
      PROVE  TypeInv'
  <2>1. JobTypes'
    BY <1>13 DEF RemoveBrowser, Writes, JobTypes
  <2>2. RowTypes'
    BY <1>13 DEF RemoveBrowser, Writes, RowTypes
  <2>3. SendTypes'
    BY <1>13 DEF RemoveBrowser, Writes, SendTypes
  <2>4. BoundTypes'
    BY <1>13, DigestAssumption DEF RemoveBrowser, Writes, BoundTypes
  <2>5. LedgerMax'
    BY <1>13, LedgerMaxSame DEF RemoveBrowser, Writes
  <2>6. TxOpen'
    BY <1>13, TxTypes DEF RemoveBrowser, Writes, TxOpen, ResumeAt
  <2> QED
    BY <2>1, <2>2, <2>3, <2>4, <2>5, <2>6, TypeParts
<1>14. ASSUME NEW u \in Users, NEW b \in Browsers, SubscribeBrowser(u, b)
      PROVE  TypeInv'
  <2>1. JobTypes'
    BY <1>14 DEF SubscribeBrowser, Writes, CommittedChange, JobTypes
  <2>2. RowTypes'
    BY <1>14 DEF SubscribeBrowser, Writes, CommittedChange, RowTypes
  <2>3. SendTypes'
    BY <1>14 DEF SubscribeBrowser, Writes, CommittedChange, SendTypes
  <2>4. BoundTypes'
    BY <1>14, DigestAssumption DEF SubscribeBrowser, Writes, CommittedChange, BoundTypes
  <2>5. LedgerMax'
    BY <1>14, LedgerMaxSame DEF SubscribeBrowser, Writes, CommittedChange
  <2>6. TxOpen'
    BY <1>14, TxTypes DEF SubscribeBrowser, Writes, CommittedChange, TxOpen, ResumeAt
  <2> QED
    BY <2>1, <2>2, <2>3, <2>4, <2>5, <2>6, TypeParts
<1> QED
  BY <1>1, <1>2, <1>3, <1>4, <1>5, <1>6, <1>7, <1>8, <1>9, <1>10, <1>11, <1>12, <1>13, <1>14 DEF Handler

(* The types and the shape of the ledger are inductive.                     *)
LEMMA TypeStep == TypeInv /\ [Next]_vars => TypeInv'
<1>1. TypeInv /\ UNCHANGED vars => TypeInv'
  BY DEF TypeInv, TypeOK, JobTypes, RowTypes, SendTypes, BoundTypes, LedgerMax, DigestKeys, TxOpen,
         vars, jobVars, wakeVars, memberVars, accountVars, listVars, bounds
<1> QED
  BY <1>1, JobStepType, ProcessStepType, HandlerType DEF Next, LookStep

(* A first look finds a database of the right types.                        *)
LEMMA TypeStart == Init => TypeInv
<1> SUFFICES ASSUME Init PROVE TypeInv
  OBVIOUS
<1> USE ConstantTypes DEF Init, JobInit
<1>1. JobTypes
  <2>1. now \in Time /\ lookNow \in StartTime .. now
    BY JobAssumption DEF Time
  <2>2. pc = "down" /\ next \in Int /\ failed = FALSE /\ wake = FALSE /\ calls \in Nat
    OBVIOUS
  <2> QED
    BY <2>1, <2>2 DEF JobTypes
<1>2. RowTypes
  BY DEF RowTypes
<1>3. SendTypes
  BY DEF SendTypes
<1>4. BoundTypes
  BY DigestAssumption DEF BoundTypes
<1>5. LedgerMax
  BY DEF LedgerMax, DigestKeys
<1>6. TxOpen
  BY TxTypes DEF TxOpen
<1> QED
  BY <1>1, <1>2, <1>3, <1>4, <1>5, <1>6 DEF TypeInv, TypeOK

(* Type correctness of the job, the rows it reads and the handlers; the     *)
(* keys it writes to the ledger are days and times, which rests on the loop *)
(* of nextDigest ending (NextDayIsLeast).                                   *)
THEOREM TypeCorrect == Spec => []TypeOK
<1>1. TypeInv => TypeOK
  BY DEF TypeInv
<1> QED
  BY <1>1, TypeStart, TypeStep, PTL DEF Spec

-----------------------------------------------------------------------------
(* The ledger.  The inductive invariant:                                   *)

\* The open transaction is for a membership that exists and a send that is not
\* in the ledger; the reminder it has cleared is the one it sends.
TxInv ==
    tx.open =>
        /\ row[tx.send.m] = "row"
        /\ tx.send \notin ledger
        /\ tx.cleared => tx.send.kind = reminderKind /\ remind[tx.send.m] = tx.send.key

\* The list has one row for a member, whose digests sent are still those the
\* list was read with.
ListInv ==
    /\ \A r, q \in members : r.m = q.m => r = q
    /\ \A r \in members :
          /\ row[r.m] # "none"
          /\ row[r.m] = "row" => r.sent = SentThrough(r.m)

\* The digest being sent is for a day after the others of its member, who is no
\* longer in the list.
SendingInv ==
    tx.open /\ tx.send.kind = digestKind =>
        /\ \A k \in DigestKeys(tx.send.m) : k < tx.send.key
        /\ \A r \in members : r.m # tx.send.m

LedgerInv == TxInv /\ ListInv /\ SendingInv

-----------------------------------------------------------------------------
(* The last day sent for depends on the keys alone.                         *)
LEMMA SameKeys ==
    ASSUME NEW m \in Members, DigestKeys(m)' = DigestKeys(m)
    PROVE  SentThrough(m)' = SentThrough(m)
BY DEF SentThrough

(* Likewise when the whole ledger is unchanged.                              *)
LEMMA SameLedger ==
    ASSUME NEW m \in Members, ledger' = ledger
    PROVE  DigestKeys(m)' = DigestKeys(m) /\ SentThrough(m)' = SentThrough(m)
BY SameKeys DEF DigestKeys

(* Likewise when another member's send, or a reminder, is added.           *)
LEMMA OtherSend ==
    ASSUME NEW m \in Members, NEW s, ledger' = ledger \cup {s},
           s.m # m \/ s.kind # digestKind
    PROVE  DigestKeys(m)' = DigestKeys(m) /\ SentThrough(m)' = SentThrough(m)
<1>1. DigestKeys(m)' = DigestKeys(m)
  BY DEF DigestKeys
<1> QED
  BY <1>1, SameKeys

(* A digest for a later day becomes the last one sent.                      *)
LEMMA OwnDigest ==
    ASSUME TypeInv, NEW m \in Members, NEW s \in Send, ledger' = ledger \cup {s},
           s.m = m, s.kind = digestKind, s.key > SentThrough(m)
    PROVE  /\ DigestKeys(m)' = DigestKeys(m) \cup {s.key}
           /\ SentThrough(m)' = s.key
<1>1. DigestKeys(m)' = DigestKeys(m) \cup {s.key}
  BY DEF DigestKeys
<1>2. s.key \in Nat /\ DigestKeys(m) \subseteq Nat /\ SentThrough(m) \in Int
  BY TxTypes, SentThroughType
<1>3. \A k \in DigestKeys(m) : k < s.key
  BY <1>2, SentThroughType
<1>4. \A k \in DigestKeys(m)' : (\A j \in DigestKeys(m)' : j <= k) <=> k = s.key
  BY <1>1, <1>2, <1>3
<1>5. DigestKeys(m)' # {} /\ s.key \in DigestKeys(m)'
  BY <1>1
<1>6. SentThrough(m)' = CHOOSE k \in DigestKeys(m)' : \A j \in DigestKeys(m)' : j <= k
  BY <1>5 DEF SentThrough
<1> QED
  BY <1>1, <1>4, <1>5, <1>6

(* The days of a member who is not deleted stay.                            *)
LEMMA KeysDeleted ==
    ASSUME NEW M, ledger' = {s \in ledger : s.m \notin M}, NEW m \in Members, m \notin M
    PROVE  DigestKeys(m)' = DigestKeys(m) /\ SentThrough(m)' = SentThrough(m)
<1>1. DigestKeys(m)' = DigestKeys(m)
  BY DEF DigestKeys
<1> QED
  BY <1>1, SameKeys

(* A step that leaves the ledger, the rows and the transaction alone.       *)
LEMMA LedgerFrame ==
    ASSUME TypeInv, LedgerInv, UNCHANGED <<row, ledger, remind, tx>>, members' \subseteq members
    PROVE  LedgerInv'
<1>1. \A m \in Members : DigestKeys(m)' = DigestKeys(m) /\ SentThrough(m)' = SentThrough(m)
  BY SameLedger
<1>2. TxInv'
  BY DEF LedgerInv, TxInv
<1>3. ListInv'
  BY <1>1, MemberRow DEF LedgerInv, ListInv
<1>4. SendingInv'
  BY <1>1, OpenTx, TxTypes DEF LedgerInv, SendingInv
<1> QED
  BY <1>2, <1>3, <1>4 DEF LedgerInv

(* A step that ends the transaction without a commit.                       *)
LEMMA LedgerAbort ==
    ASSUME TypeInv, LedgerInv, UNCHANGED <<row, ledger>>, tx' = NoTx, members' \subseteq members
    PROVE  LedgerInv'
<1>1. \A m \in Members : DigestKeys(m)' = DigestKeys(m) /\ SentThrough(m)' = SentThrough(m)
  BY SameLedger
<1>2. ~tx'.open
  BY TxTypes
<1>3. ListInv'
  BY <1>1, MemberRow DEF LedgerInv, ListInv
<1> QED
  BY <1>2, <1>3 DEF LedgerInv, TxInv, SendingInv

(* A step that changes a reminder the transaction has not cleared.          *)
LEMMA LedgerReminder ==
    ASSUME TypeInv, LedgerInv, UNCHANGED <<row, ledger, members, tx>>,
           NEW m \in Members, ~Locked(m), NEW at, remind' = [remind EXCEPT ![m] = at]
    PROVE  LedgerInv'
<1>1. \A x \in Members : DigestKeys(x)' = DigestKeys(x) /\ SentThrough(x)' = SentThrough(x)
  BY SameLedger
<1>2. TxInv'
  BY OpenTx, TxTypes DEF LedgerInv, TxInv, Locked, TypeInv, TypeOK, RowTypes
<1>3. ListInv'
  BY <1>1, MemberRow DEF LedgerInv, ListInv
<1>4. SendingInv'
  BY <1>1, OpenTx, TxTypes DEF LedgerInv, SendingInv
<1> QED
  BY <1>2, <1>3, <1>4 DEF LedgerInv

(* A step that deletes memberships.                                         *)
LEMMA LedgerDelete ==
    ASSUME TypeInv, LedgerInv, NEW M, DeleteMemberships(M), UNCHANGED <<members, tx>>
    PROVE  LedgerInv'
<1>1. \A m \in Members : m \notin M =>
         row'[m] = row[m] /\ DigestKeys(m)' = DigestKeys(m) /\ SentThrough(m)' = SentThrough(m)
  BY KeysDeleted DEF DeleteMemberships
<1>2. \A m \in Members : m \in M => row'[m] = "deleted"
  BY DEF DeleteMemberships
<1>3. tx.open => tx.send.m \in Members /\ tx.send.m \notin M
  BY OpenTx, TxTypes DEF DeleteMemberships, Referred
<1>4. TxInv'
  BY <1>1, <1>3 DEF LedgerInv, TxInv, DeleteMemberships
<1>5. ListInv'
  BY <1>1, <1>2, MemberRow DEF LedgerInv, ListInv
<1>6. SendingInv'
  BY <1>1, <1>3 DEF LedgerInv, SendingInv
<1> QED
  BY <1>4, <1>5, <1>6 DEF LedgerInv

(* The job's steps keep LedgerInv.                                          *)
LEMMA LedgerJobStep == TypeInv /\ LedgerInv /\ (JobStep \/ JobFault) => LedgerInv'
<1> SUFFICES ASSUME TypeInv, LedgerInv, JobStep \/ JobFault PROVE LedgerInv'
  OBVIOUS
<1> USE DEF jobVars, wakeVars, memberVars, accountVars, listVars, bounds
<1>1. CASE ListReminders \/ ReminderNotDue \/ ReminderFails \/ DigestNotDue \/ DigestFails
           \/ EndLook \/ ListFails
  BY <1>1, LedgerFrame DEF ListReminders, ReminderNotDue, ReminderFails, DigestNotDue, DigestFails,
                           EndLook, ListFails
<1>2. CASE RollBackSend
  BY <1>2, LedgerAbort DEF RollBackSend
<1>3. CASE SettleReminder
  <2>1. PICK r \in reminders :
          /\ ledger' = ledger \cup {[m |-> r.m, kind |-> reminderKind, key |-> r.at]}
          /\ UNCHANGED <<row, members, tx>>
          /\ pc = "reminders"
    BY <1>3 DEF SettleReminder
  <2>2. ~tx.open
    BY <2>1 DEF TypeInv, TxOpen
  <2>3. \A m \in Members : SentThrough(m)' = SentThrough(m)
    BY <2>1, OtherSend DEF reminderKind, digestKind
  <2>4. ListInv'
    BY <2>1, <2>3, MemberRow DEF LedgerInv, ListInv
  <2> QED
    BY <2>1, <2>2, <2>4 DEF LedgerInv, TxInv, SendingInv
<1>4. CASE SendReminder
  <2>1. PICK r \in reminders :
          /\ tx' = [open |-> TRUE, send |-> [m |-> r.m, kind |-> reminderKind, key |-> r.at],
                    cleared |-> remind[r.m] = r.at, then |-> NoTime,
                    todo |-> BrowsersOf(UserOf[r.m]), gone |-> {}]
          /\ row[r.m] = "row"
          /\ [m |-> r.m, kind |-> reminderKind, key |-> r.at] \notin ledger
    BY <1>4 DEF SendReminder
  <2>2. UNCHANGED <<row, ledger, remind, members>>
    BY <1>4 DEF SendReminder
  <2>3. \A m \in Members : SentThrough(m)' = SentThrough(m)
    BY <2>2, SameLedger
  <2>4. TxInv'
    BY <2>1, <2>2 DEF TxInv
  <2>5. ListInv'
    BY <2>2, <2>3, MemberRow DEF LedgerInv, ListInv
  <2>6. SendingInv'
    BY <2>1 DEF SendingInv, reminderKind, digestKind
  <2> QED
    BY <2>4, <2>5, <2>6 DEF LedgerInv
<1>5. CASE ListMembers
  <2>1. ~tx.open
    BY <1>5 DEF ListMembers, TypeInv, TxOpen
  <2>2. UNCHANGED <<row, ledger, tx>>
    BY <1>5 DEF ListMembers
  <2>3. \A m \in Members : SentThrough(m)' = SentThrough(m)
    BY <2>2, SameLedger
  <2>4. \A r \in members' : \E m \in Members :
           /\ r = [m |-> m, hour |-> hour[m], zone |-> zone[UserOf[m]], sent |-> SentThrough(m)]
           /\ row[m] = "row"
    BY <1>5 DEF ListMembers, Subscribed, Reachable, Live
  <2>5. ListInv'
    BY <2>2, <2>3, <2>4 DEF ListInv
  <2> QED
    BY <2>1, <2>2, <2>5 DEF LedgerInv, TxInv, SendingInv
<1>6. CASE SettleDigest
  <2>1. PICK r \in members :
          /\ ledger' = ledger \cup {[m |-> r.m, kind |-> digestKind, key |-> DigestKey(r)]}
          /\ members' = members \ {r}
          /\ UNCHANGED <<row, tx>>
          /\ pc = "digests"
    BY <1>6 DEF SettleDigest
  <2>2. ~tx.open
    BY <2>1 DEF TypeInv, TxOpen
  <2>3. \A m \in Members : m # r.m => SentThrough(m)' = SentThrough(m)
    BY <2>1, OtherSend
  <2>4. \A q \in members' : q \in members /\ q.m # r.m
    BY <2>1 DEF LedgerInv, ListInv
  <2>5. ListInv'
    BY <2>1, <2>3, <2>4, MemberRow DEF LedgerInv, ListInv
  <2> QED
    BY <2>1, <2>2, <2>5 DEF LedgerInv, TxInv, SendingInv
<1>7. CASE SendDigest
  <2>1. PICK r \in members :
          /\ tx' = [open |-> TRUE, send |-> [m |-> r.m, kind |-> digestKind, key |-> DigestKey(r)],
                    cleared |-> FALSE, then |-> DigestAfter(r, DigestKey(r)),
                    todo |-> BrowsersOf(UserOf[r.m]), gone |-> {}]
          /\ row[r.m] = "row"
          /\ [m |-> r.m, kind |-> digestKind, key |-> DigestKey(r)] \notin ledger
          /\ members' = members \ {r}
    BY <1>7 DEF SendDigest
  <2>2. UNCHANGED <<row, ledger, remind>>
    BY <1>7 DEF SendDigest
  <2>3. r.m \in Members /\ DigestKeys(r.m)' = DigestKeys(r.m)
    BY <2>2, MemberRow, SameLedger
  <2>4. \A m \in Members : SentThrough(m)' = SentThrough(m)
    BY <2>2, SameLedger
  <2>5. \A q \in members' : q \in members /\ q.m # r.m
    BY <2>1 DEF LedgerInv, ListInv
  <2>6. TxInv'
    BY <2>1, <2>2 DEF TxInv
  <2>7. ListInv'
    BY <2>2, <2>4, <2>5, MemberRow DEF LedgerInv, ListInv
  <2>8. \A k \in DigestKeys(r.m) : k < DigestKey(r)
    <3>1. r.sent = SentThrough(r.m) /\ DigestKey(r) > r.sent /\ DigestKey(r) \in Nat
      BY <2>1, MemberRow DEF LedgerInv, ListInv
    <3>2. \A k \in DigestKeys(r.m) : k <= SentThrough(r.m) /\ k \in Nat
      BY <2>3, SentThroughType
    <3>3. SentThrough(r.m) \in Int
      BY <2>3, SentThroughType
    <3> QED
      BY <3>1, <3>2, <3>3
  <2>9. SendingInv'
    BY <2>1, <2>3, <2>5, <2>8 DEF SendingInv
  <2> QED
    BY <2>6, <2>7, <2>9 DEF LedgerInv
<1>8. CASE SendOne
  <2>1. tx \in Tx
    BY <1>8, OpenTx DEF SendOne, TypeInv, TxOpen
  <2>2. tx'.open = tx.open /\ tx'.send = tx.send /\ tx'.cleared = tx.cleared
    BY <1>8, <2>1 DEF SendOne, Tx
  <2>3. UNCHANGED <<row, ledger, remind, members>>
    BY <1>8 DEF SendOne
  <2>4. \A m \in Members : DigestKeys(m)' = DigestKeys(m) /\ SentThrough(m)' = SentThrough(m)
    BY <2>3, SameLedger
  <2>5. TxInv'
    BY <2>2, <2>3 DEF LedgerInv, TxInv
  <2>6. ListInv'
    BY <2>3, <2>4, MemberRow DEF LedgerInv, ListInv
  <2>7. SendingInv'
    BY <2>1, <2>2, <2>3, <2>4, TxTypes DEF LedgerInv, SendingInv
  <2> QED
    BY <2>5, <2>6, <2>7 DEF LedgerInv
<1>9. CASE CommitSend
  <2>1. tx \in Tx /\ tx.open
    BY <1>9, OpenTx DEF CommitSend, TypeInv, TxOpen
  <2>2. ledger' = ledger \cup {tx.send} /\ UNCHANGED <<row, members>> /\ tx' = NoTx
    BY <1>9 DEF CommitSend
  <2>3. \A q \in members : SentThrough(q.m)' = SentThrough(q.m)
    <3> SUFFICES ASSUME NEW q \in members PROVE SentThrough(q.m)' = SentThrough(q.m)
      OBVIOUS
    <3>1. q.m \in Members
      BY MemberRow
    <3>2. tx.send.m # q.m \/ tx.send.kind # digestKind
      BY <2>1 DEF LedgerInv, SendingInv
    <3> QED
      BY <2>2, <3>1, <3>2, OtherSend
  <2>4. ListInv'
    BY <2>2, <2>3 DEF LedgerInv, ListInv
  <2> QED
    BY <2>2, <2>4, TxTypes DEF LedgerInv, TxInv, SendingInv
<1> QED
  BY <1>1, <1>2, <1>3, <1>4, <1>5, <1>6, <1>7, <1>8, <1>9 DEF JobStep, JobFault

(* The handlers keep it.                                                    *)
LEMMA LedgerHandler == TypeInv /\ LedgerInv /\ Handler => LedgerInv'
<1> SUFFICES ASSUME TypeInv, LedgerInv, Handler PROVE LedgerInv'
  OBVIOUS
<1> USE DEF jobVars, wakeVars, memberVars, accountVars, listVars, bounds, Writes
<1>1. ASSUME NEW m \in Members,
             LoadRemindLater(m) \/ RefuseReminder(m) \/ SaveNotifications(m) \/ SaveMembers(m)
      PROVE  LedgerInv'
  BY <1>1, LedgerFrame DEF LoadRemindLater, RefuseReminder, SaveNotifications, SaveMembers
<1>2. ASSUME NEW m \in Members, SetReminder(m) \/ RescheduleReminder(m) \/ RemoveReminder(m)
      PROVE  LedgerInv'
  <2>1. UNCHANGED <<row, ledger, members, tx>> /\ ~Locked(m)
    BY <1>2 DEF SetReminder, RescheduleReminder, RemoveReminder, Answered
  <2>2. \E at : remind' = [remind EXCEPT ![m] = at]
    BY <1>2 DEF SetReminder, RescheduleReminder, RemoveReminder
  <2> QED
    BY <2>1, <2>2, LedgerReminder
<1>3. ASSUME NEW m \in Members, Accept(m)
      PROVE  LedgerInv'
  <2>1. UNCHANGED <<ledger, remind, members, tx>> /\ row' = [row EXCEPT ![m] = "row"]
    BY <1>3 DEF Accept
  <2>2. row \in [Members -> {"none", "row", "deleted"}] /\ row[m] # "deleted"
    BY <1>3 DEF Accept, TypeInv, TypeOK, RowTypes
  <2>3. \A x \in Members : DigestKeys(x)' = DigestKeys(x) /\ SentThrough(x)' = SentThrough(x)
    BY <2>1, SameLedger
  <2>4. TxInv'
    BY <2>1, <2>2, OpenTx, TxTypes DEF LedgerInv, TxInv
  <2>5. \A r \in members : r.m \in Members /\ row'[r.m] = row[r.m]
    BY <2>1, <2>2, MemberRow DEF LedgerInv, ListInv
  <2>6. ListInv'
    BY <2>1, <2>3, <2>5 DEF LedgerInv, ListInv
  <2>7. SendingInv'
    BY <2>1, <2>3, OpenTx, TxTypes DEF LedgerInv, SendingInv
  <2> QED
    BY <2>4, <2>6, <2>7 DEF LedgerInv
<1>4. ASSUME NEW m \in Members, RemoveMember(m)
      PROVE  LedgerInv'
  BY <1>4, LedgerDelete DEF RemoveMember
<1>5. ASSUME NEW g, DeleteGarden(g)
      PROVE  LedgerInv'
  BY <1>5, LedgerDelete DEF DeleteGarden
<1>6. ASSUME NEW u \in Users, CloseAccount(u)
      PROVE  LedgerInv'
  BY <1>6, LedgerDelete DEF CloseAccount
<1>7. ASSUME NEW u \in Users, SaveAccount(u)
      PROVE  LedgerInv'
  BY <1>7, LedgerFrame DEF SaveAccount
<1>8. ASSUME NEW b \in Browsers, RemoveBrowser(b) \/ \E u \in Users : SubscribeBrowser(u, b)
      PROVE  LedgerInv'
  BY <1>8, LedgerFrame DEF RemoveBrowser, SubscribeBrowser
<1> QED
  BY <1>1, <1>2, <1>3, <1>4, <1>5, <1>6, <1>7, <1>8 DEF Handler

(* LedgerInv is inductive, given the types.                                 *)
LEMMA LedgerStep == TypeInv /\ LedgerInv /\ [Next]_vars => LedgerInv'
<1> SUFFICES ASSUME TypeInv, LedgerInv, [Next]_vars PROVE LedgerInv'
  OBVIOUS
<1> USE DEF jobVars, wakeVars, memberVars, accountVars, listVars, bounds
<1>1. CASE LookStep
  BY <1>1, LedgerJobStep DEF LookStep
<1>2. CASE Handler
  BY <1>2, LedgerHandler
<1>3. CASE Clock \/ Wakes \/ HandlerWakes \/ Starts
  BY <1>3, LedgerFrame DEF Clock, Wakes, HandlerWakes, Starts
<1>4. CASE Stops \/ Exits
  BY <1>4, LedgerAbort DEF Stops, Exits
<1>5. CASE UNCHANGED vars
  BY <1>5, LedgerFrame DEF vars
<1> QED
  BY <1>1, <1>2, <1>3, <1>4, <1>5 DEF Next

(* At the start nothing is listed and no transaction is open.               *)
LEMMA LedgerStart == Init => LedgerInv
BY TxTypes DEF Init, LedgerInv, TxInv, ListInv, SendingInv

-----------------------------------------------------------------------------
(* The theorems.                                                           *)

\* What SendLedger sees of the job.
Started == IF tx.open THEN {tx.send} ELSE {}
Deleted == {m \in Members : row[m] = "deleted"}

(* A step that ends the transaction without a commit abandons the send.     *)
LEMMA AbandonsSend ==
    ASSUME TypeInv, UNCHANGED <<row, ledger>>, tx' = NoTx
    PROVE  [Ledger!Next]_<<ledger, Started, Deleted>>
<1>1. Started' = {} /\ Deleted' = Deleted
  BY TxTypes DEF Started, Deleted
<1>2. CASE tx.open
  <2>1. Ledger!Abandon(tx.send)
    BY <1>1, <1>2 DEF Ledger!Abandon, Started, Deleted
  <2> QED
    BY <1>2, <2>1 DEF Ledger!Next
<1>3. CASE ~tx.open
  BY <1>1, <1>3 DEF Started
<1> QED
  BY <1>2, <1>3

(* Deleting memberships deletes their rows.                                 *)
LEMMA DeletesRows ==
    ASSUME TypeInv, NEW M \in SUBSET Members, DeleteMemberships(M), UNCHANGED tx
    PROVE  Ledger!Next
<1>1. Started' = Started
  BY DEF Started
<1>2. Deleted' = Deleted \cup M
  BY DEF Deleted, DeleteMemberships, TypeInv, TypeOK, RowTypes
<1>3. \A s \in Started : s.m \notin M
  BY DEF Started, DeleteMemberships, Referred
<1>4. Ledger!Delete(M)
  BY <1>1, <1>2, <1>3 DEF Ledger!Delete, DeleteMemberships, Started, Deleted
<1> QED
  BY <1>4 DEF Ledger!Next

(* The handlers and the process leave the ledger to the job, but for the    *)
(* memberships they delete and the transactions they end.                   *)
LEMMA LedgerFrameStep ==
    ASSUME UNCHANGED <<row, ledger, tx>>
    PROVE  [Ledger!Next]_<<ledger, Started, Deleted>>
BY DEF Started, Deleted

(* Every step of the job is a step of SendLedger or leaves it alone.        *)
LEMMA JobRefines ==
    TypeInv /\ LedgerInv /\ (JobStep \/ JobFault) => [Ledger!Next]_<<ledger, Started, Deleted>>
<1> SUFFICES ASSUME TypeInv, LedgerInv, JobStep \/ JobFault
             PROVE  [Ledger!Next]_<<ledger, Started, Deleted>>
  OBVIOUS
<1> USE DEF jobVars, wakeVars, memberVars, accountVars, listVars, bounds
<1>1. CASE ListReminders \/ ReminderNotDue \/ ReminderFails \/ ListMembers \/ DigestNotDue
           \/ DigestFails \/ EndLook \/ ListFails
  BY <1>1, LedgerFrameStep DEF ListReminders, ReminderNotDue, ReminderFails, ListMembers,
                               DigestNotDue, DigestFails, EndLook, ListFails
<1>2. CASE RollBackSend
  BY <1>2, AbandonsSend DEF RollBackSend
<1>3. CASE SettleReminder \/ SettleDigest
  <2>1. PICK s \in Send : ledger' = ledger \cup {s} /\ row[s.m] = "row"
    BY <1>3, ReminderRow, MemberRow DEF SettleReminder, SettleDigest
  <2>2. UNCHANGED <<row, tx>> /\ ~tx.open
    BY <1>3 DEF SettleReminder, SettleDigest, TypeInv, TxOpen
  <2>3. Started' = Started /\ Started = {} /\ Deleted' = Deleted /\ s.m \notin Deleted
    BY <2>1, <2>2 DEF Started, Deleted
  <2>4. CASE s \in ledger
    BY <2>1, <2>3, <2>4
  <2>5. CASE s \notin ledger
    <3>1. Ledger!Settle(s) /\ s \in ledger'
      BY <2>1, <2>3, <2>5 DEF Ledger!Settle, Started, Deleted
    <3> QED
      BY <3>1 DEF Ledger!Next
  <2> QED
    BY <2>4, <2>5
<1>4. CASE SendReminder \/ SendDigest
  <2>1. /\ tx'.open /\ tx'.send \notin ledger /\ row[tx'.send.m] = "row"
        /\ UNCHANGED <<row, ledger>> /\ pc # "deliver"
    <3>1. CASE SendReminder
      BY <3>1 DEF SendReminder
    <3>2. CASE SendDigest
      BY <3>2 DEF SendDigest
    <3> QED
      BY <1>4, <3>1, <3>2
  <2>2. Started = {} /\ Started' = {tx'.send} /\ Deleted' = Deleted
    BY <2>1 DEF Started, Deleted, TypeInv, TxOpen
  <2>3. tx'.send.m \notin Deleted
    BY <2>1 DEF Deleted
  <2>4. Ledger!Start(tx'.send)
    BY <2>1, <2>2, <2>3 DEF Ledger!Start, Started, Deleted
  <2> QED
    BY <2>2, <2>4 DEF Ledger!Next, Started
<1>5. CASE SendOne
  <2>1. tx \in Tx
    BY <1>5, OpenTx DEF SendOne, TypeInv, TxOpen
  <2>2. tx'.open = tx.open /\ tx'.send = tx.send /\ UNCHANGED <<row, ledger>>
    BY <1>5, <2>1 DEF SendOne, Tx
  <2> QED
    BY <2>2 DEF Started, Deleted
<1>6. CASE CommitSend
  <2>1. tx.open /\ tx' = NoTx /\ ledger' = ledger \cup {tx.send} /\ row' = row
    BY <1>6 DEF CommitSend, TypeInv, TxOpen
  <2>2. Started = {tx.send} /\ Started' = {} /\ Deleted' = Deleted
    BY <2>1, TxTypes DEF Started, Deleted
  <2>3. Ledger!Finish(tx.send)
    BY <2>1, <2>2 DEF Ledger!Finish, Started, Deleted
  <2> QED
    BY <2>1, <2>3 DEF Ledger!Next
<1> QED
  BY <1>1, <1>2, <1>3, <1>4, <1>5, <1>6 DEF JobStep, JobFault

(* The digest job implements SendLedger: whatever fails, restarts or is     *)
(* changed while a send is going on, a send whose row is committed is never *)
(* started again (send and sendReminder, digest.go).                        *)
THEOREM JobImplementsLedger == Spec => SendsOnce
<1> USE DEF jobVars, wakeVars, memberVars, accountVars, listVars, bounds
<1>1. Init => Ledger!Init
  BY TxTypes DEF Init, Ledger!Init
<1>2. TypeInv /\ LedgerInv /\ [Next]_vars => [Ledger!Next]_<<ledger, Started, Deleted>>
  <2> SUFFICES ASSUME TypeInv, LedgerInv, [Next]_vars
               PROVE  [Ledger!Next]_<<ledger, Started, Deleted>>
    OBVIOUS
  <2>1. CASE LookStep
    BY <2>1, JobRefines DEF LookStep
  <2>2. CASE Handler
    <3>1. ASSUME NEW m \in Members,
                 \/ LoadRemindLater(m) \/ SetReminder(m) \/ RescheduleReminder(m)
                 \/ RemoveReminder(m) \/ RefuseReminder(m) \/ SaveNotifications(m) \/ SaveMembers(m)
          PROVE  UNCHANGED <<row, ledger, tx>>
      BY <3>1 DEF LoadRemindLater, SetReminder, RescheduleReminder, RemoveReminder, RefuseReminder,
                  SaveNotifications, SaveMembers, Writes
    <3>2. ASSUME NEW m \in Members, Accept(m)
          PROVE  UNCHANGED <<ledger, Started, Deleted>>
      <4>1. Deleted' = Deleted
        BY <3>2 DEF Accept, Deleted, TypeInv, TypeOK, RowTypes
      <4> QED
        BY <3>2, <4>1 DEF Accept, Writes, Started
    <3>3. ASSUME NEW m \in Members, RemoveMember(m)
          PROVE  Ledger!Next
      BY <3>3, DeletesRows DEF RemoveMember, Writes
    <3>4. ASSUME NEW g, DeleteGarden(g)
          PROVE  Ledger!Next
      BY <3>4, DeletesRows DEF DeleteGarden, Writes
    <3>5. ASSUME NEW u \in Users, CloseAccount(u)
          PROVE  Ledger!Next
      BY <3>5, DeletesRows DEF CloseAccount, Writes
    <3>6. ASSUME NEW u \in Users, SaveAccount(u) \/ \E b \in Browsers : SubscribeBrowser(u, b)
          PROVE  UNCHANGED <<row, ledger, tx>>
      BY <3>6 DEF SaveAccount, SubscribeBrowser, Writes
    <3>7. ASSUME NEW b \in Browsers, RemoveBrowser(b)
          PROVE  UNCHANGED <<row, ledger, tx>>
      BY <3>7 DEF RemoveBrowser, Writes
    <3> QED
      BY <2>2, <3>1, <3>2, <3>3, <3>4, <3>5, <3>6, <3>7, LedgerFrameStep DEF Handler
  <2>3. CASE Clock \/ Wakes \/ HandlerWakes \/ Starts
    BY <2>3, LedgerFrameStep DEF Clock, Wakes, HandlerWakes, Starts
  <2>4. CASE Stops \/ Exits
    BY <2>4, AbandonsSend DEF Stops, Exits
  <2>5. CASE UNCHANGED vars
    BY <2>5, LedgerFrameStep DEF vars
  <2> QED
    BY <2>1, <2>2, <2>3, <2>4, <2>5 DEF Next
<1>3. TypeInv /\ LedgerInv /\ [Next]_vars => (TypeInv /\ LedgerInv)'
  BY TypeStep, LedgerStep
<1>4. Init => TypeInv /\ LedgerInv
  BY TypeStart, LedgerStart
<1> QED
  BY <1>1, <1>2, <1>3, <1>4, PTL DEF Spec, SendsOnce, Ledger!Spec, Started, Deleted

(* Each digest of a member is for a later day than the ones before,         *)
(* whatever timezones they move through while a look is using the rows it   *)
(* read (nextDigest, hour.go; ListDigestMembers).                           *)
THEOREM DaysIncrease == Spec => DigestDaysIncrease
<1> USE DEF jobVars, wakeVars, memberVars, accountVars, listVars, bounds
<1> DEFINE Later == \A m \in Members : \A k \in DigestKeys(m)' \ DigestKeys(m) : k > SentThrough(m)
<1>1. ASSUME ledger' \subseteq ledger PROVE Later
  BY <1>1 DEF DigestKeys
<1>2. ASSUME TypeInv, NEW s \in Send, ledger' = ledger \cup {s},
             s.kind = digestKind => s.key > SentThrough(s.m)
      PROVE  Later
  BY <1>2 DEF DigestKeys
<1>3. TypeInv /\ LedgerInv /\ [Next]_vars => Later
  <2> SUFFICES ASSUME TypeInv, LedgerInv, [Next]_vars PROVE Later
    OBVIOUS
  <2> HIDE DEF Later
  <2>1. CASE SettleReminder
    <3>1. PICK r \in reminders :
            ledger' = ledger \cup {[m |-> r.m, kind |-> reminderKind, key |-> r.at]}
      BY <2>1 DEF SettleReminder
    <3> QED
      BY <3>1, <1>2, ReminderRow DEF reminderKind, digestKind
  <2>2. CASE SettleDigest
    <3>1. PICK r \in members :
            /\ ledger' = ledger \cup {[m |-> r.m, kind |-> digestKind, key |-> DigestKey(r)]}
            /\ row[r.m] = "row"
      BY <2>2 DEF SettleDigest
    <3>2. DigestKey(r) > SentThrough(r.m)
      BY <3>1, MemberRow DEF LedgerInv, ListInv
    <3> QED
      BY <3>1, <3>2, <1>2, MemberRow
  <2>3. CASE CommitSend
    <3>1. tx.open /\ tx \in Tx /\ ledger' = ledger \cup {tx.send}
      BY <2>3, OpenTx DEF CommitSend, TypeInv, TxOpen
    <3>2. tx.send \in Send /\ tx.send.m \in Members /\ tx.send.key \in Nat
      BY <3>1, TxTypes
    <3>3. ASSUME tx.send.kind = digestKind PROVE tx.send.key > SentThrough(tx.send.m)
      <4>1. \A k \in DigestKeys(tx.send.m) : k < tx.send.key
        BY <3>1, <3>3 DEF LedgerInv, SendingInv
      <4>2. SentThrough(tx.send.m) \in DigestKeys(tx.send.m) \/ SentThrough(tx.send.m) = NoDay
        BY <3>2 DEF SentThrough, TypeInv, LedgerMax
      <4> QED
        BY <3>2, <4>1, <4>2, ConstantTypes
    <3> QED
      BY <3>1, <3>2, <3>3, <1>2
  <2>4. CASE LookStep /\ ~SettleReminder /\ ~SettleDigest /\ ~CommitSend
    <3>1. ledger' = ledger
      BY <2>4 DEF LookStep, JobStep, JobFault, ListReminders, ReminderNotDue, SendReminder,
                  ListMembers, DigestNotDue, SendDigest, EndLook, SendOne, ReminderFails,
                  ListFails, DigestFails, RollBackSend
    <3> QED
      BY <3>1, <1>1
  <2>5. CASE Handler
    <3>1. ledger' \subseteq ledger
      BY <2>5 DEF Handler, LoadRemindLater, SetReminder, RescheduleReminder, RemoveReminder,
                  RefuseReminder, SaveNotifications, SaveMembers, Accept, RemoveMember, DeleteGarden,
                  SaveAccount, CloseAccount, RemoveBrowser, SubscribeBrowser, DeleteMemberships
    <3> QED
      BY <3>1, <1>1
  <2>6. CASE Clock \/ Wakes \/ HandlerWakes \/ Starts \/ Stops \/ Exits \/ UNCHANGED vars
    <3>1. ledger' = ledger
      BY <2>6 DEF Clock, Wakes, HandlerWakes, Starts, Stops, Exits, vars
    <3> QED
      BY <3>1, <1>1
  <2> QED
    BY <2>1, <2>2, <2>3, <2>4, <2>5, <2>6 DEF Next
<1>4. TypeInv /\ LedgerInv /\ [Next]_vars => (TypeInv /\ LedgerInv)'
  BY TypeStep, LedgerStep
<1>5. Init => TypeInv /\ LedgerInv
  BY TypeStart, LedgerStart
<1> QED
  BY <1>3, <1>4, <1>5, PTL DEF Spec, DigestDaysIncrease

(* The job empties remind_again_at only together with the ledger row for    *)
(* the very time it empties (ClearReminder): a time a member sets or moves  *)
(* while the one before it is being sent is kept.                           *)
THEOREM ReminderIsKept == Spec => ReminderKept
<1> USE DEF jobVars, wakeVars, memberVars, accountVars, listVars, bounds
<1> DEFINE Kept == \A m \in Members :
              remind[m] # NoTime /\ remind'[m] = NoTime /\ req'[m] = req[m] =>
                  [m |-> m, kind |-> reminderKind, key |-> remind[m]] \in ledger'
<1>1. TypeInv /\ LedgerInv /\ [Next]_vars => Kept
  <2> SUFFICES ASSUME TypeInv, LedgerInv, [Next]_vars PROVE Kept
    OBVIOUS
  <2>0. remind \in [Members -> Time \cup {NoTime}] /\ req \in [Members -> Time \cup {NoTime}]
    BY DEF TypeInv, TypeOK, RowTypes
  <2>1. CASE SettleReminder
    <3>1. PICK r \in reminders :
            /\ remind' = ClearReminder(r.m, r.at)
            /\ ledger' = ledger \cup {[m |-> r.m, kind |-> reminderKind, key |-> r.at]}
      BY <2>1 DEF SettleReminder
    <3> QED
      BY <2>0, <3>1, ReminderRow DEF ClearReminder
  <2>2. CASE CommitSend
    <3>1. /\ tx.open /\ tx \in Tx
          /\ remind' = IF tx.cleared THEN [remind EXCEPT ![tx.send.m] = NoTime] ELSE remind
          /\ ledger' = ledger \cup {tx.send}
      BY <2>2, OpenTx DEF CommitSend, TypeInv, TxOpen
    <3>2. tx.send = [m |-> tx.send.m, kind |-> tx.send.kind, key |-> tx.send.key]
      BY <3>1, TxTypes DEF Send
    <3>3. tx.cleared => tx.send.kind = reminderKind /\ remind[tx.send.m] = tx.send.key
      BY <3>1 DEF LedgerInv, TxInv
    <3> QED
      BY <2>0, <3>1, <3>2, <3>3
  <2>3. ASSUME NEW m \in Members, SetReminder(m) \/ RescheduleReminder(m) \/ RemoveReminder(m)
        PROVE  Kept
    <3>1. /\ req[m] # NoTime /\ req' = [req EXCEPT ![m] = NoTime]
          /\ \E at : remind' = [remind EXCEPT ![m] = at]
      BY <2>3 DEF SetReminder, RescheduleReminder, RemoveReminder, Answered
    <3> QED
      BY <2>0, <3>1
  <2>4. ASSUME remind' = remind PROVE Kept
    BY <2>4
  <2> HIDE DEF Kept
  <2>5. CASE LookStep /\ ~SettleReminder /\ ~CommitSend
    <3>1. remind' = remind
      BY <2>5 DEF LookStep, JobStep, JobFault, ListReminders, ReminderNotDue, SendReminder,
                  ListMembers, DigestNotDue, SettleDigest, SendDigest, EndLook, SendOne,
                  ReminderFails, ListFails, DigestFails, RollBackSend
    <3> QED
      BY <3>1, <2>4
  <2>6. CASE Handler
    <3>1. ASSUME NEW m \in Members,
                 \/ LoadRemindLater(m) \/ RefuseReminder(m) \/ SaveNotifications(m)
                 \/ SaveMembers(m) \/ Accept(m) \/ RemoveMember(m) \/ DeleteGarden(GardenOf[m])
          PROVE  remind' = remind
      BY <3>1 DEF LoadRemindLater, RefuseReminder, SaveNotifications, SaveMembers, Accept,
                  RemoveMember, DeleteGarden, DeleteMemberships
    <3>2. ASSUME NEW u \in Users, SaveAccount(u) \/ CloseAccount(u)
          PROVE  remind' = remind
      BY <3>2 DEF SaveAccount, CloseAccount, DeleteMemberships
    <3>3. ASSUME NEW b \in Browsers, RemoveBrowser(b) \/ \E u \in Users : SubscribeBrowser(u, b)
          PROVE  remind' = remind
      BY <3>3 DEF RemoveBrowser, SubscribeBrowser
    <3> QED
      BY <2>3, <2>4, <2>6, <3>1, <3>2, <3>3 DEF Handler
  <2>7. CASE Clock \/ Wakes \/ HandlerWakes \/ Starts \/ Stops \/ Exits \/ UNCHANGED vars
    <3>1. remind' = remind
      BY <2>7 DEF Clock, Wakes, HandlerWakes, Starts, Stops, Exits, vars
    <3> QED
      BY <3>1, <2>4
  <2> QED
    BY <2>1, <2>2, <2>5, <2>6, <2>7 DEF Next
<1>2. TypeInv /\ LedgerInv /\ [Next]_vars => (TypeInv /\ LedgerInv)'
  BY TypeStep, LedgerStep
<1>3. Init => TypeInv /\ LedgerInv
  BY TypeStart, LedgerStart
<1> QED
  BY <1>1, <1>2, <1>3, PTL DEF Spec, ReminderKept

-----------------------------------------------------------------------------
(* No wake is lost: whatever handlers commit while the job looks, the job  *)
(* goes to sleep with a wake on its way or with its timer set for no later *)
(* than every reminder and digest that is waiting.  The invariant:         *)

\* No wake is on its way.
Quiet == ~wake /\ calls = 0

\* The two lists are empty outside the loops over them.
ListsEmpty ==
    /\ pc \notin {"reminders", "deliver"} => reminders = {}
    /\ pc \notin {"digests", "deliver"} => members = {}
    /\ tx.open /\ tx.send.kind = reminderKind => members = {} /\ tx.then = NoTime
    /\ tx.open /\ tx.send.kind = digestKind => reminders = {} /\ tx.then \in Nat

\* Unless a wake is on its way, the settings the look has read are the ones in
\* the rows.
Fresh ==
    Quiet =>
        /\ \A r \in members :
              row[r.m] = "row" => r.hour = hour[r.m] /\ r.zone = zone[UserOf[r.m]]
        /\ tx.open /\ tx.send.kind = digestKind =>
              tx.then = nextDigest(hour[tx.send.m], zone[UserOf[tx.send.m]], tx.send.key, lookNow)

\* Every waiting reminder is still in the list, is being cleared, or is one the
\* job looks again for.
RemindersCovered ==
    Quiet /\ pc \in {"reminders", "digests", "deliver", "asleep"} =>
        \A m \in Members :
            Waiting(m, now) =>
                \/ [m |-> m, at |-> remind[m]] \in reminders
                \/ tx.open /\ tx.send.m = m /\ tx.cleared
                \/ LooksBy(remind[m])

\* And so is the next digest of every subscribed member.
DigestsCovered ==
    Quiet /\ (pc \in {"digests", "asleep"} \/ (tx.open /\ tx.send.kind = digestKind)) =>
        \A m \in Members :
            Subscribed(m, now) =>
                \/ \E r \in members : r.m = m
                \/ tx.open /\ tx.send.m = m
                \/ LooksBy(NextDigestOf(m))

WakeInv == ListsEmpty /\ Fresh /\ RemindersCovered /\ DigestsCovered

IInv == TypeInv /\ LedgerInv /\ WakeInv

-----------------------------------------------------------------------------
\* The instants in the state are integers.
TimesAreInts ==
    /\ now \in Int /\ next \in Int /\ lookNow \in Int /\ lookNow <= now
    /\ \A m \in Members : /\ ends[m] \in Int /\ remind[m] \in Int
                          /\ UserOf[m] \in Users

(* They are, given the types.                                               *)
LEMMA TimeTypes == TypeInv => TimesAreInts
<1> SUFFICES ASSUME TypeInv PROVE TimesAreInts
  OBVIOUS
<1>1. Time \subseteq Int /\ EndTimes \subseteq Int /\ NoTime \in Int
  BY ConstantTypes
<1>2. now \in Time /\ next \in Int /\ lookNow \in StartTime .. now
  BY DEF TypeInv, TypeOK, JobTypes
<1>3. lookNow \in Int /\ lookNow <= now
  BY <1>2
<1>4. \A m \in Members : ends[m] \in EndTimes \cup {NoTime} /\ remind[m] \in Time \cup {NoTime}
  BY DEF TypeInv, TypeOK, RowTypes
<1>5. \A m \in Members : UserOf[m] \in Users
  BY DigestAssumption
<1> QED
  BY <1>1, <1>2, <1>3, <1>4, <1>5 DEF TimesAreInts

(* And stay so.                                                             *)
LEMMA TimeTypesNext == TypeInv' => TimesAreInts'
BY TimeTypes, PTL

(* A timer that is early enough stays so as the clock moves on and when it  *)
(* is brought forward.                                                      *)
LEMMA LooksByKept ==
    ASSUME NEW n \in Int, NEW o \in Int, NEW t \in Int, NEW u \in Int, NEW at \in Int,
           NEW bt \in Int, NEW f, NEW g,
           n <= at \/ (f /\ n <= t + RetryAfter),
           o <= n, t <= u, at <= bt, f => g
    PROVE  o <= bt \/ (g /\ o <= u + RetryAfter)
<1>1. RetryAfter \in Int
  BY JobAssumption
<1>2. CASE n <= at
  <2>1. o <= bt
    BY <1>2
  <2> QED
    BY <2>1
<1>3. CASE f /\ n <= t + RetryAfter
  <2>1. o <= u + RetryAfter
    BY <1>1, <1>3
  <2> QED
    BY <1>3, <2>1
<1> QED
  BY <1>2, <1>3

(* The next digest of a member whose row is as it was.                      *)
LEMMA NextDigestKept ==
    ASSUME TypeInv, TypeInv', NEW m \in Members, now <= now',
           hour'[m] = hour[m], zone'[UserOf[m]] = zone[UserOf[m]],
           SentThrough(m)' = SentThrough(m)
    PROVE  /\ NextDigestOf(m) \in Int /\ NextDigestOf(m)' \in Int
           /\ NextDigestOf(m) <= NextDigestOf(m)'
<1>1. /\ hour[m] \in Hours /\ zone[UserOf[m]] \in Zones /\ now \in Time /\ now' \in Time
  BY ConstantTypes DEF TypeInv, TypeOK, RowTypes, JobTypes
<1>2. SentThrough(m) \in Nat \cup {NoDay}
  BY SentThroughType
<1>3. NextDigestOf(m)' = nextDigest(hour[m], zone[UserOf[m]], SentThrough(m), now')
  BY DEF NextDigestOf
<1>4. NextDigestOf(m) = nextDigest(hour[m], zone[UserOf[m]], SentThrough(m), now)
  BY DEF NextDigestOf
<1>5. hour[m] \in Nat /\ now \in Int /\ now' \in Int /\ SentThrough(m) \in Int
  <2>1. hour[m] \in Nat
    BY <1>1, ConstantTypes
  <2> QED
    BY <2>1, SentThroughType, TimeTypes, TimeTypesNext DEF TimesAreInts
<1> QED
  BY <1>1, <1>2, <1>3, <1>4, <1>5, NextTypes, NextDigestMono

(* A member who can be reached later, with no row or browser added, could   *)
(* be reached before.                                                       *)
LEMMA ReachableBefore ==
    ASSUME TypeInv, TypeInv', NEW m \in Members, NEW t \in Int, NEW u \in Int, t <= u,
           row'[m] = "row" => row[m] = "row", ends'[m] = ends[m],
           \A b \in Browsers : owner'[b] = UserOf[m] => owner[b] = UserOf[m],
           Reachable(m, u)'
    PROVE  Reachable(m, t)
<1>1. ends[m] \in Int
  BY TimeTypes DEF TimesAreInts
<1> QED
  BY <1>1 DEF Reachable, Live, BrowsersOf

(* The settings stay fresh when the look only uses up its list.             *)
LEMMA FreshKept ==
    ASSUME TypeInv, Fresh, UNCHANGED <<row, hour, zone, lookNow, wake, calls>>,
           members' \subseteq members,
           \/ ~tx'.open
           \/ tx'.open = tx.open /\ tx'.send = tx.send /\ tx'.then = tx.then
    PROVE  Fresh'
BY DEF Fresh, Quiet

(* With a retry coming, every reminder and digest is looked for again.      *)
LEMMA RetryCovers ==
    ASSUME TypeInv', failed', next' # NoTime, next' <= now' + RetryAfter
    PROVE  RemindersCovered' /\ DigestsCovered'
BY DEF RemindersCovered, DigestsCovered, LooksBy

(* A handler that has yet to call Wake, or a wake in the channel.           *)
LEMMA LoudKeeps ==
    ASSUME WakeInv, ~Quiet', UNCHANGED <<pc, reminders, members, tx>>
    PROVE  WakeInv'
BY DEF WakeInv, ListsEmpty, Fresh, RemindersCovered, DigestsCovered, Quiet

(* A job that is about to look, or does not run.                            *)
LEMMA IdleKeeps ==
    ASSUME TypeInv', pc' \in {"look", "down", "stopped"}, reminders' = {}, members' = {}
    PROVE  WakeInv'
<1>1. ~tx'.open
  BY DEF TypeInv, TxOpen
<1> QED
  BY <1>1 DEF WakeInv, ListsEmpty, Fresh, RemindersCovered, DigestsCovered

(* The clock, and the changes after which no handler calls Wake: a browser  *)
(* or a member goes, a request is opened or refused.                        *)
LEMMA ShrinkKeeps ==
    ASSUME TypeInv, TypeInv', WakeInv, now <= now',
           UNCHANGED <<jobVars, wakeVars, listVars, tx, ends, on, hour, remind, zone>>,
           \A m \in Members : row'[m] = "row" => row[m] = "row" /\ SentThrough(m)' = SentThrough(m),
           \A b \in Browsers : \A u \in Users : owner'[b] = u => owner[b] = u
    PROVE  WakeInv'
<1> USE DEF jobVars, wakeVars, listVars
<1>0. /\ now \in Int /\ now' \in Int /\ next \in Int
      /\ \A m \in Members : UserOf[m] \in Users /\ remind[m] \in Int
  BY TimeTypes, TimeTypesNext DEF TimesAreInts
<1>1. ListsEmpty'
  BY DEF WakeInv, ListsEmpty
<1>2. Fresh'
  <2>1. \A r \in members : r.m \in Members
    BY MemberRow
  <2> QED
    BY <2>1 DEF WakeInv, Fresh, Quiet
<1>3. RemindersCovered'
  <2> SUFFICES ASSUME Quiet', pc' \in {"reminders", "digests", "deliver", "asleep"},
                      NEW m \in Members, Waiting(m, now)'
               PROVE  \/ [m |-> m, at |-> remind[m]]' \in reminders'
                      \/ tx'.open /\ tx'.send.m = m /\ tx'.cleared
                      \/ LooksBy(remind[m])'
    BY DEF RemindersCovered
  <2>1. Waiting(m, now)
    BY <1>0, ReachableBefore DEF Waiting
  <2>2. \/ [m |-> m, at |-> remind[m]] \in reminders
        \/ tx.open /\ tx.send.m = m /\ tx.cleared
        \/ LooksBy(remind[m])
    BY <2>1 DEF WakeInv, RemindersCovered, Quiet
  <2>3. LooksBy(remind[m]) => LooksBy(remind[m])'
    BY <1>0, LooksByKept DEF LooksBy
  <2> QED
    BY <2>2, <2>3
<1>4. DigestsCovered'
  <2> SUFFICES ASSUME Quiet', pc' \in {"digests", "asleep"} \/ (tx'.open /\ tx'.send.kind = digestKind),
                      NEW m \in Members, Subscribed(m, now)'
               PROVE  \/ \E r \in members' : r.m = m
                      \/ tx'.open /\ tx'.send.m = m
                      \/ LooksBy(NextDigestOf(m))'
    BY DEF DigestsCovered
  <2>1. Subscribed(m, now) /\ row'[m] = "row"
    BY <1>0, ReachableBefore DEF Subscribed, Reachable, Live
  <2>2. \/ \E r \in members : r.m = m
        \/ tx.open /\ tx.send.m = m
        \/ LooksBy(NextDigestOf(m))
    BY <2>1 DEF WakeInv, DigestsCovered, Quiet
  <2>3. NextDigestOf(m) \in Int /\ NextDigestOf(m)' \in Int /\ NextDigestOf(m) <= NextDigestOf(m)'
    BY <2>1, NextDigestKept
  <2>4. LooksBy(NextDigestOf(m)) => LooksBy(NextDigestOf(m))'
    BY <1>0, <2>3, LooksByKept DEF LooksBy
  <2> QED
    BY <2>2, <2>4
<1> QED
  BY <1>1, <1>2, <1>3, <1>4 DEF WakeInv

(* A later look would find a digest no earlier than this one did.           *)
LEMMA LaterDigest ==
    ASSUME TypeInv, NEW h \in Hours, NEW z \in Zones, NEW sent \in Nat \cup {NoDay}
    PROVE  /\ nextDigest(h, z, sent, lookNow) \in Nat
           /\ nextDigest(h, z, sent, now) \in Nat
           /\ nextDigest(h, z, sent, lookNow) <= nextDigest(h, z, sent, now)
<1>1. now \in Time /\ lookNow \in Time
  BY ConstantTypes DEF TypeInv, TypeOK, JobTypes, Time
<1>2. now \in Int /\ lookNow \in Int /\ lookNow <= now
  BY TimeTypes DEF TimesAreInts
<1>3. h \in Nat /\ sent \in Int
  BY ConstantTypes
<1> QED
  BY <1>1, <1>2, <1>3, NextTypes, NextDigestMono

\* The timer is left alone or brought forward.
BroughtForward == next' = next \/ \E at \in Nat : next' = soonest(next, at)

(* It then is no later than it was.                                         *)
LEMMA EarlierTimer ==
    ASSUME TypeInv, BroughtForward, next # NoTime
    PROVE  next' # NoTime /\ next' <= next
<1>1. next \in Int
  BY TimeTypes DEF TimesAreInts
<1> QED
  BY <1>1, SoonestType DEF BroughtForward

(* The reminders stay covered in a step of the look that accounts for the   *)
(* reminders it takes off the list and for the one it was clearing.         *)
LEMMA RemindersKept ==
    ASSUME TypeInv, TypeInv', RemindersCovered,
           pc \in {"reminders", "digests", "deliver", "asleep"},
           UNCHANGED <<now, row, ends, wakeVars, failed>>,
           \A b \in Browsers : \A u \in Users : owner'[b] = u => owner[b] = u,
           BroughtForward,
           \A m \in Members : remind'[m] \in {remind[m], NoTime},
           \A m \in Members : [m |-> m, at |-> remind[m]] \in reminders =>
              \/ remind'[m] = NoTime
              \/ [m |-> m, at |-> remind[m]] \in reminders'
              \/ tx'.open /\ tx'.send.m = m /\ tx'.cleared
              \/ next' # NoTime /\ next' <= remind[m],
           \A m \in Members : tx.open /\ tx.send.m = m /\ tx.cleared =>
              \/ remind'[m] = NoTime
              \/ tx'.open /\ tx'.send.m = m /\ tx'.cleared
    PROVE  RemindersCovered'
<1> SUFFICES ASSUME Quiet', NEW m \in Members, Waiting(m, now)'
             PROVE  \/ [m |-> m, at |-> remind[m]]' \in reminders'
                    \/ tx'.open /\ tx'.send.m = m /\ tx'.cleared
                    \/ LooksBy(remind[m])'
  BY DEF RemindersCovered
<1>1. now \in Int /\ next \in Int /\ next' \in Int /\ remind[m] \in Int /\ UserOf[m] \in Users
  BY TimeTypes, TimeTypesNext DEF TimesAreInts
<1>2. remind'[m] = remind[m] /\ remind[m] # NoTime
  BY DEF Waiting
<1>3. Waiting(m, now)
  BY <1>1, <1>2, ReachableBefore DEF Waiting
<1>4. \/ [m |-> m, at |-> remind[m]] \in reminders
      \/ tx.open /\ tx.send.m = m /\ tx.cleared
      \/ LooksBy(remind[m])
  BY <1>3 DEF RemindersCovered, Quiet, wakeVars
<1>5. ASSUME LooksBy(remind[m]) PROVE LooksBy(remind[m])'
  BY <1>1, <1>2, <1>5, EarlierTimer, LooksByKept DEF LooksBy
<1>6. ASSUME next' # NoTime, next' <= remind[m] PROVE LooksBy(remind[m])'
  BY <1>2, <1>6 DEF LooksBy
<1> QED
  BY <1>2, <1>4, <1>5, <1>6

(* Likewise the digests.                                                    *)
LEMMA DigestsKept ==
    ASSUME TypeInv, TypeInv', DigestsCovered,
           pc \in {"digests", "asleep"} \/ (tx.open /\ tx.send.kind = digestKind),
           UNCHANGED <<now, row, ends, on, hour, zone, wakeVars, failed>>,
           \A b \in Browsers : \A u \in Users : owner'[b] = u => owner[b] = u,
           BroughtForward,
           \A m \in Members : Quiet /\ row[m] = "row" =>
              \/ next' # NoTime /\ next' <= NextDigestOf(m)'
              \/ /\ SentThrough(m)' = SentThrough(m)
                 /\ (\E r \in members : r.m = m) =>
                       (\E r \in members' : r.m = m) \/ (tx'.open /\ tx'.send.m = m)
                 /\ tx.open /\ tx.send.m = m => tx'.open /\ tx'.send.m = m
    PROVE  DigestsCovered'
<1> SUFFICES ASSUME Quiet', NEW m \in Members, Subscribed(m, now)'
             PROVE  \/ \E r \in members' : r.m = m
                    \/ tx'.open /\ tx'.send.m = m
                    \/ LooksBy(NextDigestOf(m))'
  BY DEF DigestsCovered
<1>1. now \in Int /\ next \in Int /\ next' \in Int /\ UserOf[m] \in Users
  BY TimeTypes, TimeTypesNext DEF TimesAreInts
<1>2. Subscribed(m, now) /\ row[m] = "row" /\ Quiet
  BY <1>1, ReachableBefore DEF Subscribed, Reachable, Live, Quiet, wakeVars
<1>3. \/ \E r \in members : r.m = m
      \/ tx.open /\ tx.send.m = m
      \/ LooksBy(NextDigestOf(m))
  BY <1>2 DEF DigestsCovered
<1>4. CASE next' # NoTime /\ next' <= NextDigestOf(m)'
  BY <1>4 DEF LooksBy
<1>5. CASE SentThrough(m)' = SentThrough(m) /\ LooksBy(NextDigestOf(m))
  <2>1. NextDigestOf(m) \in Int /\ NextDigestOf(m)' \in Int /\ NextDigestOf(m) <= NextDigestOf(m)'
    BY <1>1, <1>5, NextDigestKept
  <2> QED
    BY <1>1, <1>5, <2>1, EarlierTimer, LooksByKept DEF LooksBy
<1> QED
  BY <1>2, <1>3, <1>4, <1>5

(* The loop over the reminders keeps the invariant.                         *)
LEMMA RemindersLoop ==
    ASSUME TypeInv, TypeInv', LedgerInv, WakeInv,
           ListReminders \/ ReminderNotDue \/ SettleReminder \/ SendReminder \/ ListMembers
    PROVE  WakeInv'
<1> USE DEF jobVars, wakeVars, memberVars, accountVars, listVars, bounds
<1>0. ListsEmpty /\ Fresh /\ RemindersCovered /\ DigestsCovered
  BY DEF WakeInv
<1>1. CASE ListReminders
  <2>1. ~tx.open /\ tx' = tx /\ members' = {} /\ pc' = "reminders"
    BY <1>0, <1>1 DEF ListReminders, TypeInv, TxOpen, ListsEmpty
  <2>2. RemindersCovered'
    <3>1. \A m \in Members : Waiting(m, now)' => [m |-> m, at |-> remind[m]]' \in reminders'
      BY <1>1 DEF ListReminders, Waiting, Reachable, Live, BrowsersOf
    <3> QED
      BY <3>1 DEF RemindersCovered
  <2> QED
    BY <2>1, <2>2 DEF WakeInv, ListsEmpty, Fresh, DigestsCovered
<1>2. CASE ReminderNotDue
  <2>1. PICK r \in reminders :
          next' = soonest(next, r.at) /\ reminders' = reminders \ {r}
    BY <1>2 DEF ReminderNotDue
  <2>2. /\ pc = "reminders" /\ ~tx.open /\ members = {}
        /\ UNCHANGED <<now, pc, lookNow, failed, wakeVars, memberVars, accountVars, members, tx>>
    BY <1>0, <1>2 DEF ReminderNotDue, TypeInv, TxOpen, ListsEmpty
  <2>3. r.at \in Nat /\ r.m \in Members
    BY ReminderRow
  <2>4. next' # NoTime /\ next' <= r.at
    BY <2>1, <2>3, TimeTypes, SoonestType DEF TimesAreInts
  <2>5. BroughtForward
    BY <2>1, <2>3 DEF BroughtForward
  <2>6. \A m \in Members : [m |-> m, at |-> remind[m]] \in reminders =>
           [m |-> m, at |-> remind[m]] \in reminders' \/ (next' # NoTime /\ next' <= remind[m])
    BY <2>1, <2>4
  <2>7. RemindersCovered'
    BY <1>0, <2>2, <2>5, <2>6, RemindersKept
  <2> QED
    BY <2>2, <2>7 DEF WakeInv, ListsEmpty, Fresh, DigestsCovered
<1>3. CASE SettleReminder
  <2>1. PICK r \in reminders : remind' = ClearReminder(r.m, r.at) /\ reminders' = reminders \ {r}
    BY <1>3 DEF SettleReminder
  <2>2. /\ pc = "reminders" /\ ~tx.open /\ members = {}
        /\ UNCHANGED <<now, jobVars, wakeVars, row, ends, on, hour, accountVars, members, tx>>
    BY <1>0, <1>3 DEF SettleReminder, TypeInv, TxOpen, ListsEmpty
  <2>3. r.m \in Members /\ remind \in [Members -> Time \cup {NoTime}]
    BY ReminderRow DEF TypeInv, TypeOK, RowTypes
  <2>4. \A m \in Members : remind'[m] \in {remind[m], NoTime}
    BY <2>1, <2>3 DEF ClearReminder
  <2>5. \A m \in Members : [m |-> m, at |-> remind[m]] \in reminders =>
           remind'[m] = NoTime \/ [m |-> m, at |-> remind[m]] \in reminders'
    BY <2>1, <2>3 DEF ClearReminder
  <2>6. RemindersCovered'
    BY <1>0, <2>2, <2>4, <2>5, RemindersKept DEF BroughtForward
  <2> QED
    BY <2>2, <2>6 DEF WakeInv, ListsEmpty, Fresh, DigestsCovered
<1>4. CASE SendReminder
  <2>1. PICK r \in reminders :
          /\ tx' = [open |-> TRUE, send |-> [m |-> r.m, kind |-> reminderKind, key |-> r.at],
                    cleared |-> remind[r.m] = r.at, then |-> NoTime,
                    todo |-> BrowsersOf(UserOf[r.m]), gone |-> {}]
          /\ reminders' = reminders \ {r}
    BY <1>4 DEF SendReminder
  <2>2. /\ pc = "reminders" /\ pc' = "deliver" /\ ~tx.open /\ members = {}
        /\ UNCHANGED <<now, lookNow, next, failed, wakeVars, memberVars, accountVars, members>>
    BY <1>0, <1>4 DEF SendReminder, TypeInv, TxOpen, ListsEmpty
  <2>3. tx'.open /\ tx'.send.m = r.m /\ tx'.send.kind = reminderKind /\ tx'.then = NoTime
        /\ (tx'.cleared <=> remind[r.m] = r.at)
    BY <2>1
  <2>4. \A m \in Members : [m |-> m, at |-> remind[m]] \in reminders =>
           \/ [m |-> m, at |-> remind[m]] \in reminders'
           \/ tx'.open /\ tx'.send.m = m /\ tx'.cleared
    BY <2>1, <2>3
  <2>5. RemindersCovered'
    BY <1>0, <2>2, <2>4, RemindersKept DEF BroughtForward
  <2>6. tx'.send.kind # digestKind
    BY <2>3 DEF digestKind, reminderKind
  <2> QED
    BY <2>2, <2>3, <2>5, <2>6 DEF WakeInv, ListsEmpty, Fresh, DigestsCovered
<1>5. CASE ListMembers
  <2>1. /\ pc = "reminders" /\ pc' = "digests" /\ reminders = {} /\ ~tx.open
        /\ UNCHANGED <<now, lookNow, next, failed, wakeVars, memberVars, accountVars, ledger,
                       reminders, tx>>
    BY <1>5 DEF ListMembers, TypeInv, TxOpen
  <2>2. RemindersCovered'
    BY <1>0, <2>1, RemindersKept DEF BroughtForward
  <2>3. \A r \in members' : \E m \in Members :
           r = [m |-> m, hour |-> hour[m], zone |-> zone[UserOf[m]], sent |-> SentThrough(m)]
    BY <1>5 DEF ListMembers
  <2>4. Fresh'
    BY <2>1, <2>3 DEF Fresh
  <2>5. \A m \in Members : Subscribed(m, now)' => Subscribed(m, lookNow)
    <3> SUFFICES ASSUME NEW m \in Members, Subscribed(m, now)' PROVE Subscribed(m, lookNow)
      OBVIOUS
    <3>1. now \in Int /\ lookNow \in Int /\ lookNow <= now
      BY TimeTypes DEF TimesAreInts
    <3> QED
      BY <2>1, <3>1, ReachableBefore DEF Subscribed
  <2>6. \A m \in Members : Subscribed(m, lookNow) => \E r \in members' : r.m = m
    <3> SUFFICES ASSUME NEW m \in Members, Subscribed(m, lookNow)
                 PROVE  \E r \in members' : r.m = m
      OBVIOUS
    <3>1. [m |-> m, hour |-> hour[m], zone |-> zone[UserOf[m]], sent |-> SentThrough(m)] \in members'
      BY <1>5 DEF ListMembers
    <3> QED
      BY <3>1
  <2>7. DigestsCovered'
    BY <2>5, <2>6 DEF DigestsCovered
  <2> QED
    BY <2>1, <2>2, <2>4, <2>7 DEF WakeInv, ListsEmpty
<1> QED
  BY <1>1, <1>2, <1>3, <1>4, <1>5

(* The loop over the members keeps it.                                      *)
LEMMA DigestsLoop ==
    ASSUME TypeInv, TypeInv', LedgerInv, WakeInv,
           DigestNotDue \/ SettleDigest \/ SendDigest \/ EndLook
    PROVE  WakeInv'
<1> USE DEF jobVars, wakeVars, memberVars, accountVars, listVars, bounds
<1>0. ListsEmpty /\ Fresh /\ RemindersCovered /\ DigestsCovered
  BY DEF WakeInv
<1>1. pc = "digests" /\ ~tx.open /\ reminders = {} /\ next \in Int
  BY <1>0, TimeTypes DEF DigestNotDue, SettleDigest, SendDigest, EndLook, TypeInv, TxOpen, ListsEmpty,
                         TimesAreInts
<1>2. UNCHANGED <<now, lookNow, failed, wakeVars, memberVars, accountVars, reminders>>
  BY DEF DigestNotDue, SettleDigest, SendDigest, EndLook, Sleep
<1>3. ASSUME NEW r \in members, Quiet, row[r.m] = "row"
      PROVE  r.hour = hour[r.m] /\ r.zone = zone[UserOf[r.m]] /\ r.sent = SentThrough(r.m)
  BY <1>0, <1>3 DEF Fresh, LedgerInv, ListInv
<1>4. CASE DigestNotDue
  <2>1. PICK r \in members : next' = soonest(next, DigestAt(r)) /\ members' = members \ {r}
    BY <1>4 DEF DigestNotDue
  <2>2. pc' = pc /\ tx' = tx /\ ledger' = ledger
    BY <1>4 DEF DigestNotDue
  <2>3. next' # NoTime /\ next' <= DigestAt(r) /\ next' \in Int /\ DigestAt(r) \in Nat /\ BroughtForward
    BY <1>1, <2>1, MemberRow, SoonestType DEF BroughtForward
  <2>4. RemindersCovered'
    BY <1>0, <1>1, <1>2, <2>2, <2>3, RemindersKept
  <2>5. Fresh'
    BY <1>0, <1>1, <1>2, <2>1, <2>2, FreshKept
  <2>6. ASSUME Quiet, row[r.m] = "row" PROVE next' <= NextDigestOf(r.m)'
    <3>1. /\ r.m \in Members /\ r.hour \in Hours /\ r.zone \in Zones
          /\ r.sent \in Nat \cup {NoDay}
      BY MemberRow
    <3>2. NextDigestOf(r.m)' = nextDigest(r.hour, r.zone, r.sent, now)
      BY <1>2, <1>3, <2>2, <2>6, <3>1, SameLedger DEF NextDigestOf
    <3>3. /\ DigestAt(r) <= nextDigest(r.hour, r.zone, r.sent, now)
          /\ nextDigest(r.hour, r.zone, r.sent, now) \in Nat
      BY <3>1, LaterDigest DEF DigestAt
    <3> QED
      BY <2>3, <3>2, <3>3
  <2>7. \A m \in Members : SentThrough(m)' = SentThrough(m)
    BY <2>2, SameLedger
  <2>8. \A m \in Members : Quiet /\ row[m] = "row" =>
           \/ next' # NoTime /\ next' <= NextDigestOf(m)'
           \/ /\ SentThrough(m)' = SentThrough(m)
              /\ (\E q \in members : q.m = m) => (\E q \in members' : q.m = m)
    BY <2>1, <2>3, <2>6, <2>7
  <2>9. DigestsCovered'
    BY <1>0, <1>1, <1>2, <2>3, <2>8, DigestsKept
  <2> QED
    BY <1>1, <1>2, <2>2, <2>4, <2>5, <2>9 DEF WakeInv, ListsEmpty
<1>5. CASE SettleDigest
  <2>1. PICK r \in members :
          /\ ledger' = ledger \cup {[m |-> r.m, kind |-> digestKind, key |-> DigestKey(r)]}
          /\ next' = soonest(next, DigestAfter(r, DigestKey(r)))
          /\ members' = members \ {r}
    BY <1>5 DEF SettleDigest
  <2> DEFINE s == [m |-> r.m, kind |-> digestKind, key |-> DigestKey(r)]
  <2>2. pc' = pc /\ tx' = tx
    BY <1>5 DEF SettleDigest
  <2>3. /\ next' # NoTime /\ next' <= DigestAfter(r, DigestKey(r)) /\ next' \in Int
        /\ DigestAfter(r, DigestKey(r)) \in Nat /\ BroughtForward
    BY <1>1, <2>1, MemberRow, SoonestType DEF BroughtForward
  <2>4. RemindersCovered'
    BY <1>0, <1>1, <1>2, <2>2, <2>3, RemindersKept
  <2>5. Fresh'
    BY <1>0, <1>1, <1>2, <2>1, <2>2, FreshKept
  <2>6. ASSUME Quiet, row[r.m] = "row" PROVE next' <= NextDigestOf(r.m)'
    <3>1. /\ r.m \in Members /\ r.hour \in Hours /\ r.zone \in Zones
          /\ DigestKey(r) \in Nat /\ DigestKey(r) > r.sent /\ s \in Send
      BY MemberRow
    <3>2. s.m = r.m /\ s.kind = digestKind /\ s.key = DigestKey(r) /\ s.key > SentThrough(r.m)
      BY <1>3, <2>6, <3>1
    <3>3. SentThrough(r.m)' = DigestKey(r)
      BY <2>1, <3>1, <3>2, OwnDigest
    <3>4. NextDigestOf(r.m)' = nextDigest(r.hour, r.zone, DigestKey(r), now)
      BY <1>2, <1>3, <2>6, <3>1, <3>3 DEF NextDigestOf
    <3> QED
      BY <2>3, <3>1, <3>4, LaterDigest DEF DigestAfter
  <2>7. \A m \in Members : m # r.m => SentThrough(m)' = SentThrough(m)
    BY <2>1, OtherSend
  <2>8. \A m \in Members : Quiet /\ row[m] = "row" =>
           \/ next' # NoTime /\ next' <= NextDigestOf(m)'
           \/ /\ SentThrough(m)' = SentThrough(m)
              /\ (\E q \in members : q.m = m) => (\E q \in members' : q.m = m)
    BY <2>1, <2>3, <2>6, <2>7
  <2>9. DigestsCovered'
    BY <1>0, <1>1, <1>2, <2>3, <2>8, DigestsKept
  <2> QED
    BY <1>1, <1>2, <2>2, <2>4, <2>5, <2>9 DEF WakeInv, ListsEmpty
<1>6. CASE SendDigest
  <2>1. PICK r \in members :
          /\ tx' = [open |-> TRUE, send |-> [m |-> r.m, kind |-> digestKind, key |-> DigestKey(r)],
                    cleared |-> FALSE, then |-> DigestAfter(r, DigestKey(r)),
                    todo |-> BrowsersOf(UserOf[r.m]), gone |-> {}]
          /\ row[r.m] = "row"
          /\ members' = members \ {r}
    BY <1>6 DEF SendDigest
  <2>2. /\ tx'.open /\ tx'.send.m = r.m /\ tx'.send.kind = digestKind
        /\ tx'.send.key = DigestKey(r) /\ tx'.then = DigestAfter(r, DigestKey(r))
    BY <2>1
  <2>3. pc' = "deliver" /\ next' = next /\ ledger' = ledger
    BY <1>6 DEF SendDigest
  <2>4. RemindersCovered'
    BY <1>0, <1>1, <1>2, <2>3, RemindersKept DEF BroughtForward
  <2>5. Fresh'
    <3> SUFFICES ASSUME Quiet'
                 PROVE  /\ \A q \in members' : row'[q.m] = "row" =>
                              q.hour = hour'[q.m] /\ q.zone = zone'[UserOf[q.m]]
                        /\ tx'.then = nextDigest(hour'[tx'.send.m], zone'[UserOf[tx'.send.m]],
                                                 tx'.send.key, lookNow')
      BY DEF Fresh
    <3>1. Quiet
      BY <1>2 DEF Quiet
    <3>2. tx'.then = nextDigest(hour[r.m], zone[UserOf[r.m]], DigestKey(r), lookNow)
      BY <1>3, <2>1, <2>2, <3>1 DEF DigestAfter
    <3> QED
      BY <1>2, <1>3, <2>1, <2>2, <3>1, <3>2
  <2>6. \A m \in Members : SentThrough(m)' = SentThrough(m)
    BY <2>3, SameLedger
  <2>7. \A m \in Members : (\E q \in members : q.m = m) =>
           (\E q \in members' : q.m = m) \/ (tx'.open /\ tx'.send.m = m)
    BY <2>1, <2>2
  <2>8. DigestsCovered'
    BY <1>0, <1>1, <1>2, <2>3, <2>6, <2>7, DigestsKept DEF BroughtForward
  <2>9. tx'.then \in Nat /\ tx'.send.kind # reminderKind
    BY <2>2, MemberRow DEF digestKind, reminderKind
  <2> QED
    BY <1>1, <1>2, <2>2, <2>3, <2>4, <2>5, <2>8, <2>9 DEF WakeInv, ListsEmpty
<1>7. CASE EndLook
  <2>1. pc' = "asleep" /\ members = {} /\ UNCHANGED <<next, members, tx, ledger>>
    BY <1>7 DEF EndLook, Sleep
  <2>2. RemindersCovered'
    BY <1>0, <1>1, <1>2, <2>1, RemindersKept DEF BroughtForward
  <2>3. Fresh'
    BY <1>0, <1>1, <1>2, <2>1, FreshKept
  <2>4. \A m \in Members : SentThrough(m)' = SentThrough(m)
    BY <2>1, SameLedger
  <2>5. DigestsCovered'
    BY <1>0, <1>1, <1>2, <2>1, <2>4, DigestsKept DEF BroughtForward
  <2> QED
    BY <1>1, <1>2, <2>1, <2>2, <2>3, <2>5 DEF WakeInv, ListsEmpty
<1> QED
  BY <1>4, <1>5, <1>6, <1>7

(* So do the steps of a send.                                               *)
LEMMA DeliverSteps ==
    ASSUME TypeInv, TypeInv', LedgerInv, WakeInv, SendOne \/ CommitSend
    PROVE  WakeInv'
<1> USE DEF jobVars, wakeVars, memberVars, accountVars, listVars, bounds
<1>0. ListsEmpty /\ Fresh /\ RemindersCovered /\ DigestsCovered
  BY DEF WakeInv
<1>1. pc = "deliver" /\ tx.open /\ tx \in Tx /\ next \in Int
  BY OpenTx, TimeTypes DEF SendOne, CommitSend, TypeInv, TxOpen, TimesAreInts
<1>2. tx.send \in Send /\ tx.send.m \in Members /\ tx.send.kind \in {digestKind, reminderKind}
  BY <1>1, TxTypes
<1>3. CASE SendOne
  <2>1. /\ tx'.open = tx.open /\ tx'.send = tx.send /\ tx'.then = tx.then
        /\ tx'.cleared = tx.cleared
    BY <1>1, <1>3 DEF SendOne, Tx
  <2>2. UNCHANGED <<now, jobVars, wakeVars, memberVars, accountVars, ledger, listVars>>
    BY <1>3 DEF SendOne
  <2>3. RemindersCovered'
    BY <1>0, <1>1, <2>1, <2>2, RemindersKept DEF BroughtForward
  <2>4. Fresh'
    BY <1>0, <2>1, <2>2, FreshKept
  <2>5. \A m \in Members : SentThrough(m)' = SentThrough(m)
    BY <2>2, SameLedger
  <2>6. DigestsCovered'
    <3>1. CASE tx.send.kind = digestKind
      BY <1>0, <1>1, <2>1, <2>2, <2>5, <3>1, DigestsKept DEF BroughtForward
    <3>2. CASE tx.send.kind # digestKind
      BY <1>1, <2>1, <2>2, <3>2 DEF DigestsCovered
    <3> QED
      BY <3>1, <3>2
  <2> QED
    BY <1>0, <2>1, <2>2, <2>3, <2>4, <2>6 DEF WakeInv, ListsEmpty
<1>4. CASE CommitSend
  <2>1. /\ ledger' = ledger \cup {tx.send}
        /\ remind' = IF tx.cleared THEN [remind EXCEPT ![tx.send.m] = NoTime] ELSE remind
        /\ pc' = ResumeAt(tx.send.kind)
        /\ next' = IF tx.then = NoTime THEN next ELSE soonest(next, tx.then)
        /\ tx' = NoTx
        /\ UNCHANGED <<now, lookNow, failed, wakeVars, row, ends, on, hour, zone, listVars>>
    BY <1>4 DEF CommitSend
  <2>2. \A b \in Browsers : \A u \in Users : owner'[b] = u => owner[b] = u
    BY <1>4, DigestAssumption DEF CommitSend, TypeInv, TypeOK, RowTypes
  <2>3. ~tx'.open
    BY <2>1, TxTypes
  <2>4. remind \in [Members -> Time \cup {NoTime}]
    BY DEF TypeInv, TypeOK, RowTypes
  <2>5. tx.then = NoTime \/ tx.then \in Nat
    BY <1>0, <1>1, <1>2 DEF ListsEmpty
  <2>6. BroughtForward
    BY <2>1, <2>5 DEF BroughtForward
  <2>7. RemindersCovered'
    <3>1. \A m \in Members : remind'[m] \in {remind[m], NoTime}
      BY <1>2, <2>1, <2>4
    <3>2. tx.cleared => remind'[tx.send.m] = NoTime
      BY <1>2, <2>1, <2>4
    <3> QED
      BY <1>0, <1>1, <2>1, <2>2, <2>6, <3>1, <3>2, RemindersKept
  <2>8. Fresh'
    BY <1>0, <2>1, <2>3, FreshKept
  <2>9. CASE tx.send.kind = reminderKind
    <3>1. pc' = "reminders" /\ members = {}
      BY <1>0, <1>1, <2>1, <2>9 DEF ResumeAt, ListsEmpty
    <3> QED
      BY <2>1, <2>3, <2>7, <2>8, <3>1 DEF WakeInv, ListsEmpty, DigestsCovered
  <2>10. CASE tx.send.kind = digestKind
    <3>1. pc' = "digests" /\ reminders = {} /\ tx.then \in Nat
      BY <1>0, <1>1, <2>1, <2>10 DEF ResumeAt, ListsEmpty, reminderKind, digestKind
    <3>2. next' # NoTime /\ next' <= tx.then /\ next' \in Int
      <4>1. next' = soonest(next, tx.then)
        BY <2>1, <3>1, ConstantTypes
      <4> QED
        BY <1>1, <3>1, <4>1, SoonestType
    <3>3. ASSUME Quiet, NEW m \in Members, m = tx.send.m PROVE next' <= NextDigestOf(m)'
      <4>1. tx.then = nextDigest(hour[m], zone[UserOf[m]], tx.send.key, lookNow)
        BY <1>0, <1>1, <2>10, <3>3 DEF Fresh
      <4>2. tx.send.key \in Nat /\ tx.send.key > SentThrough(m)
        <5>1. \A k \in DigestKeys(m) : k < tx.send.key
          BY <1>1, <2>10, <3>3 DEF LedgerInv, SendingInv
        <5>2. SentThrough(m) \in DigestKeys(m) \/ SentThrough(m) = NoDay
          BY DEF SentThrough, TypeInv, LedgerMax
        <5> QED
          BY <1>2, <5>1, <5>2, ConstantTypes, TxTypes
      <4>3. SentThrough(m)' = tx.send.key
        BY <1>2, <2>1, <2>10, <3>3, <4>2, OwnDigest
      <4>4. NextDigestOf(m)' = nextDigest(hour[m], zone[UserOf[m]], tx.send.key, now)
        BY <2>1, <4>3 DEF NextDigestOf
      <4>5. hour[m] \in Hours /\ zone[UserOf[m]] \in Zones
        BY ConstantTypes DEF TypeInv, TypeOK, RowTypes
      <4>6. tx.then <= NextDigestOf(m)' /\ NextDigestOf(m)' \in Nat
        BY <4>1, <4>2, <4>4, <4>5, LaterDigest
      <4> QED
        BY <3>1, <3>2, <4>6
    <3>4. \A m \in Members : m # tx.send.m => SentThrough(m)' = SentThrough(m)
      BY <2>1, OtherSend
    <3>5. \A m \in Members : Quiet /\ row[m] = "row" =>
             \/ next' # NoTime /\ next' <= NextDigestOf(m)'
             \/ SentThrough(m)' = SentThrough(m) /\ m # tx.send.m
      BY <3>2, <3>3, <3>4
    <3>6. DigestsCovered'
      BY <1>0, <1>1, <2>1, <2>2, <2>6, <2>10, <3>5, DigestsKept
    <3> QED
      BY <2>1, <2>3, <2>7, <2>8, <3>1, <3>6 DEF WakeInv, ListsEmpty
  <2> QED
    BY <1>2, <2>9, <2>10
<1> QED
  BY <1>3, <1>4

(* After an error the timer is set for a retry.                             *)
LEMMA FaultSteps ==
    ASSUME TypeInv, TypeInv', WakeInv, JobFault
    PROVE  WakeInv'
<1> USE DEF jobVars, wakeVars, memberVars, accountVars, listVars, bounds
<1>0. ListsEmpty /\ Fresh
  BY DEF WakeInv
<1>1. now \in Int /\ next \in Int /\ lookNow \in Int /\ lookNow <= now /\ RetryAfter \in Nat
  BY TimeTypes, JobAssumption DEF TimesAreInts
<1>2. lookNow + RetryAfter \in Nat
  BY JobAssumption DEF TypeInv, TypeOK, JobTypes
<1>3. /\ failed' /\ now' = now
      /\ next' = now + RetryAfter \/ next' = soonest(next, lookNow + RetryAfter)
  BY DEF JobFault, ReminderFails, ListFails, DigestFails, RollBackSend, LookFailed
<1>4. next' # NoTime /\ next' <= now' + RetryAfter
  <2>1. CASE next' = now + RetryAfter
    BY <1>1, <1>2, <1>3, <2>1, ConstantTypes
  <2>2. CASE next' = soonest(next, lookNow + RetryAfter)
    <3>1. next' \in Int /\ next' # NoTime /\ next' <= lookNow + RetryAfter
      BY <1>1, <1>2, <2>2, SoonestType
    <3> QED
      BY <1>1, <1>3, <3>1
  <2> QED
    BY <1>3, <2>1, <2>2
<1>5. RemindersCovered' /\ DigestsCovered'
  BY <1>3, <1>4, RetryCovers
<1>6. CASE ReminderFails \/ DigestFails
  <2>1. UNCHANGED <<row, hour, zone, lookNow, wake, calls, pc, tx>> /\ members' \subseteq members
        /\ reminders' \subseteq reminders
    BY <1>6 DEF ReminderFails, DigestFails
  <2>2. Fresh'
    BY <1>0, <2>1, FreshKept
  <2> QED
    BY <1>0, <1>5, <2>1, <2>2 DEF WakeInv, ListsEmpty
<1>7. CASE ListFails
  <2>1. reminders' = {} /\ members' = {} /\ pc' = "asleep"
    BY <1>0, <1>7 DEF ListFails, LookFailed, ListsEmpty
  <2>2. ~tx'.open
    BY <2>1 DEF TypeInv, TxOpen
  <2> QED
    BY <1>5, <2>1, <2>2 DEF WakeInv, ListsEmpty, Fresh
<1>8. CASE RollBackSend
  <2>1. /\ pc = "deliver" /\ pc' = ResumeAt(tx.send.kind) /\ tx' = NoTx
        /\ UNCHANGED <<row, hour, zone, lookNow, wake, calls, members, reminders>>
    BY <1>8 DEF RollBackSend
  <2>2. tx.open /\ tx.send.kind \in {digestKind, reminderKind} /\ ~tx'.open
    BY <2>1, OpenTx, TxTypes DEF TypeInv, TxOpen
  <2>3. Fresh'
    BY <1>0, <2>1, <2>2, FreshKept
  <2>4. ListsEmpty'
    BY <1>0, <2>1, <2>2 DEF ListsEmpty, ResumeAt, digestKind, reminderKind
  <2> QED
    BY <1>5, <2>3, <2>4 DEF WakeInv
<1> QED
  BY <1>6, <1>7, <1>8 DEF JobFault

(* The handlers keep it: those that could bring a reminder or a digest      *)
(* forward call Wake, and the others only take away.                        *)
LEMMA HandlerSteps ==
    ASSUME TypeInv, TypeInv', LedgerInv, WakeInv, Handler
    PROVE  WakeInv'
<1> USE DEF jobVars, wakeVars, memberVars, accountVars, listVars, bounds, Writes, CommittedChange
<1>0. calls \in Nat /\ now \in Int
  BY TimeTypes DEF TypeInv, TypeOK, JobTypes, TimesAreInts
<1>1. ASSUME NEW m \in Members,
             \/ SetReminder(m) \/ RescheduleReminder(m) \/ RemoveReminder(m) \/ SaveNotifications(m)
             \/ SaveMembers(m) \/ Accept(m) \/ DeleteGarden(GardenOf[m])
      PROVE  WakeInv'
  <2>1. calls' = calls + 1 /\ UNCHANGED <<pc, reminders, members, tx>>
    BY <1>1 DEF SetReminder, RescheduleReminder, RemoveReminder, SaveNotifications, SaveMembers,
                Accept, DeleteGarden
  <2> QED
    BY <1>0, <2>1, LoudKeeps DEF Quiet
<1>2. ASSUME NEW u \in Users,
             \/ SaveAccount(u) \/ CloseAccount(u) \/ \E b \in Browsers : SubscribeBrowser(u, b)
      PROVE  WakeInv'
  <2>1. calls' = calls + 1 /\ UNCHANGED <<pc, reminders, members, tx>>
    BY <1>2 DEF SaveAccount, CloseAccount, SubscribeBrowser
  <2> QED
    BY <1>0, <2>1, LoudKeeps DEF Quiet
<1>3. ASSUME NEW m \in Members, LoadRemindLater(m) \/ RefuseReminder(m)
      PROVE  WakeInv'
  <2>1. UNCHANGED <<now, jobVars, wakeVars, listVars, tx, memberVars, accountVars, ledger>>
    BY <1>3 DEF LoadRemindLater, RefuseReminder
  <2> QED
    BY <1>0, <2>1, SameLedger, ShrinkKeeps
<1>4. ASSUME NEW b \in Browsers, RemoveBrowser(b)
      PROVE  WakeInv'
  <2>1. UNCHANGED <<now, jobVars, wakeVars, listVars, tx, memberVars, zone, ledger>>
    BY <1>4 DEF RemoveBrowser
  <2>2. \A c \in Browsers : \A u \in Users : owner'[c] = u => owner[c] = u
    BY <1>4, DigestAssumption DEF RemoveBrowser, TypeInv, TypeOK, RowTypes
  <2> QED
    BY <1>0, <2>1, <2>2, SameLedger, ShrinkKeeps
<1>5. ASSUME NEW m \in Members, RemoveMember(m)
      PROVE  WakeInv'
  <2>1. UNCHANGED <<now, jobVars, wakeVars, listVars, tx, ends, on, hour, remind, accountVars>>
    BY <1>5 DEF RemoveMember, DeleteMemberships
  <2>2. \A x \in Members : row'[x] = "row" => row[x] = "row" /\ x \notin {m}
    BY <1>5 DEF RemoveMember, DeleteMemberships
  <2>3. ledger' = {s \in ledger : s.m \notin {m}}
    BY <1>5 DEF RemoveMember, DeleteMemberships
  <2>4. \A x \in Members : row'[x] = "row" => SentThrough(x)' = SentThrough(x)
    BY <2>2, <2>3, KeysDeleted
  <2> QED
    BY <1>0, <2>1, <2>2, <2>4, ShrinkKeeps
<1> QED
  BY <1>1, <1>2, <1>3, <1>4, <1>5 DEF Handler

(* IInv is inductive.                                                       *)
LEMMA WakeStep == IInv /\ [Next]_vars => IInv'
<1> SUFFICES ASSUME TypeInv, LedgerInv, WakeInv, [Next]_vars PROVE IInv'
  BY DEF IInv
<1> USE DEF jobVars, wakeVars, memberVars, accountVars, listVars, bounds
<1>1. TypeInv' /\ LedgerInv'
  BY TypeStep, LedgerStep
<1>2. WakeInv'
  <2>0. now \in Int /\ (pc \in {"down", "asleep"} => reminders = {} /\ members = {})
    BY TimeTypes DEF TimesAreInts, WakeInv, ListsEmpty
  <2>1. CASE JobStep
    BY <1>1, <2>1, RemindersLoop, DigestsLoop, DeliverSteps DEF JobStep
  <2>2. CASE JobFault
    BY <1>1, <2>2, FaultSteps
  <2>3. CASE Handler
    BY <1>1, <2>3, HandlerSteps
  <2>4. CASE Clock \/ UNCHANGED vars
    <3>1. /\ UNCHANGED <<jobVars, wakeVars, listVars, tx, memberVars, accountVars, ledger>>
          /\ now <= now'
      BY <2>0, <2>4 DEF Clock, Tick, vars
    <3> QED
      BY <1>1, <3>1, SameLedger, ShrinkKeeps
  <2>5. CASE Wakes \/ Starts
    <3>1. pc' = "look" /\ reminders' = {} /\ members' = {}
      BY <2>0, <2>5 DEF Wakes, Woken, Fired, Starts, StartJob
    <3> QED
      BY <1>1, <3>1, IdleKeeps
  <2>6. CASE HandlerWakes
    BY <2>6, LoudKeeps DEF HandlerWakes, CallWake, Quiet
  <2>7. CASE Stops \/ Exits
    <3>1. pc' \in {"stopped", "down"} /\ reminders' = {} /\ members' = {}
      BY <2>7 DEF Stops, StopJob, Exits, Exit
    <3> QED
      BY <1>1, <3>1, IdleKeeps
  <2> QED
    BY <2>1, <2>2, <2>3, <2>4, <2>5, <2>6, <2>7 DEF Next, LookStep
<1> QED
  BY <1>1, <1>2 DEF IInv

(* The job never sleeps past a reminder or a digest: while no wake is on    *)
(* its way its timer is set for no later than each of them, or for a retry, *)
(* whatever was committed between the queries of its last look.             *)
THEOREM WakeIsNeverLost == Spec => []NoLostWake
<1>1. Init => IInv
  <2>1. Init => WakeInv
    BY TxTypes DEF Init, JobInit, WakeInv, ListsEmpty, Fresh, RemindersCovered, DigestsCovered
  <2> QED
    BY <2>1, TypeStart, LedgerStart DEF IInv
<1>2. IInv => NoLostWake
  <2> SUFFICES ASSUME IInv, pc = "asleep", ~wake, calls = 0, NEW m \in Members
               PROVE  /\ Waiting(m, now) => LooksBy(remind[m])
                      /\ Subscribed(m, now) => LooksBy(NextDigestOf(m))
    BY DEF NoLostWake
  <2>1. ~tx.open /\ reminders = {} /\ members = {}
    BY DEF IInv, TypeInv, TxOpen, WakeInv, ListsEmpty
  <2> QED
    BY <2>1 DEF IInv, WakeInv, RemindersCovered, DigestsCovered, Quiet
<1> QED
  BY <1>1, <1>2, WakeStep, PTL DEF Spec
===============================================================================
