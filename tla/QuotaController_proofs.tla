------------------------ MODULE QuotaController_proofs ------------------------
(***************************************************************************)
(* Theorems about QuotaController and WeeklyController, for every schedule,*)
(* allowance, meter, set of estimates and history of passes.               *)
(*                                                                         *)
(* Induction over the natural numbers is the least element of a set: the   *)
(* theorems of the library that take the claim as an operator cannot be    *)
(* cited, those about well-founded relations can.                          *)
(***************************************************************************)
EXTENDS WeeklyController, FiniteSetTheorems, SequenceTheorems, TLAPS

-----------------------------------------------------------------------------
LEMMA SmallestExists ==
    ASSUME NEW T, T \subseteq Nat, T # {}
    PROVE  \E x \in T : \A y \in T : x <= y
<1> DEFINE R == {pair \in Nat \X Nat : pair[1] < pair[2]}
<1>1. IsWellFoundedOn(R, Nat)
  BY NatLessThanWellFounded DEF OpToRel
<1>2. PICK x \in T : \A y \in T : <<y, x>> \notin R
  <2> HIDE DEF R
  <2> QED
    BY <1>1, WFMin
<1>3. ASSUME NEW y \in T PROVE x <= y
  <2>1. x \in Nat /\ y \in Nat /\ <<y, x>> \notin R
    BY <1>2
  <2> QED
    BY <2>1
<1> QED
  BY <1>3

LEMMA SetInduction ==
    ASSUME NEW S, 0 \in S, \A n \in Nat : n \in S => n + 1 \in S
    PROVE  \A n \in Nat : n \in S
<1> DEFINE T == {n \in Nat : n \notin S}
<1>1. SUFFICES ASSUME T # {} PROVE FALSE
  OBVIOUS
<1>2. PICK x \in T : \A y \in T : x <= y
  <2>1. T \subseteq Nat
    OBVIOUS
  <2> HIDE DEF T
  <2> QED
    BY <1>1, <2>1, SmallestExists
<1>3. x \in Nat \ {0} /\ x - 1 \in Nat /\ x \notin S
  OBVIOUS
<1>4. x - 1 \in S
  BY <1>2, <1>3
<1> QED
  BY <1>3, <1>4

LEMMA TotalExists ==
    ASSUME NEW D \in [Nat -> Int]
    PROVE  \E s \in [Nat -> Int] :
             s = [n \in Nat |-> IF n = 0 THEN 0 ELSE s[n - 1] + D[n]]
<1> DEFINE Good(n, p) == \A i \in 0..n : p[i] = IF i = 0 THEN 0 ELSE p[i - 1] + D[i]
           Part(n) == {p \in [Nat -> Int] : Good(n, p)}
           part(n) == CHOOSE p \in Part(n) : TRUE
<1>1. \A n \in Nat : Part(n) # {}
  <2> DEFINE S == {n \in Nat : Part(n) # {}}
  <2>1. 0 \in S
    <3>1. [n \in Nat |-> 0] \in Part(0)
      OBVIOUS
    <3> QED
      BY <3>1
  <2>2. ASSUME NEW n \in Nat, n \in S PROVE n + 1 \in S
    <3>1. PICK p \in [Nat -> Int] : Good(n, p)
      BY <2>2
    <3> DEFINE q == [p EXCEPT ![n + 1] = p[n] + D[n + 1]]
    <3>2. q \in [Nat -> Int]
      OBVIOUS
    <3>3. Good(n + 1, q)
      <4> SUFFICES ASSUME NEW i \in 0..(n + 1)
                   PROVE q[i] = IF i = 0 THEN 0 ELSE q[i - 1] + D[i]
        OBVIOUS
      <4>1. CASE i = n + 1
        BY <4>1
      <4>2. CASE i \in 0..n
        BY <3>1, <4>2
      <4> QED
        BY <4>1, <4>2
    <3> HIDE DEF q
    <3>4. q \in Part(n + 1)
      BY <3>2, <3>3
    <3> QED
      BY <3>4
  <2> HIDE DEF S
  <2>3. \A n \in Nat : n \in S
    BY <2>1, <2>2, SetInduction
  <2> QED
    BY <2>3 DEF S
<1>2. \A n \in Nat : part(n) \in [Nat -> Int] /\ Good(n, part(n))
  BY <1>1
<1> DEFINE s == [n \in Nat |-> part(n)[n]]
<1> HIDE DEF part
<1>3. s \in [Nat -> Int]
  BY <1>2
<1>4. ASSUME NEW n \in Nat PROVE part(n + 1)[n] = part(n)[n]
  <2> DEFINE p == part(n)
             q == part(n + 1)
             S == {i \in Nat : i <= n => p[i] = q[i]}
  <2>0. p \in [Nat -> Int] /\ q \in [Nat -> Int] /\ Good(n, p) /\ Good(n + 1, q)
    BY <1>2
  <2> HIDE DEF p, q
  <2>1. 0 \in S
    BY <2>0
  <2>2. ASSUME NEW i \in Nat, i \in S PROVE i + 1 \in S
    <3>1. i + 1 <= n => p[i + 1] = p[i] + D[i + 1] /\ q[i + 1] = q[i] + D[i + 1]
      BY <2>0
    <3> QED
      BY <2>2, <3>1
  <2> HIDE DEF S
  <2>3. n \in S
    BY <2>1, <2>2, SetInduction
  <2> QED
    BY <2>3 DEF S, p, q
<1>5. ASSUME NEW n \in Nat PROVE s[n] = IF n = 0 THEN 0 ELSE s[n - 1] + D[n]
  <2>1. CASE n = 0
    BY <1>2, <2>1
  <2>2. CASE n # 0
    <3>1. n - 1 \in Nat /\ (n - 1) + 1 = n
      BY <2>2
    <3>2. part(n)[n] = part(n)[n - 1] + D[n]
      BY <1>2, <2>2
    <3>3. part(n)[n - 1] = part(n - 1)[n - 1]
      BY <1>4, <3>1
    <3> QED
      BY <2>2, <3>1, <3>2, <3>3
  <2> QED
    BY <2>1, <2>2
<1> HIDE DEF s
<1>6. s = [n \in Nat |-> IF n = 0 THEN 0 ELSE s[n - 1] + D[n]]
  BY <1>3, <1>5
<1> QED
  BY <1>3, <1>6

LEMMA DivisionIsUnique ==
    ASSUME NEW d \in Nat \ {0}, NEW q \in Nat, NEW r \in 0..(d - 1)
    PROVE  /\ (q * d + r) \div d = q
           /\ (q * d + r) % d = r
BY SMT

LEMMA Division ==
    ASSUME NEW d \in Nat \ {0}, NEW x \in Nat
    PROVE  /\ x \div d \in Nat /\ x % d \in 0..(d - 1)
           /\ x = (x \div d) * d + (x % d)
BY SMT

(* s adds up what the days from that of from onward contribute. *)
IsTotal(s, from, to) ==
    /\ s \in [Nat -> Nat]
    /\ s[0] = 0
    /\ \A n \in Nat : s[n + 1] = s[n] + Worked((from \div DayMinutes) + n, from, to)

LEMMA WorkedType ==
    ASSUME NEW day \in Nat, NEW from \in Nat, NEW to \in Nat
    PROVE  Worked(day, from, to) \in Nat
<1>1. DayPoint(day, Start) \in Int /\ DayPoint(day, HardEnd) \in Int
  BY ControllerAssumption DEF DayPoint
<1> QED
  BY <1>1 DEF Worked, ActiveOnDay, Lower, Higher

LEMMA TotalOf ==
    ASSUME NEW from \in Nat, NEW to \in Nat, from < to
    PROVE  \E s : /\ IsTotal(s, from, to)
                  /\ ActiveMinutesBetween(from, to)
                       = s[(to \div DayMinutes) - (from \div DayMinutes) + 1]
<1> DEFINE first == from \div DayMinutes
           D == [n \in Nat |-> IF n = 0 THEN 0 ELSE Worked(first + n - 1, from, to)]
           Total(s) == s = [n \in Nat |->
               IF n = 0 THEN 0 ELSE s[n - 1] + Worked(first + n - 1, from, to)]
           total == CHOOSE s : Total(s)
<1>1. first \in Nat
  BY Division, ControllerAssumption
<1> HIDE DEF first
<1>2. \A n \in Nat \ {0} : first + n - 1 \in Nat
  BY <1>1
<1>3. \A n \in Nat \ {0} : Worked(first + n - 1, from, to) \in Nat
  BY <1>2, WorkedType
<1>4. D \in [Nat -> Int]
  BY <1>3
<1>5. PICK s \in [Nat -> Int] : s = [n \in Nat |-> IF n = 0 THEN 0 ELSE s[n - 1] + D[n]]
  <2> HIDE DEF D
  <2> QED
    BY <1>4, TotalExists
<1>6. Total(s)
  BY <1>5
<1>7. Total(total)
  <2> HIDE DEF Total
  <2> QED
    BY <1>6
<1> HIDE DEF total
<1>8. IsTotal(total, from, to)
  <2>1. /\ DOMAIN total = Nat /\ total[0] = 0
        /\ \A n \in Nat \ {0} : total[n] = total[n - 1] + Worked(first + n - 1, from, to)
    BY <1>7
  <2>2. \A n \in Nat : total[n + 1] = total[n] + Worked(first + n, from, to)
    <3> TAKE n \in Nat
    <3>1. n + 1 \in Nat \ {0} /\ (n + 1) - 1 = n /\ first + (n + 1) - 1 = first + n
      BY <1>1
    <3> QED
      BY <2>1, <3>1
  <2> DEFINE S == {n \in Nat : total[n] \in Nat}
  <2>3. 0 \in S
    BY <2>1
  <2>4. ASSUME NEW n \in Nat, n \in S PROVE n + 1 \in S
    <3>1. first + n \in Nat
      BY <1>1
    <3>2. Worked(first + n, from, to) \in Nat
      BY <3>1, WorkedType
    <3>3. total[n + 1] = total[n] + Worked(first + n, from, to)
      BY <2>2
    <3> QED
      BY <2>4, <3>2, <3>3
  <2> HIDE DEF S
  <2>5. \A n \in Nat : n \in S
    BY <2>3, <2>4, SetInduction
  <2>6. \A n \in Nat : total[n] \in Nat
    BY <2>5 DEF S
  <2>7. total \in [Nat -> Nat]
    BY <1>7, <2>6
  <2> QED
    BY <2>1, <2>2, <2>7 DEF IsTotal, first
<1>9. ActiveMinutesBetween(from, to) = total[(to \div DayMinutes) - first + 1]
  BY DEF ActiveMinutesBetween, total, first
<1> QED
  BY <1>8, <1>9 DEF first

(* The working windows, minute by minute. *)
Working(t) ==
    /\ (t \div DayMinutes) % Days \in ActiveWeekdays
    /\ t % DayMinutes \in Start..(HardEnd - 1)

Minute(t) == IF Working(t) THEN 1 ELSE 0

LEMMA DayAhead ==
    ASSUME NEW t \in Nat, NEW n \in Nat \ {0}
    PROVE  (t \div DayMinutes) * DayMinutes + DayMinutes
             <= ((t \div DayMinutes) + n) * DayMinutes
<1> DEFINE first == t \div DayMinutes
<1>1. first \in Nat /\ DayMinutes \in Nat
  BY Division, ControllerAssumption
<1> HIDE DEF first
<1>2. (first + n) * DayMinutes = first * DayMinutes + n * DayMinutes
  BY <1>1
<1>3. DayMinutes * 1 <= DayMinutes * n
  BY <1>1
<1> QED
  BY <1>1, <1>2, <1>3 DEF first

(* A minute less to go takes nothing from the later days, and from its own *)
(* day that minute if it is one of work.                                   *)
LEMMA WorkedLater ==
    ASSUME NEW t \in Nat, NEW to \in Nat, t < to, NEW n \in Nat \ {0}
    PROVE  Worked((t \div DayMinutes) + n, t, to) = Worked((t \div DayMinutes) + n, t + 1, to)
<1> DEFINE first == t \div DayMinutes
           base == first * DayMinutes
           there == (first + n) * DayMinutes
<1>1. /\ base \in Nat /\ there \in Nat /\ base + DayMinutes <= there
      /\ t < base + DayMinutes
  BY Division, DayAhead, ControllerAssumption
<1>2. DayPoint(first + n, Start) = there + Start /\ DayPoint(first + n, HardEnd) = there + HardEnd
  BY DEF DayPoint
<1> HIDE DEF base, there
<1>3. Higher(t, there + Start) = Higher(t + 1, there + Start)
  BY <1>1, ControllerAssumption DEF Higher
<1> HIDE DEF first
<1> QED
  BY <1>2, <1>3 DEF Worked, ActiveOnDay, first

LEMMA WorkedToday ==
    ASSUME NEW t \in Nat, NEW to \in Nat, t < to
    PROVE  Worked(t \div DayMinutes, t, to)
             = Worked(t \div DayMinutes, t + 1, to) + Minute(t)
<1> DEFINE first == t \div DayMinutes
           base == first * DayMinutes
           m == t % DayMinutes
<1>0. first \in Nat /\ m \in 0..(DayMinutes - 1) /\ t = base + m
  BY Division, ControllerAssumption
<1>1. base \in Nat /\ m \in 0..(DayMinutes - 1) /\ t = base + m
  <2> HIDE DEF first, m
  <2> QED
    BY <1>0, ControllerAssumption
<1>2. DayPoint(first, Start) = base + Start /\ DayPoint(first, HardEnd) = base + HardEnd
  BY DEF DayPoint
<1>3. /\ ActiveOnDay(first, t, to) \in Int /\ ActiveOnDay(first, t + 1, to) \in Int
      /\ ActiveOnDay(first, t, to) = ActiveOnDay(first, t + 1, to)
            + (IF m \in Start..(HardEnd - 1) THEN 1 ELSE 0)
  <2> HIDE DEF base, m
  <2> QED
    BY <1>1, <1>2, ControllerAssumption DEF ActiveOnDay, Lower, Higher
<1> QED
  BY <1>3 DEF Worked, Minute, Working

LEMMA MinuteByMinute ==
    ASSUME NEW t \in Nat, NEW to \in Nat, t < to
    PROVE  /\ ActiveMinutesBetween(t, to) \in Nat
           /\ ActiveMinutesBetween(t + 1, to) \in Nat
           /\ ActiveMinutesBetween(t, to) = ActiveMinutesBetween(t + 1, to) + Minute(t)
<1> DEFINE first == t \div DayMinutes
           next == (t + 1) \div DayMinutes
           last == to \div DayMinutes
<1> USE ControllerAssumption
<1>1. first \in Nat /\ next \in Nat /\ last \in Nat /\ Minute(t) \in {0, 1}
  BY Division DEF Minute
<1>2. PICK s : IsTotal(s, t, to) /\ ActiveMinutesBetween(t, to) = s[last - first + 1]
  BY TotalOf
<1>3. first <= next /\ next <= last
  <2>1. first * DayMinutes <= t /\ t < first * DayMinutes + DayMinutes
    BY Division
  <2>2. next * DayMinutes <= t + 1 /\ t + 1 < next * DayMinutes + DayMinutes
    BY Division
  <2>3. last * DayMinutes <= to /\ to < last * DayMinutes + DayMinutes
    BY Division
  <2>4. DayMinutes \in Nat \ {0}
    OBVIOUS
  <2> HIDE DEF first, next, last
  <2> QED
    BY <1>1, <2>1, <2>2, <2>3, <2>4, SMTT(30)
<1>4. last - first + 1 \in Nat /\ last - next + 1 \in Nat
  BY <1>1, <1>3
<1>5. ASSUME NEW n \in Nat \ {0}
      PROVE  Worked(first + n, t, to) = Worked(first + n, t + 1, to)
  BY WorkedLater
<1>6. Worked(first, t, to) = Worked(first, t + 1, to) + Minute(t)
  BY WorkedToday
<1>7. /\ next \in {first, first + 1}
      /\ next = first + 1 => t + 1 = first * DayMinutes + DayMinutes
  <2>1. first * DayMinutes <= t /\ t < first * DayMinutes + DayMinutes
    BY Division
  <2>2. CASE t + 1 < first * DayMinutes + DayMinutes
    <3>1. PICK r \in 0..(DayMinutes - 1) : first * DayMinutes + r = t + 1
      <4>1. first * DayMinutes \in Int
        BY <1>1
      <4> HIDE DEF first
      <4>2. (t + 1) - first * DayMinutes \in 0..(DayMinutes - 1)
        BY <2>1, <2>2, <4>1
      <4>3. first * DayMinutes + ((t + 1) - first * DayMinutes) = t + 1
        BY <4>1
      <4> QED
        BY <4>2, <4>3
    <3>2. (first * DayMinutes + r) \div DayMinutes = first
      BY <1>1, DivisionIsUnique
    <3>3. next = first
      BY <3>1, <3>2
    <3> QED
      BY <1>1, <3>3
  <2>3. CASE t + 1 = first * DayMinutes + DayMinutes
    <3>1. t + 1 = (first + 1) * DayMinutes + 0
      <4> HIDE DEF first
      <4> QED
        BY <1>1, <2>3
    <3>2. next = first + 1
      <4> DEFINE q == first + 1
      <4>1. q \in Nat /\ 0 \in 0..(DayMinutes - 1)
        BY <1>1
      <4>2. (q * DayMinutes + 0) \div DayMinutes = q
        <5> HIDE DEF q
        <5> QED
          BY <4>1, DivisionIsUnique
      <4> QED
        BY <3>1, <4>2
    <3> QED
      BY <2>3, <3>2
  <2> QED
    BY <1>1, <2>1, <2>2, <2>3
<1>8. \A day \in Nat : Worked(day, t, to) \in Nat /\ Worked(day, t + 1, to) \in Nat
  <2>1. t + 1 \in Nat
    OBVIOUS
  <2> QED
    BY <2>1, WorkedType
<1> HIDE DEF first, next, last
<1>9. ActiveMinutesBetween(t, to) \in Nat
  BY <1>2, <1>4 DEF IsTotal
<1>10. /\ s \in [Nat -> Nat] /\ s[0] = 0
       /\ \A n \in Nat : s[n + 1] = s[n] + Worked(first + n, t, to)
  BY <1>2 DEF IsTotal, first
<1>11. CASE t + 1 = to
  <2>1. \A day \in Nat : Worked(day, t + 1, to) = 0
    <3> TAKE day \in Nat
    <3>1. DayPoint(day, Start) \in Int /\ DayPoint(day, HardEnd) \in Int
      BY DEF DayPoint
    <3> QED
      BY <1>11, <3>1 DEF Worked, ActiveOnDay, Lower, Higher
  <2> DEFINE S == {n \in Nat : s[n + 1] = Minute(t)}
  <2>2. 0 \in S
    <3>1. s[0 + 1] = s[0] + Worked(first + 0, t, to) /\ first + 0 = first
      BY <1>1, <1>10
    <3> QED
      BY <1>1, <1>6, <1>10, <2>1, <3>1
  <2>3. ASSUME NEW n \in Nat, n \in S PROVE n + 1 \in S
    <3>1. /\ n + 1 \in Nat \ {0} /\ first + (n + 1) \in Nat
          /\ s[(n + 1) + 1] = s[n + 1] + Worked(first + (n + 1), t, to)
      BY <1>1, <1>10
    <3>2. Worked(first + (n + 1), t, to) = 0
      BY <1>5, <2>1, <3>1
    <3> QED
      BY <1>1, <2>3, <3>1, <3>2
  <2> HIDE DEF S
  <2>4. \A n \in Nat : n \in S
    BY <2>2, <2>3, SetInduction
  <2>5. last - first \in Nat
    BY <1>1, <1>3
  <2>6. s[(last - first) + 1] = Minute(t)
    BY <2>4, <2>5 DEF S
  <2>7. ActiveMinutesBetween(t + 1, to) = 0
    BY <1>11 DEF ActiveMinutesBetween
  <2> QED
    BY <1>1, <1>2, <1>9, <2>6, <2>7
<1>12. CASE t + 1 < to
  <2>1. PICK z : /\ IsTotal(z, t + 1, to)
                 /\ ActiveMinutesBetween(t + 1, to) = z[last - next + 1]
    <3>1. t + 1 \in Nat
      OBVIOUS
    <3> QED
      BY <1>12, <3>1, TotalOf DEF last, next
  <2>2. /\ z \in [Nat -> Nat] /\ z[0] = 0
        /\ \A n \in Nat : z[n + 1] = z[n] + Worked(next + n, t + 1, to)
    BY <2>1 DEF IsTotal, next
  <2>3. ActiveMinutesBetween(t + 1, to) \in Nat
    BY <1>4, <2>1, <2>2
  <2>4. CASE next = first
    <3> DEFINE S == {n \in Nat : s[n + 1] = z[n + 1] + Minute(t)}
    <3>1. 0 \in S
      <4>1. /\ s[0 + 1] = s[0] + Worked(first + 0, t, to)
            /\ z[0 + 1] = z[0] + Worked(next + 0, t + 1, to)
            /\ first + 0 = first /\ next + 0 = next
        BY <1>1, <1>10, <2>2
      <4>2. /\ Worked(first, t, to) \in Nat /\ Worked(first, t + 1, to) \in Nat
        BY <1>1, <1>8
      <4>3. s[0 + 1] = z[0 + 1] + Minute(t)
        BY <1>1, <1>6, <1>10, <2>2, <2>4, <4>1, <4>2
      <4> QED
        BY <4>3
    <3>2. ASSUME NEW n \in Nat, n \in S PROVE n + 1 \in S
      <4>1. /\ n + 1 \in Nat \ {0} /\ first + (n + 1) \in Nat
            /\ s[(n + 1) + 1] = s[n + 1] + Worked(first + (n + 1), t, to)
            /\ z[(n + 1) + 1] = z[n + 1] + Worked(first + (n + 1), t + 1, to)
        BY <1>1, <1>10, <2>2, <2>4
      <4>2. /\ Worked(first + (n + 1), t, to) = Worked(first + (n + 1), t + 1, to)
            /\ Worked(first + (n + 1), t + 1, to) \in Nat
        BY <1>5, <1>8, <4>1
      <4>3. s[(n + 1) + 1] = z[(n + 1) + 1] + Minute(t)
        <5>1. s[n + 1] = z[n + 1] + Minute(t) /\ s[n + 1] \in Nat /\ z[n + 1] \in Nat
          BY <1>10, <2>2, <3>2
        <5> QED
          BY <1>1, <4>1, <4>2, <5>1
      <4> QED
        BY <4>1, <4>3
    <3> HIDE DEF S
    <3>3. \A n \in Nat : n \in S
      BY <3>1, <3>2, SetInduction
    <3>4. last - first \in Nat
      BY <1>1, <1>3
    <3>5. s[(last - first) + 1] = z[(last - first) + 1] + Minute(t)
      BY <3>3, <3>4 DEF S
    <3> QED
      BY <1>2, <1>9, <2>1, <2>3, <2>4, <3>5
  <2>5. CASE next = first + 1
    <3> DEFINE S == {n \in Nat : s[n + 1] = z[n] + Minute(t)}
    <3>1. 0 \in S
      <4>1. s[0 + 1] = s[0] + Worked(first + 0, t, to) /\ first + 0 = first
        BY <1>1, <1>10
      <4>2. Worked(first, t + 1, to) = 0
        <5>1. t + 1 = DayPoint(first, DayMinutes) /\ DayPoint(first, Start) \in Int
              /\ DayPoint(first, HardEnd) <= t + 1 /\ DayPoint(first, HardEnd) \in Int
          BY <1>1, <1>7, <2>5 DEF DayPoint
        <5> QED
          BY <5>1 DEF Worked, ActiveOnDay, Lower, Higher
      <4>3. s[0 + 1] = z[0] + Minute(t)
        BY <1>1, <1>6, <1>10, <2>2, <4>1, <4>2
      <4> QED
        BY <4>3
    <3>2. ASSUME NEW n \in Nat, n \in S PROVE n + 1 \in S
      <4>1. /\ n + 1 \in Nat \ {0} /\ first + (n + 1) \in Nat
            /\ s[(n + 1) + 1] = s[n + 1] + Worked(first + (n + 1), t, to)
            /\ z[n + 1] = z[n] + Worked(first + (n + 1), t + 1, to)
        <5>1. next + n = first + (n + 1) /\ n + 1 \in Nat \ {0} /\ first + (n + 1) \in Nat
          BY <1>1, <2>5
        <5>2. z[n + 1] = z[n] + Worked(next + n, t + 1, to)
          BY <2>2
        <5>3. s[(n + 1) + 1] = s[n + 1] + Worked(first + (n + 1), t, to)
          BY <1>10, <5>1
        <5> QED
          BY <5>1, <5>2, <5>3
      <4>2. /\ Worked(first + (n + 1), t, to) = Worked(first + (n + 1), t + 1, to)
            /\ Worked(first + (n + 1), t + 1, to) \in Nat
        BY <1>5, <1>8, <4>1
      <4>3. s[(n + 1) + 1] = z[n + 1] + Minute(t)
        <5>1. s[n + 1] = z[n] + Minute(t) /\ s[n + 1] \in Nat /\ z[n] \in Nat
          BY <1>10, <2>2, <3>2
        <5> QED
          BY <1>1, <4>1, <4>2, <5>1
      <4> QED
        BY <4>1, <4>3
    <3> HIDE DEF S
    <3>3. \A n \in Nat : n \in S
      BY <3>1, <3>2, SetInduction
    <3>4. (last - next + 1) + 1 = last - first + 1
      BY <1>1, <2>5
    <3>5. s[(last - next + 1) + 1] = z[last - next + 1] + Minute(t)
      BY <1>4, <3>3 DEF S
    <3> QED
      BY <1>2, <1>9, <2>1, <2>3, <3>4, <3>5
  <2> QED
    BY <1>7, <2>4, <2>5
<1> QED
  BY <1>11, <1>12

(* What is left at a minute is what is left at the next one, and the       *)
(* minute itself if it is one of work.                                     *)
LEMMA ActiveTime ==
    /\ Begin \in Nat /\ ResetAt \in Nat /\ Begin < ResetAt
    /\ \A t \in Begin..ResetAt : ActiveLeft[t] \in Nat
    /\ ActiveLeft[ResetAt] = 0
    /\ \A t \in Begin..(ResetAt - 1) : ActiveLeft[t] = ActiveLeft[t + 1] + Minute(t)
<1>1. Begin \in Nat /\ ResetAt \in Nat /\ Begin < ResetAt
  BY ControllerAssumption, SMT DEF Begin, ResetAt
<1>2. ActiveLeft[ResetAt] = 0
  BY <1>1 DEF ActiveLeft, ActiveMinutesBetween
<1>3. ASSUME NEW t \in Begin..(ResetAt - 1)
      PROVE  /\ ActiveLeft[t] \in Nat
             /\ ActiveLeft[t] = ActiveLeft[t + 1] + Minute(t)
  <2>1. t \in Nat /\ t < ResetAt /\ t + 1 \in Begin..ResetAt /\ t \in Begin..ResetAt
    BY <1>1
  <2>2. /\ ActiveLeft[t] = ActiveMinutesBetween(t, ResetAt)
        /\ ActiveLeft[t + 1] = ActiveMinutesBetween(t + 1, ResetAt)
    BY <2>1 DEF ActiveLeft
  <2> QED
    BY <1>1, <2>1, <2>2, MinuteByMinute
<1>4. \A t \in Begin..ResetAt : ActiveLeft[t] \in Nat
  <2> TAKE t \in Begin..ResetAt
  <2>1. CASE t = ResetAt
    BY <1>2, <2>1
  <2>2. CASE t # ResetAt
    BY <1>1, <1>3, <2>2
  <2> QED
    BY <2>1, <2>2
<1> QED
  BY <1>1, <1>2, <1>3, <1>4

(* Work time does not come back while the clock runs.                      *)
LEMMA ActiveTimeShrinks ==
    /\ \A t \in Begin..ResetAt : ActiveLeft[t] \in Nat
    /\ \A t \in Begin..(ResetAt - 1) : ActiveLeft[t + 1] <= ActiveLeft[t]
<1>1. ASSUME NEW t \in Begin..(ResetAt - 1) PROVE ActiveLeft[t + 1] <= ActiveLeft[t]
  <2>1. t + 1 \in Begin..ResetAt
    BY ActiveTime
  <2>2. ActiveLeft[t] = ActiveLeft[t + 1] + Minute(t) /\ ActiveLeft[t + 1] \in Nat
    BY <2>1, ActiveTime
  <2> QED
    BY <2>2 DEF Minute
<1> QED
  BY <1>1, ActiveTime

-----------------------------------------------------------------------------
LEMMA ProductMonotone ==
    ASSUME NEW x \in Nat, NEW y \in Int, NEW z \in Int, y <= z
    PROVE  x * y <= x * z
BY SMT

LEMMA ProductNat ==
    ASSUME NEW x \in Nat, NEW y \in Nat
    PROVE  x * y \in Nat
BY SMT

(* The meter shows a natural number at most what is used, and less than a  *)
(* point below it.                                                         *)
LEMMA ShownBounds ==
    ASSUME NEW x \in Nat
    PROVE  /\ Shown(x) \in 0..x
           /\ x < Shown(x) + Granule
BY ControllerAssumption DEF Shown

(* Scale is a positive number.                                             *)
LEMMA ScalePositive ==
    ASSUME NEW a0 \in Nat
    PROVE  /\ Scale(a0) \in Nat \ {0}
           /\ ReleaseDen(a0) \in Nat
BY ControllerAssumption DEF Scale, ReleaseDen, Lower

LEMMA ReserveBounds ==
    ASSUME NEW u0 \in 0..Full, NEW a0 \in Nat
    PROVE  /\ Full - u0 \in Nat
           /\ Reserve(Full - u0, a0) \in Nat
           /\ Full - u0 - Reserve(Full - u0, a0) \in Nat
BY ControllerAssumption DEF Reserve, Lower

(* The target is a natural number, and more of it is open the fewer active *)
(* minutes are left.                                                       *)
LEMMA TargetMonotone ==
    ASSUME NEW u0 \in 0..Full, NEW a0 \in Nat, NEW x \in Int, NEW y \in Int, x <= y
    PROVE  /\ Target(u0, a0, x) \in Nat
           /\ Target(u0, a0, y) \in Nat
           /\ Target(u0, a0, y) <= Target(u0, a0, x)
<1> DEFINE rem == Full - u0
           res == Reserve(rem, a0)
           den == ReleaseDen(a0)
           ax == Clamp(x, 0, a0)
           ay == Clamp(y, 0, a0)
           schedx == (rem - res) * (ax * den)
           schedy == (rem - res) * (ay * den)
           keptx == res * (Lower(ax, den) * a0)
           kepty == res * (Lower(ay, den) * a0)
           whole == rem * Scale(a0)
<1>1. rem \in Nat /\ res \in Nat /\ rem - res \in Nat
  BY ReserveBounds
<1>2. den \in Nat /\ Scale(a0) \in Nat
  BY ScalePositive
<1>3. ax \in Nat /\ ay \in Nat /\ ax <= ay
  BY DEF Clamp, Lower, Higher
<1>4. whole \in Nat
  <2> HIDE DEF rem
  <2> QED BY <1>1, <1>2, ProductNat
<1>5. schedx \in Nat /\ schedy \in Nat /\ schedx <= schedy
  <2> HIDE DEF rem, res, den, ax, ay
  <2>1. ax * den \in Nat /\ ay * den \in Nat
    BY <1>2, <1>3, ProductNat
  <2>2. ax * den <= ay * den
    BY <1>2, <1>3, ProductMonotone
  <2> QED
    BY <1>1, <2>1, <2>2, ProductMonotone, ProductNat
<1>6. keptx \in Nat /\ kepty \in Nat /\ keptx <= kepty
  <2> HIDE DEF rem, res, den, ax, ay
  <2>1. /\ Lower(ax, den) \in Nat /\ Lower(ay, den) \in Nat
        /\ Lower(ax, den) <= Lower(ay, den)
    BY <1>2, <1>3 DEF Lower
  <2>2. /\ Lower(ax, den) * a0 \in Nat /\ Lower(ay, den) * a0 \in Nat
        /\ Lower(ax, den) * a0 <= Lower(ay, den) * a0
    BY <2>1, ProductMonotone, ProductNat
  <2> QED
    BY <1>1, <2>2, ProductMonotone, ProductNat
<1>7. /\ Target(u0, a0, x) = IF a0 = 0 THEN rem ELSE Clamp(whole - schedx - keptx, 0, whole)
      /\ Target(u0, a0, y) = IF a0 = 0 THEN rem ELSE Clamp(whole - schedy - kepty, 0, whole)
  BY DEF Target
<1> HIDE DEF rem, res, den, ax, ay, schedx, schedy, keptx, kepty, whole
<1> QED
  BY <1>1, <1>4, <1>5, <1>6, <1>7 DEF Clamp, Lower, Higher

-----------------------------------------------------------------------------
(* The target that RunwayHolds compares with.                              *)
HorizonAt(t) == Target(anchor.used, anchor.active, Higher(0, ActiveLeft[t] - 2 * HardDaily))

(* What is charged to a pass before it may start.                          *)
Charged == Higher(0, Shown(used) - anchor.used) + committed + Granule

(* What may be spent when the target is taken some active minutes ahead.   *)
Room(t, lookahead) ==
    Target(anchor.used, anchor.active, Higher(0, ActiveLeft[t] - lookahead))

LEMMA HeadroomAt ==
    ASSUME TypeOK, NEW t \in Begin..ResetAt, ActiveLeft[t] <= anchor.active
    PROVE  /\ Room(t, NormalDaily) \in Nat /\ Room(t, 2 * HardDaily) \in Nat
           /\ Room(t, NormalDaily) <= Room(t, 2 * HardDaily)
           /\ Charged * Scale(anchor.active) \in Int
           /\ BaseHeadroom(t) = Higher(0, Room(t, NormalDaily) - Charged * Scale(anchor.active))
           /\ MaxHeadroom(t) = Higher(0, Room(t, 2 * HardDaily) - Charged * Scale(anchor.active))
<1> DEFINE a == ActiveLeft[t]
           near == Higher(0, a - Lower(a, NormalDaily))
           far == Higher(0, a - Lower(a, 2 * HardDaily))
           cost == Charged * Scale(anchor.active)
<1>1. /\ a \in Nat /\ anchor.active \in Nat /\ a <= anchor.active
      /\ anchor.used \in 0..Full /\ used \in Nat /\ committed \in Nat
  BY ActiveTimeShrinks, ControllerAssumption DEF TypeOK
<1>2. NormalDaily \in Nat /\ HardDaily \in Nat /\ NormalDaily <= 2 * HardDaily
  BY ControllerAssumption DEF NormalDaily, HardDaily
<1>3. Clamp(a, 0, anchor.active) = a
  BY <1>1 DEF Clamp, Lower, Higher
<1>4. /\ near \in Int /\ far \in Int /\ far <= near
      /\ near = Higher(0, a - NormalDaily) /\ far = Higher(0, a - 2 * HardDaily)
  BY <1>1, <1>2 DEF Lower, Higher
<1>5. /\ Target(anchor.used, anchor.active, far) \in Nat
      /\ Target(anchor.used, anchor.active, near) \in Nat
      /\ Target(anchor.used, anchor.active, near) <= Target(anchor.used, anchor.active, far)
  BY <1>1, <1>4, TargetMonotone
<1>6. cost \in Int
  <2>1. Charged \in Int
    BY <1>1, ShownBounds, ControllerAssumption DEF Charged, Higher
  <2>2. Scale(anchor.active) \in Int
    BY <1>1, ScalePositive
  <2> QED
    BY <2>1, <2>2
<1>7. /\ Room(t, NormalDaily) = Target(anchor.used, anchor.active, near)
      /\ Room(t, 2 * HardDaily) = Target(anchor.used, anchor.active, far)
  BY <1>4 DEF Room
<1>8. Higher(0, Shown(used) - anchor.used) + (committed + Granule) = Charged
  <2>1. Shown(used) \in Int /\ Granule \in Int /\ committed \in Int /\ anchor.used \in Int
    BY <1>1, ShownBounds, ControllerAssumption
  <2> QED
    BY <2>1 DEF Charged, Higher
<1>9. /\ BaseHeadroom(t) = Higher(0, Target(anchor.used, anchor.active, near) - cost)
      /\ MaxHeadroom(t) = Higher(0, Target(anchor.used, anchor.active, far) - cost)
  BY <1>3, <1>8 DEF BaseHeadroom, MaxHeadroom, Headroom, Ahead
<1> HIDE DEF a, near, far
<1> QED
  BY <1>5, <1>6, <1>7, <1>9

LEMMA HeadroomBounds ==
    ASSUME TypeOK
    PROVE  /\ HorizonAt(now) \in Nat
           /\ BaseHeadroom(now) \in Nat /\ MaxHeadroom(now) \in Nat
           /\ BaseHeadroom(now) <= MaxHeadroom(now)
           /\ MaxHeadroom(now) = Higher(0, HorizonAt(now) - Charged * Scale(anchor.active))
<1> DEFINE cost == Charged * Scale(anchor.active)
<1>1. /\ Room(now, NormalDaily) \in Nat /\ Room(now, 2 * HardDaily) \in Nat
      /\ Room(now, NormalDaily) <= Room(now, 2 * HardDaily)
      /\ cost \in Int
      /\ BaseHeadroom(now) = Higher(0, Room(now, NormalDaily) - cost)
      /\ MaxHeadroom(now) = Higher(0, Room(now, 2 * HardDaily) - cost)
  BY HeadroomAt DEF TypeOK
<1>2. HorizonAt(now) = Room(now, 2 * HardDaily)
  BY DEF HorizonAt, Room
<1> HIDE DEF cost
<1>3. MaxHeadroom(now) = Higher(0, HorizonAt(now) - cost)
  BY <1>1, <1>2
<1> QED
  BY <1>1, <1>2, <1>3 DEF Higher, cost

(* A pass that may start has a known estimate, and with all that is        *)
(* charged it fits into the target two hard working days ahead.            *)
LEMMA LaunchFits ==
    ASSUME TypeOK, NEW pass \in Launchable(now)
    PROVE  /\ pass[1] \in Estimates /\ pass[1] \in Nat \ {0}
           /\ pass[1] * Scale(anchor.active) <=
                HorizonAt(now) - Charged * Scale(anchor.active)
<1> DEFINE s == Scale(anchor.active)
           safe == pass[1] * s
           base == BaseHeadroom(now)
           maximum == MaxHeadroom(now)
<1>1. s \in Nat \ {0}
  BY ScalePositive DEF TypeOK
<1>2. pass \in (Estimates \union {Unknown}) \X PaceLevels
      /\ Admission(base, maximum, safe, pass[2], TRUE) \in Launching
  BY DEF Launchable
<1>3. base \in Nat /\ maximum \in Nat /\ base <= maximum
  BY HeadroomBounds
<1>4. pass[1] \in Int /\ (pass[1] \in Estimates \/ pass[1] = -1) /\ pass[2] \in Nat
  <2>1. pass[1] \in Estimates \union {Unknown} /\ pass[2] \in PaceLevels
    BY <1>2
  <2>2. Estimates \subseteq Int
    BY ControllerAssumption
  <2>3. \A x \in Estimates \union {Unknown} : x \in Int /\ (x \in Estimates \/ x = -1)
    BY <2>2 DEF Unknown
  <2>4. \A y \in PaceLevels : y \in Nat
    BY DEF PaceLevels
  <2> QED
    BY <2>1, <2>3, <2>4
<1>5. safe \in Int
  BY <1>1, <1>4
<1>6. safe >= 0 /\ safe <= maximum
  <2> HIDE DEF safe, base, maximum
  <2> QED
    BY <1>2, <1>3, <1>4, <1>5 DEF Admission, Launching
<1>7. pass[1] # -1
  BY <1>1, <1>6
<1>8. pass[1] \in Estimates /\ pass[1] \in Nat \ {0}
  BY <1>4, <1>7, ControllerAssumption
<1>9. safe \in Nat \ {0}
  BY <1>1, <1>6, <1>8
<1>10. maximum = Higher(0, HorizonAt(now) - Charged * s)
  BY HeadroomBounds
<1>11. Charged * s \in Int
  <2>1. Charged \in Int
    BY ShownBounds, ControllerAssumption DEF Charged, Higher, TypeOK
  <2> QED
    BY <1>1, <2>1
<1>12. HorizonAt(now) \in Nat
  BY HeadroomBounds
<1>13. safe <= HorizonAt(now) - Charged * s
  <2> HIDE DEF safe, s, maximum
  <2> QED BY <1>6, <1>9, <1>10, <1>11, <1>12 DEF Higher
<1> QED
  BY <1>8, <1>13

-----------------------------------------------------------------------------
(* Every reachable state is well typed: the active minutes left stay       *)
(* within those of the anchor, which no epoch's use falls below.           *)
THEOREM TypeCorrect == Spec => []TypeOK
<1> USE ControllerAssumption, ActiveTimeShrinks DEF TypeOK, AnchorAt
<1>1. Begin \in Nat /\ ResetAt \in Nat /\ Begin < ResetAt
  BY SMT DEF Begin, ResetAt
<1>2. Init => TypeOK
  <2> SUFFICES ASSUME Init PROVE TypeOK
    OBVIOUS
  <2>1. used \in 0..Full /\ Shown(used) \in 0..used
    BY ShownBounds DEF Init
  <2>2. now \in Begin..ResetAt /\ ActiveLeft[now] \in Nat
    BY <1>1 DEF Init
  <2> QED
    BY <2>1, <2>2 DEF Init
<1>3. TypeOK /\ [Next]_vars => TypeOK'
  <2> SUFFICES ASSUME TypeOK, [Next]_vars PROVE TypeOK'
    OBVIOUS
  <2>1. CASE Admit
    <3>1. PICK pass \in Launchable(now) :
             /\ committed' = committed + pass[1]
             /\ owed' = owed + pass[1]
             /\ UNCHANGED <<now, anchor, used, excess>>
      BY <2>1 DEF Admit
    <3>2. pass[1] \in Nat
      BY LaunchFits
    <3> QED
      BY <3>1, <3>2
  <2>2. CASE Burn
    BY <2>2 DEF Burn
  <2>3. CASE Finish
    BY <2>3 DEF Finish
  <2>4. CASE Unplanned
    BY <2>4 DEF Unplanned
  <2>5. CASE Tick
    BY <1>1, <2>5 DEF Tick
  <2>6. CASE Reset
    <3>1. Shown(0) \in 0..0
      BY ShownBounds
    <3>2. ActiveLeft[Begin] \in Nat
      BY <1>1
    <3> QED
      BY <1>1, <2>6, <3>1, <3>2 DEF Reset
  <2>7. CASE UNCHANGED vars
    BY <2>7 DEF vars
  <2> QED
    BY <2>1, <2>2, <2>3, <2>4, <2>5, <2>6, <2>7 DEF Next
<1> QED
  BY <1>2, <1>3, PTL DEF Spec

-----------------------------------------------------------------------------
(* RunwayHolds, with everything that is counted in points on one side.     *)
Net == used + owed - anchor.used - excess

LEMMA RunwayAsNet ==
    TypeOK => /\ Net \in Int /\ HorizonAt(now) \in Nat
              /\ RunwayHolds <=> Net * Scale(anchor.active) <= HorizonAt(now)
<1> SUFFICES ASSUME TypeOK
             PROVE  /\ Net \in Int /\ HorizonAt(now) \in Nat
                    /\ RunwayHolds <=> Net * Scale(anchor.active) <= HorizonAt(now)
  OBVIOUS
<1> DEFINE s == Scale(anchor.active)
<1>1. s \in Nat
  BY ScalePositive DEF TypeOK
<1>2. used \in Int /\ owed \in Int /\ anchor.used \in Int /\ excess \in Int
  BY ControllerAssumption DEF TypeOK
<1>3. HorizonAt(now) \in Nat
  BY HeadroomBounds
<1>4. Net * s = (used + owed) * s - anchor.used * s - excess * s
  <2> HIDE DEF s
  <2> QED BY <1>1, <1>2 DEF Net
<1>5. (used + owed) * s \in Int /\ anchor.used * s \in Int /\ excess * s \in Int
  <2> HIDE DEF s
  <2> QED BY <1>1, <1>2
<1>6. RunwayHolds <=> (used + owed) * s <= anchor.used * s + HorizonAt(now) + excess * s
  BY DEF RunwayHolds, HorizonAt
<1> HIDE DEF s
<1>7. RunwayHolds <=> Net * s <= HorizonAt(now)
  BY <1>3, <1>4, <1>5, <1>6
<1> QED
  BY <1>2, <1>3, <1>7 DEF Net, s

(* While the clock runs the horizon only moves outward.                    *)
LEMMA HorizonGrows ==
    ASSUME TypeOK, now < ResetAt
    PROVE  HorizonAt(now) \in Nat /\ HorizonAt(now + 1) \in Nat
             /\ HorizonAt(now) <= HorizonAt(now + 1)
<1>1. Begin \in Nat /\ ResetAt \in Nat
  BY ControllerAssumption DEF Begin, ResetAt
<1>2. /\ ActiveLeft[now] \in Nat /\ ActiveLeft[now + 1] \in Nat
      /\ ActiveLeft[now + 1] <= ActiveLeft[now]
  BY <1>1, ActiveTimeShrinks DEF TypeOK
<1>3. HardDaily \in Nat
  BY ControllerAssumption DEF HardDaily
<1>4. /\ Higher(0, ActiveLeft[now + 1] - 2 * HardDaily) \in Int
      /\ Higher(0, ActiveLeft[now] - 2 * HardDaily) \in Int
      /\ Higher(0, ActiveLeft[now + 1] - 2 * HardDaily)
           <= Higher(0, ActiveLeft[now] - 2 * HardDaily)
  BY <1>2, <1>3 DEF Higher
<1> QED
  BY <1>4, TargetMonotone DEF HorizonAt, TypeOK

(* What is used and what admitted passes may still use stays within the    *)
(* target two hard working days ahead, but for what was used beside the    *)
(* admissions.  The invariant is inductive: an admission charges the meter *)
(* error and all commitments, burning moves what is owed to what is used,  *)
(* and the horizon never comes nearer.                                     *)
THEOREM RunwayTheorem == Spec => []RunwayHolds
<1>1. Init /\ TypeOK => RunwayHolds
  <2> SUFFICES ASSUME Init, TypeOK PROVE RunwayHolds
    OBVIOUS
  <2>1. Net = 0
    BY ControllerAssumption DEF Init, Net, TypeOK
  <2>2. Net * Scale(anchor.active) = 0
    BY <2>1, ScalePositive DEF TypeOK
  <2> QED
    BY <2>2, HeadroomBounds, RunwayAsNet
<1>2. TypeOK /\ TypeOK' /\ RunwayHolds /\ [Next]_vars => RunwayHolds'
  <2> SUFFICES ASSUME TypeOK, TypeOK', RunwayHolds, [Next]_vars PROVE RunwayHolds'
    OBVIOUS
  <2> DEFINE s == Scale(anchor.active)
  <2>1. /\ s \in Nat \ {0} /\ Net \in Int /\ HorizonAt(now) \in Nat
        /\ Net * s <= HorizonAt(now)
    BY RunwayAsNet, HeadroomBounds, ScalePositive DEF TypeOK
  <2>2. /\ Net' \in Int /\ HorizonAt(now)' \in Nat
        /\ RunwayHolds' <=> Net' * Scale(anchor.active') <= HorizonAt(now)'
    <3>1. (/\ Net \in Int /\ HorizonAt(now) \in Nat
           /\ RunwayHolds <=> Net * Scale(anchor.active) <= HorizonAt(now))'
      BY RunwayAsNet, PTL
    <3> QED
      BY <3>1
  <2>3. CASE Admit
    <3>1. PICK pass \in Launchable(now) :
             /\ owed' = owed + pass[1]
             /\ UNCHANGED <<now, anchor, used, excess>>
      BY <2>3 DEF Admit
    <3>2. /\ pass[1] \in Nat
          /\ pass[1] * s <= HorizonAt(now) - Charged * s
      BY LaunchFits
    <3>3. Charged \in Int /\ Net' \in Int /\ Net' <= pass[1] + Charged
      <4>1. /\ used \in Nat /\ owed \in Nat /\ committed \in Nat /\ owed <= committed
            /\ anchor.used \in Nat /\ excess \in Nat /\ Granule \in Nat
        BY ControllerAssumption DEF TypeOK
      <4>2. Shown(used) \in Int /\ used < Shown(used) + Granule
        BY <4>1, ShownBounds
      <4>3. Net' = used + owed + pass[1] - anchor.used - excess
        BY <3>1, <3>2, <4>1 DEF Net
      <4> QED
        BY <3>2, <4>1, <4>2, <4>3 DEF Charged, Higher
    <3>4. Net' * s <= (pass[1] + Charged) * s
      <4>1. s * Net' <= s * (pass[1] + Charged)
        BY <2>1, <3>2, <3>3, ProductMonotone
      <4> HIDE DEF s
      <4> QED
        BY <2>1, <3>2, <3>3, <4>1
    <3>5. (pass[1] + Charged) * s = pass[1] * s + Charged * s
      <4> HIDE DEF s
      <4> QED
        BY <2>1, <3>2, <3>3
    <3>6. Net' * s <= HorizonAt(now)
      <4>1. /\ Net' * s \in Int /\ pass[1] * s \in Int /\ Charged * s \in Int
            /\ HorizonAt(now) \in Int
        <5> HIDE DEF s
        <5> QED BY <2>1, <3>2, <3>3
      <4> HIDE DEF s
      <4> QED
        BY <3>2, <3>4, <3>5, <4>1
    <3> QED
      BY <2>2, <3>1, <3>6 DEF HorizonAt
  <2>4. CASE Burn \/ Unplanned
    <3>1. Net' = Net /\ UNCHANGED <<now, anchor>>
      BY <2>4, ControllerAssumption DEF Burn, Unplanned, Net, TypeOK
    <3> QED
      BY <2>1, <2>2, <3>1 DEF HorizonAt
  <2>5. CASE Finish
    <3>1. Net' \in Int /\ Net' <= Net /\ UNCHANGED <<now, anchor>>
      BY <2>5, ControllerAssumption DEF Finish, Net, TypeOK
    <3>2. s * Net' <= s * Net
      BY <2>1, <2>2, <3>1, ProductMonotone
    <3>3. Net' * s <= HorizonAt(now)
      <4>1. Net' * s = s * Net' /\ Net * s = s * Net /\ s * Net \in Int /\ s * Net' \in Int
        <5> HIDE DEF s
        <5> QED BY <2>1, <3>1
      <4> HIDE DEF s
      <4> QED BY <2>1, <3>2, <4>1
    <3> QED
      BY <2>2, <3>1, <3>3 DEF HorizonAt
  <2>6. CASE Tick
    <3>1. /\ Net' = Net /\ anchor' = anchor /\ now' = now + 1 /\ now < ResetAt
      BY <2>6 DEF Tick, Net
    <3>2. HorizonAt(now + 1) \in Nat /\ HorizonAt(now) <= HorizonAt(now + 1)
      BY <3>1, HorizonGrows
    <3>3. HorizonAt(now)' = HorizonAt(now + 1)
      BY <3>1 DEF HorizonAt
    <3>4. Net * s <= HorizonAt(now + 1)
      <4>1. Net * s \in Int
        <5> HIDE DEF s
        <5> QED BY <2>1
      <4> HIDE DEF s
      <4> QED BY <2>1, <3>2, <4>1
    <3> QED
      BY <2>2, <3>1, <3>3, <3>4
  <2>7. CASE Reset
    <3>1. Shown(0) = 0
      BY ShownBounds
    <3>2. Net' = 0
      BY <2>7, <3>1 DEF Reset, AnchorAt, Net, TypeOK
    <3>3. Scale(anchor.active') \in Int
      BY ScalePositive DEF TypeOK
    <3> QED
      BY <2>2, <3>2, <3>3
  <2>8. CASE UNCHANGED vars
    BY <2>1, <2>2, <2>8 DEF vars, Net, HorizonAt
  <2> QED
    BY <2>3, <2>4, <2>5, <2>6, <2>7, <2>8 DEF Next
<1> QED
  BY <1>1, <1>2, TypeCorrect, PTL DEF Spec

-----------------------------------------------------------------------------
(* The decision of admission alone: less burn and more pace risk keep a    *)
(* launch a launch.                                                        *)
LEMMA AdmissionMonotone ==
    ASSUME NEW base \in Nat, NEW maximum \in Nat,
           NEW small \in Nat, NEW large \in Nat, small <= large,
           NEW low \in Nat, NEW high \in Nat, low <= high,
           Admission(base, maximum, large, low, TRUE) \in Launching
    PROVE  Admission(base, maximum, small, high, TRUE) \in Launching
<1>1. CASE small <= base
  BY <1>1 DEF Admission, Launching
<1>2. CASE small > base
  <2> DEFINE little == low * (maximum - base)
             much == high * (maximum - base)
  <2>1. /\ maximum > base /\ large <= maximum
        /\ 4 * (large - base) <= little
    BY <1>2 DEF Admission, Launching
  <2>2. (maximum - base) * low <= (maximum - base) * high
    BY <2>1, ProductMonotone
  <2>3. little \in Int /\ much \in Int /\ little <= much
    BY <2>2
  <2>4. maximum > base /\ small <= maximum /\ 4 * (small - base) <= much
    <3> HIDE DEF little, much
    <3> QED BY <2>1, <2>3
  <2>5. Admission(base, maximum, small, high, TRUE) = "LAUNCH_WITH_ADVANCE"
    <3>1. ~(small < 0) /\ ~(small <= base)
      BY <1>2
    <3> QED
      BY <2>4, <3>1, Zenon DEF Admission
  <2> QED
    BY <2>5 DEF Launching
<1>3. small <= base \/ small > base
  OBVIOUS
<1> QED
  BY <1>1, <1>2, <1>3, Zenon

(* More pace risk, or a smaller burn, never turns a launch into a deferral.*)
THEOREM MonotoneTheorem == Spec => []AdmissionIsMonotone
<1>1. TypeOK => AdmissionIsMonotone
  <2> SUFFICES ASSUME TypeOK, NEW pass \in Launchable(now),
                      NEW easier \in Estimates \X PaceLevels,
                      easier[1] <= pass[1], easier[2] >= pass[2]
               PROVE  easier \in Launchable(now)
    BY DEF AdmissionIsMonotone
  <2> DEFINE s == Scale(anchor.active)
             small == easier[1] * s
             large == pass[1] * s
             base == BaseHeadroom(now)
             maximum == MaxHeadroom(now)
  <2>1. s \in Nat /\ base \in Nat /\ maximum \in Nat
    BY ScalePositive, HeadroomBounds DEF TypeOK
  <2>2. /\ pass \in (Estimates \union {Unknown}) \X PaceLevels
        /\ Admission(base, maximum, large, pass[2], TRUE) \in Launching
    BY DEF Launchable
  <2>3. easier[1] \in Estimates /\ easier[2] \in PaceLevels /\ pass[2] \in PaceLevels
    BY <2>2
  <2>4. /\ easier[1] \in Nat /\ easier[2] \in Nat /\ pass[2] \in Nat
        /\ pass[1] \in Nat /\ pass[2] <= easier[2]
    <3>1. easier[1] \in Nat
      BY <2>3, ControllerAssumption
    <3>2. \A level \in PaceLevels : level \in Nat
      BY DEF PaceLevels
    <3>3. pass[1] \in Nat
      BY LaunchFits
    <3> QED
      BY <2>3, <3>1, <3>2, <3>3
  <2>5. small \in Nat /\ large \in Nat /\ small <= large
    <3>1. s * easier[1] <= s * pass[1] /\ s * easier[1] \in Nat /\ s * pass[1] \in Nat
      BY <2>1, <2>4, ProductMonotone, ProductNat
    <3>2. small = s * easier[1] /\ large = s * pass[1]
      <4> HIDE DEF s
      <4> QED BY <2>1, <2>4
    <3> QED
      BY <3>1, <3>2
  <2>6. Admission(base, maximum, small, easier[2], TRUE) \in Launching
    <3> DEFINE low == pass[2]
               high == easier[2]
    <3>1. low \in Nat /\ high \in Nat /\ low <= high
      BY <2>4
    <3>2. Admission(base, maximum, large, low, TRUE) \in Launching
      BY <2>2
    <3> HIDE DEF s, small, large, base, maximum, low, high
    <3>3. Admission(base, maximum, small, high, TRUE) \in Launching
      BY <2>1, <2>5, <3>1, <3>2, AdmissionMonotone, Zenon
    <3> QED
      BY <3>3 DEF high
  <2> QED
    BY <2>3, <2>6 DEF Launchable
<1> QED
  BY <1>1, TypeCorrect, PTL

-----------------------------------------------------------------------------
(* The minutes of work from t to the reset. *)
WorkingFrom(t) == {m \in t..(ResetAt - 1) : Working(m)}

LEMMA CountFrom ==
    ASSUME NEW t \in Begin..ResetAt
    PROVE  ActiveLeft[t] = Cardinality(WorkingFrom(t))
<1> DEFINE Counted(x) == /\ IsFiniteSet(WorkingFrom(x))
                         /\ ActiveLeft[x] = Cardinality(WorkingFrom(x))
           S == {k \in Nat : k <= ResetAt - Begin => Counted(ResetAt - k)}
<1>1. Begin \in Nat /\ ResetAt \in Nat /\ Begin < ResetAt
  BY ActiveTime
<1>2. 0 \in S
  <2>1. WorkingFrom(ResetAt) = {}
    BY <1>1 DEF WorkingFrom
  <2>2. Counted(ResetAt)
    BY <2>1, ActiveTime, FS_EmptySet
  <2>3. ResetAt - 0 = ResetAt
    BY <1>1
  <2> HIDE DEF Counted
  <2> QED
    BY <2>2, <2>3
<1>3. ASSUME NEW k \in Nat, k \in S PROVE k + 1 \in S
  <2> SUFFICES ASSUME k + 1 <= ResetAt - Begin PROVE Counted(ResetAt - (k + 1))
    OBVIOUS
  <2> DEFINE x == ResetAt - (k + 1)
  <2>1. x \in Begin..(ResetAt - 1) /\ x + 1 = ResetAt - k /\ x \in Int
    BY <1>1
  <2>2. Counted(x + 1)
    <3>1. Counted(ResetAt - k)
      BY <1>1, <1>3
    <3> HIDE DEF Counted, x
    <3> QED
      BY <2>1, <3>1
  <2> HIDE DEF x
  <2>3. ActiveLeft[x] = ActiveLeft[x + 1] + Minute(x) /\ ActiveLeft[x + 1] \in Nat
    <3>1. x + 1 \in Begin..ResetAt
      BY <1>1, <2>1
    <3> QED
      BY <2>1, <3>1, ActiveTime
  <2>4. CASE Working(x)
    <3>1. WorkingFrom(x) = WorkingFrom(x + 1) \union {x}
      BY <1>1, <2>1, <2>4 DEF WorkingFrom
    <3>2. x \notin WorkingFrom(x + 1)
      BY <1>1, <2>1 DEF WorkingFrom
    <3>3. /\ IsFiniteSet(WorkingFrom(x + 1) \union {x})
          /\ Cardinality(WorkingFrom(x + 1) \union {x}) = Cardinality(WorkingFrom(x + 1)) + 1
      BY <2>2, <3>2, FS_AddElement
    <3>4. Minute(x) = 1
      BY <2>4 DEF Minute
    <3>5. Counted(x)
      BY <2>2, <2>3, <3>1, <3>3, <3>4
    <3> QED
      BY <3>5 DEF x
  <2>5. CASE ~Working(x)
    <3>1. WorkingFrom(x) = WorkingFrom(x + 1)
      BY <1>1, <2>1, <2>5 DEF WorkingFrom
    <3>2. Minute(x) = 0
      BY <2>5 DEF Minute
    <3>3. Counted(x)
      BY <2>2, <2>3, <3>1, <3>2
    <3> QED
      BY <3>3 DEF x
  <2> QED
    BY <2>4, <2>5
<1> HIDE DEF S, Counted
<1>4. \A k \in Nat : k \in S
  BY <1>2, <1>3, SetInduction
<1>5. ResetAt - t \in Nat /\ ResetAt - t <= ResetAt - Begin /\ ResetAt - (ResetAt - t) = t
  BY <1>1
<1>6. Counted(ResetAt - (ResetAt - t))
  BY <1>4, <1>5 DEF S
<1>7. Counted(t)
  BY <1>5, <1>6
<1> QED
  BY <1>7 DEF Counted

(* What active_minutes_between adds up day by day is the number of minutes *)
(* of the working windows still to come, for every schedule.               *)
THEOREM CountTheorem == Spec => []ActiveLeftIsCount
<1>1. TypeOK => ActiveLeftIsCount
  <2> SUFFICES ASSUME TypeOK PROVE ActiveLeftIsCount
    OBVIOUS
  <2>1. ActiveLeft[now] = Cardinality(WorkingFrom(now))
    BY CountFrom DEF TypeOK
  <2> QED
    BY <2>1 DEF ActiveLeftIsCount, WorkingFrom, Working
<1> QED
  BY <1>1, TypeCorrect, PTL

-----------------------------------------------------------------------------
(* More headroom never turns a launch into a deferral: a pace level is at  *)
(* most four quarters of the advance.                                      *)
LEMMA AdmissionWithMore ==
    ASSUME NEW base \in Nat, NEW maximum \in Nat, base <= maximum,
           NEW base2 \in Nat, NEW maximum2 \in Nat, base <= base2, maximum <= maximum2,
           NEW safe \in Int, NEW pace \in PaceLevels,
           Admission(base, maximum, safe, pace, TRUE) \in Launching
    PROVE  Admission(base2, maximum2, safe, pace, TRUE) \in Launching
<1>1. ~(safe < 0) /\ pace \in 0..4
  BY DEF Admission, Launching, PaceLevels
<1>2. CASE safe <= base2
  BY <1>1, <1>2 DEF Admission, Launching
<1>3. CASE safe > base2
  <2>1. maximum > base /\ safe <= maximum /\ 4 * (safe - base) <= pace * (maximum - base)
    BY <1>1, <1>3 DEF Admission, Launching
  <2>2. maximum2 > base2 /\ safe <= maximum2
    BY <1>3, <2>1
  <2>3. 4 * (safe - base2) <= pace * (maximum2 - base2)
    BY <1>1, <1>3, <2>1
  <2>4. Admission(base2, maximum2, safe, pace, TRUE) = "LAUNCH_WITH_ADVANCE"
    <3>1. ~(safe <= base2)
      BY <1>3
    <3> QED
      BY <1>1, <2>2, <2>3, <3>1, Zenon DEF Admission
  <2> QED
    BY <2>4 DEF Launching
<1>4. safe <= base2 \/ safe > base2
  OBVIOUS
<1> QED
  BY <1>2, <1>3, <1>4, Zenon

(* Waiting never costs an admission: as the work time shrinks the target   *)
(* opens, at both lookaheads; and off-hours, where no work time passes,    *)
(* both headrooms stay as they are.                                        *)
THEOREM WaitingTheorem == Spec => []WaitingIsSafe
<1>1. TypeOK => WaitingIsSafe
  <2> SUFFICES ASSUME TypeOK, now < ResetAt
               PROVE  /\ \A pass \in Launchable(now) : pass \in Launchable(now + 1)
                      /\ (now % DayMinutes) \notin Start..(HardEnd - 1) =>
                            /\ BaseHeadroom(now) = BaseHeadroom(now + 1)
                            /\ MaxHeadroom(now) = MaxHeadroom(now + 1)
    BY DEF WaitingIsSafe
  <2> DEFINE cost == Charged * Scale(anchor.active)
  <2>1. /\ now \in Begin..(ResetAt - 1) /\ now \in Begin..ResetAt
        /\ now + 1 \in Begin..ResetAt
    BY ActiveTime DEF TypeOK
  <2>2. /\ ActiveLeft[now] \in Nat /\ ActiveLeft[now + 1] \in Nat
        /\ ActiveLeft[now] = ActiveLeft[now + 1] + Minute(now)
        /\ ActiveLeft[now + 1] <= ActiveLeft[now]
        /\ ActiveLeft[now + 1] <= anchor.active
    BY <2>1, ActiveTime, ActiveTimeShrinks DEF TypeOK
  <2>3. /\ Room(now, NormalDaily) \in Nat /\ Room(now, 2 * HardDaily) \in Nat
        /\ Room(now, NormalDaily) <= Room(now, 2 * HardDaily)
        /\ cost \in Int
        /\ BaseHeadroom(now) = Higher(0, Room(now, NormalDaily) - cost)
        /\ MaxHeadroom(now) = Higher(0, Room(now, 2 * HardDaily) - cost)
    BY <2>1, HeadroomAt DEF TypeOK
  <2>4. /\ Room(now + 1, NormalDaily) \in Nat /\ Room(now + 1, 2 * HardDaily) \in Nat
        /\ Room(now + 1, NormalDaily) <= Room(now + 1, 2 * HardDaily)
        /\ BaseHeadroom(now + 1) = Higher(0, Room(now + 1, NormalDaily) - cost)
        /\ MaxHeadroom(now + 1) = Higher(0, Room(now + 1, 2 * HardDaily) - cost)
    <3> DEFINE t == now + 1
    <3>1. t \in Begin..ResetAt /\ ActiveLeft[t] <= anchor.active
      BY <2>1, <2>2
    <3> HIDE DEF t
    <3>2. /\ Room(t, NormalDaily) \in Nat /\ Room(t, 2 * HardDaily) \in Nat
          /\ Room(t, NormalDaily) <= Room(t, 2 * HardDaily)
          /\ BaseHeadroom(t) = Higher(0, Room(t, NormalDaily) - cost)
          /\ MaxHeadroom(t) = Higher(0, Room(t, 2 * HardDaily) - cost)
      BY <3>1, HeadroomAt
    <3> QED
      BY <3>2 DEF t
  <2>5. ASSUME NEW lookahead \in Nat
        PROVE  Room(now, lookahead) <= Room(now + 1, lookahead)
    <3> DEFINE x == Higher(0, ActiveLeft[now + 1] - lookahead)
               y == Higher(0, ActiveLeft[now] - lookahead)
    <3>1. x \in Int /\ y \in Int /\ x <= y
      BY <2>2 DEF Higher
    <3>2. anchor.used \in 0..Full /\ anchor.active \in Nat
      BY DEF TypeOK
    <3> HIDE DEF x, y
    <3>3. Target(anchor.used, anchor.active, y) <= Target(anchor.used, anchor.active, x)
      BY <3>1, <3>2, TargetMonotone
    <3> QED
      BY <3>3 DEF Room, x, y
  <2>6. NormalDaily \in Nat /\ 2 * HardDaily \in Nat
    BY ControllerAssumption DEF NormalDaily, HardDaily
  <2>7. /\ Room(now, NormalDaily) <= Room(now + 1, NormalDaily)
        /\ Room(now, 2 * HardDaily) <= Room(now + 1, 2 * HardDaily)
    BY <2>5, <2>6
  <2> HIDE DEF cost
  <2>8. /\ BaseHeadroom(now) \in Nat /\ MaxHeadroom(now) \in Nat
        /\ BaseHeadroom(now) <= MaxHeadroom(now)
        /\ BaseHeadroom(now + 1) \in Nat /\ MaxHeadroom(now + 1) \in Nat
        /\ BaseHeadroom(now) <= BaseHeadroom(now + 1)
        /\ MaxHeadroom(now) <= MaxHeadroom(now + 1)
    BY <2>3, <2>4, <2>7 DEF Higher
  <2>9. ASSUME NEW pass \in Launchable(now) PROVE pass \in Launchable(now + 1)
    <3> DEFINE safe == pass[1] * Scale(anchor.active)
    <3>1. /\ pass \in (Estimates \union {Unknown}) \X PaceLevels
          /\ Admission(BaseHeadroom(now), MaxHeadroom(now), safe, pass[2], TRUE) \in Launching
      BY DEF Launchable
    <3>2. safe \in Int /\ pass[2] \in PaceLevels
      <4>1. pass[1] \in Nat
        BY LaunchFits
      <4>2. Scale(anchor.active) \in Nat
        BY ScalePositive DEF TypeOK
      <4> QED
        BY <3>1, <4>1, <4>2
    <3> DEFINE base == BaseHeadroom(now)
               maximum == MaxHeadroom(now)
               base2 == BaseHeadroom(now + 1)
               maximum2 == MaxHeadroom(now + 1)
               pace == pass[2]
    <3>3. /\ base \in Nat /\ maximum \in Nat /\ base <= maximum
          /\ base2 \in Nat /\ maximum2 \in Nat
          /\ base <= base2 /\ maximum <= maximum2
          /\ Admission(base, maximum, safe, pace, TRUE) \in Launching
          /\ safe \in Int /\ pace \in PaceLevels
      BY <2>8, <3>1, <3>2
    <3> HIDE DEF safe, base, maximum, base2, maximum2, pace
    <3>4. Admission(base2, maximum2, safe, pace, TRUE) \in Launching
      BY <3>3, AdmissionWithMore, Zenon
    <3> QED
      BY <3>1, <3>4 DEF Launchable, safe, base2, maximum2, pace
  <2>10. ASSUME (now % DayMinutes) \notin Start..(HardEnd - 1)
         PROVE  /\ BaseHeadroom(now) = BaseHeadroom(now + 1)
                /\ MaxHeadroom(now) = MaxHeadroom(now + 1)
    <3>1. Minute(now) = 0
      BY <2>10 DEF Minute, Working
    <3>2. ActiveLeft[now] = ActiveLeft[now + 1]
      BY <2>2, <3>1
    <3>3. \A lookahead : Room(now, lookahead) = Room(now + 1, lookahead)
      BY <3>2 DEF Room
    <3> QED
      BY <2>3, <2>4, <3>3
  <2> QED
    BY <2>9, <2>10
<1> QED
  BY <1>1, TypeCorrect, PTL

-----------------------------------------------------------------------------
(* The anchor is a reading of the meter. *)
AnchorIsShown == \E points \in Nat : anchor.used = points * Granule

LEMMA ShownIsPoints ==
    ASSUME NEW x \in Nat
    PROVE  \E points \in Nat : Shown(x) = points * Granule
<1>1. /\ x \div Granule \in Nat /\ x % Granule \in Nat
      /\ x = (x \div Granule) * Granule + (x % Granule)
  BY Division, ControllerAssumption
<1>2. PICK q \in Nat : x = q * Granule + (x % Granule)
  BY <1>1
<1>3. Shown(x) = q * Granule
  <2>1. q * Granule \in Nat
    BY ControllerAssumption
  <2> QED
    BY <1>1, <1>2, <2>1 DEF Shown
<1> QED
  BY <1>3

(* What was shown stays shown while the use only grows. *)
LEMMA ShownAbove ==
    ASSUME NEW points \in Nat, NEW x \in Nat, points * Granule <= x
    PROVE  points * Granule <= Shown(x)
<1>1. Granule \in Nat \ {0}
  BY ControllerAssumption
<1>2. PICK q \in Nat : Shown(x) = q * Granule
  BY ShownIsPoints
<1>3. Shown(x) \in Nat /\ x < Shown(x) + Granule
  BY ShownBounds
<1>4. CASE points <= q
  <2>1. Granule * points <= Granule * q
    BY <1>1, <1>4, ProductMonotone
  <2> QED
    BY <1>1, <1>2, <2>1
<1>5. CASE q + 1 <= points
  <2>1. Granule * (q + 1) <= Granule * points
    BY <1>1, <1>5, ProductMonotone
  <2>2. Granule * (q + 1) = q * Granule + Granule /\ Granule * points = points * Granule
    BY <1>1
  <2> QED
    BY <1>1, <1>2, <1>3, <2>1, <2>2
<1> QED
  BY <1>4, <1>5

LEMMA AnchorShown == Spec => []AnchorIsShown
<1>1. Init /\ TypeOK => AnchorIsShown
  <2> SUFFICES ASSUME Init, TypeOK PROVE AnchorIsShown
    OBVIOUS
  <2>1. used \in Nat /\ anchor.used = Shown(used)
    BY ControllerAssumption DEF Init, TypeOK, AnchorAt
  <2> QED
    BY <2>1, ShownIsPoints DEF AnchorIsShown
<1>2. AnchorIsShown /\ [Next]_vars => AnchorIsShown'
  BY ShownIsPoints DEF AnchorIsShown, Next, Admit, Burn, Finish, Unplanned, Tick, Reset,
       AnchorAt, vars
<1> QED
  BY <1>1, <1>2, TypeCorrect, PTL DEF Spec

(* Without advance the decision is whether the burn fits. *)
LEMMA AdmissionAtTheEnd ==
    ASSUME NEW base \in Nat, NEW safe \in Int, NEW pace
    PROVE  Admission(base, base, safe, pace, TRUE) \in Launching
             <=> 0 <= safe /\ safe <= base
<1>1. CASE safe < 0
  BY <1>1 DEF Admission, Launching
<1>2. CASE ~(safe < 0) /\ safe <= base
  BY <1>2 DEF Admission, Launching
<1>3. CASE ~(safe < 0) /\ ~(safe <= base)
  <2>1. Admission(base, base, safe, pace, TRUE) = "PROGRESS_ALTERNATIVE_OR_DEFER"
    <3>1. ~(base > base)
      OBVIOUS
    <3> QED
      BY <1>3, <3>1, Zenon DEF Admission
  <2> QED
    BY <1>3, <2>1 DEF Launching
<1> QED
  BY <1>1, <1>2, <1>3

(* With no work time before the horizon all that remained at the anchor is *)
(* open.                                                                   *)
LEMMA TargetAtZero ==
    ASSUME NEW u0 \in 0..Full, NEW a0 \in Nat
    PROVE  Target(u0, a0, 0) = (Full - u0) * Scale(a0)
<1> DEFINE rem == Full - u0
           res == Reserve(rem, a0)
           den == ReleaseDen(a0)
           whole == rem * Scale(a0)
<1>1. rem \in Nat /\ res \in Nat /\ rem - res \in Nat
  BY ReserveBounds
<1>2. den \in Nat /\ Scale(a0) \in Nat
  BY ScalePositive
<1>3. whole \in Nat
  <2> HIDE DEF rem
  <2> QED BY <1>1, <1>2, ProductNat
<1>4. Clamp(0, 0, a0) = 0 /\ Lower(0, den) = 0
  BY <1>2 DEF Clamp, Lower, Higher
<1>5. CASE a0 = 0
  BY <1>1, <1>5 DEF Target, Scale
<1>6. CASE a0 # 0
  <2>1. Target(u0, a0, 0) = Clamp(whole - (rem - res) * (0 * den) - res * (0 * a0), 0, whole)
    BY <1>4, <1>6 DEF Target
  <2>2. (rem - res) * (0 * den) = 0 /\ res * (0 * a0) = 0
    <3> HIDE DEF rem, res, den
    <3> QED
      BY <1>1, <1>2
  <2>3. Target(u0, a0, 0) = Clamp(whole, 0, whole)
    <3> HIDE DEF whole, rem, res, den
    <3> QED
      BY <1>3, <2>1, <2>2
  <2> HIDE DEF whole
  <2>4. Target(u0, a0, 0) = whole
    BY <1>3, <2>3 DEF Clamp, Lower, Higher
  <2> QED
    BY <2>4 DEF whole
<1> QED
  BY <1>5, <1>6

(* Within a normal day of the reset exactly the passes that fit into what  *)
(* the meter leaves are launched, whatever the pace risk: the target is    *)
(* all of the allowance, the advance is nothing, and because the anchor    *)
(* was itself a reading the meter never shows less than it.                *)
THEOREM NothingHeldBack == Spec => []NothingHeldBackAtTheEnd
<1>1. TypeOK /\ AnchorIsShown => NothingHeldBackAtTheEnd
  <2> SUFFICES ASSUME TypeOK, AnchorIsShown, ActiveLeft[now] <= NormalDaily, NEW pass
               PROVE  pass \in Launchable(now) <=>
                        /\ pass \in Estimates \X PaceLevels
                        /\ Shown(used) + committed + Granule + pass[1] <= Full
    BY DEF NothingHeldBackAtTheEnd
  <2> DEFINE s == Scale(anchor.active)
             left == Full - Shown(used) - committed - Granule
             room == Higher(0, left * s)
  <2>1. /\ ActiveLeft[now] \in Nat /\ anchor.used \in 0..Full /\ anchor.active \in Nat
        /\ used \in Nat /\ anchor.used <= used /\ committed \in Nat
        /\ Granule \in Nat /\ Full \in Nat /\ Shown(used) \in Nat
    BY ActiveTimeShrinks, ControllerAssumption, ShownBounds DEF TypeOK
  <2>2. s \in Nat \ {0}
    BY <2>1, ScalePositive
  <2>3. anchor.used <= Shown(used)
    <3>1. PICK points \in Nat : anchor.used = points * Granule
      BY DEF AnchorIsShown
    <3> QED
      BY <2>1, <3>1, ShownAbove
  <2>4. Charged = Shown(used) - anchor.used + committed + Granule
    BY <2>1, <2>3 DEF Charged, Higher
  <2>5. NormalDaily \in Nat /\ HardDaily \in Nat /\ NormalDaily <= 2 * HardDaily
    BY ControllerAssumption DEF NormalDaily, HardDaily
  <2>6. /\ Room(now, NormalDaily) = (Full - anchor.used) * s
        /\ Room(now, 2 * HardDaily) = (Full - anchor.used) * s
    <3>1. /\ Higher(0, ActiveLeft[now] - NormalDaily) = 0
          /\ Higher(0, ActiveLeft[now] - 2 * HardDaily) = 0
      BY <2>1, <2>5 DEF Higher
    <3> QED
      BY <2>1, <3>1, TargetAtZero DEF Room
  <2>7. (Full - anchor.used) * s - Charged * s = left * s
    <3>1. Full - anchor.used \in Int /\ Charged \in Int /\ left \in Int
          /\ (Full - anchor.used) - Charged = left
      BY <2>1, <2>4
    <3>2. ((Full - anchor.used) - Charged) * s = (Full - anchor.used) * s - Charged * s
      <4> DEFINE x == Full - anchor.used
      <4>1. x \in Int /\ Charged \in Int /\ s \in Int
        BY <2>2, <3>1
      <4> HIDE DEF x, s
      <4>2. (x - Charged) * s = x * s - Charged * s
        BY <4>1
      <4> QED
        BY <4>2 DEF x
    <3> QED
      BY <3>1, <3>2
  <2>8. BaseHeadroom(now) = room /\ MaxHeadroom(now) = room
    <3>1. /\ BaseHeadroom(now) = Higher(0, Room(now, NormalDaily) - Charged * s)
          /\ MaxHeadroom(now) = Higher(0, Room(now, 2 * HardDaily) - Charged * s)
      BY HeadroomAt DEF TypeOK
    <3> QED
      BY <2>6, <2>7, <3>1
  <2>9. left \in Int /\ left * s \in Int
    <3>1. left \in Int
      BY <2>1
    <3> HIDE DEF left, s
    <3> QED
      BY <2>2, <3>1
  <2>10. room \in Nat
    <3> HIDE DEF left, s
    <3> QED
      BY <2>9 DEF Higher
  <2>11. ASSUME NEW e \in Nat \ {0}
         PROVE  /\ e * s \in Int /\ 0 <= e * s
                /\ e * s <= room <=> e <= left
    <3> HIDE DEF left, s
    <3>1. e * s \in Nat \ {0}
      BY <2>2
    <3>2. CASE e <= left
      <4>1. s * e <= s * left
        BY <2>2, <2>9, <3>2, ProductMonotone
      <4>2. e * s = s * e /\ left * s = s * left
        BY <2>2, <2>9
      <4> QED
        BY <2>9, <3>1, <3>2, <4>1, <4>2 DEF Higher
    <3>3. CASE left + 1 <= e
      <4>1. s * (left + 1) <= s * e
        BY <2>2, <2>9, <3>3, ProductMonotone
      <4>2. e * s = s * e /\ s * (left + 1) = left * s + s
        BY <2>2, <2>9
      <4> QED
        BY <2>2, <2>9, <3>1, <3>3, <4>1, <4>2 DEF Higher
    <3> QED
      BY <2>9, <3>1, <3>2, <3>3
  <2>12. CASE pass \in Estimates \X PaceLevels
    <3> DEFINE e == pass[1]
    <3>1. e \in Nat \ {0} /\ pass \in (Estimates \union {Unknown}) \X PaceLevels
      BY <2>12, ControllerAssumption
    <3>2. pass \in Launchable(now) <=> Admission(room, room, e * s, pass[2], TRUE) \in Launching
      BY <2>8, <3>1 DEF Launchable
    <3>3. e * s \in Int /\ 0 <= e * s /\ (e * s <= room <=> e <= left)
      BY <2>11, <3>1
    <3> HIDE DEF room, s, e
    <3>4. pass \in Launchable(now) <=> e * s <= room
      BY <2>10, <3>2, <3>3, AdmissionAtTheEnd
    <3>5. pass \in Launchable(now) <=> e <= left
      BY <3>3, <3>4
    <3>6. e <= left <=> Shown(used) + committed + Granule + e <= Full
      BY <2>1, <3>1
    <3> QED
      BY <2>12, <3>5, <3>6 DEF e
  <2>13. CASE pass \notin Estimates \X PaceLevels
    <3> SUFFICES ASSUME pass \in Launchable(now) PROVE FALSE
      BY <2>13
    <3>1. pass[1] \in Estimates
      BY LaunchFits
    <3>2. pass \in (Estimates \union {Unknown}) \X PaceLevels
      BY DEF Launchable
    <3> QED
      BY <2>13, <3>1, <3>2
  <2> QED
    BY <2>12, <2>13
<1> QED
  BY <1>1, TypeCorrect, AnchorShown, PTL

-----------------------------------------------------------------------------
(* Both sides of a comparison multiplied alike. *)
LEMMA Scaled ==
    ASSUME NEW p \in Nat \ {0}, NEW x \in Int, NEW y \in Int
    PROVE  /\ x * p \in Int /\ y * p \in Int
           /\ x * p <= y * p <=> x <= y
           /\ Higher(0, x * p) = Higher(0, x) * p
           /\ (x - y) * p = x * p - y * p
<1>1. x * p \in Int /\ y * p \in Int /\ (x - y) * p = x * p - y * p
  OBVIOUS
<1>2. CASE x <= y
  <2>1. p * x <= p * y
    BY <1>2, ProductMonotone
  <2>2. x * p <= y * p
    BY <2>1
  <2>3. CASE 0 <= x
    <3>1. p * 0 <= p * x
      BY <2>3, ProductMonotone
    <3>2. 0 <= x * p
      BY <3>1
    <3>3. Higher(0, x * p) = x * p /\ Higher(0, x) = x
      BY <1>1, <2>3, <3>2 DEF Higher
    <3> QED
      BY <1>1, <1>2, <2>2, <3>3
  <2>4. CASE x < 0
    <3>1. p * x <= p * (-1)
      BY <2>4, ProductMonotone
    <3>2. x * p < 0
      BY <3>1
    <3>3. Higher(0, x * p) = 0 /\ Higher(0, x) = 0 /\ 0 * p = 0
      BY <1>1, <2>4, <3>2 DEF Higher
    <3> QED
      BY <1>1, <1>2, <2>2, <3>3
  <2> QED
    BY <2>3, <2>4
<1>3. CASE y + 1 <= x
  <2>1. p * (y + 1) <= p * x /\ p * (y + 1) = y * p + p
    BY <1>3, ProductMonotone
  <2>2. ~(x * p <= y * p)
    BY <1>1, <2>1
  <2>3. CASE 0 <= x
    <3>1. p * 0 <= p * x
      BY <2>3, ProductMonotone
    <3>2. 0 <= x * p
      BY <3>1
    <3>3. Higher(0, x * p) = x * p /\ Higher(0, x) = x
      BY <1>1, <2>3, <3>2 DEF Higher
    <3> QED
      BY <1>1, <1>3, <2>2, <3>3
  <2>4. CASE x < 0
    <3>1. p * x <= p * (-1)
      BY <2>4, ProductMonotone
    <3>2. x * p < 0
      BY <3>1
    <3>3. Higher(0, x * p) = 0 /\ Higher(0, x) = 0 /\ 0 * p = 0
      BY <1>1, <2>4, <3>2 DEF Higher
    <3> QED
      BY <1>1, <1>3, <2>2, <3>3
  <2> QED
    BY <2>3, <2>4
<1> QED
  BY <1>2, <1>3

-----------------------------------------------------------------------------
(* Sorted samples.  Reaching(s, k): the samples that k of them do not      *)
(* exceed, of which the one in place k is the smallest.                    *)
Within(s, bound) == {i \in DOMAIN s : s[i] <= bound}
Reaching(s, k) == {x \in ToSet(s) : Cardinality(Within(s, x)) >= k}

LEMMA LargestExists ==
    ASSUME NEW n \in Nat \ {0}, NEW s \in [1..n -> Nat]
    PROVE  \E m \in 1..n : \A i \in 1..n : s[i] <= s[m]
<1> DEFINE S == {j \in Nat : j + 1 <= n =>
                   \E m \in 1..(j + 1) : \A i \in 1..(j + 1) : s[i] <= s[m]}
<1>1. 0 \in S
  OBVIOUS
<1>2. ASSUME NEW j \in Nat, j \in S PROVE j + 1 \in S
  <2> SUFFICES ASSUME (j + 1) + 1 <= n
               PROVE  \E m \in 1..((j + 1) + 1) :
                        \A i \in 1..((j + 1) + 1) : s[i] <= s[m]
    OBVIOUS
  <2> DEFINE new == (j + 1) + 1
  <2>1. PICK m \in 1..(j + 1) : \A i \in 1..(j + 1) : s[i] <= s[m]
    BY <1>2
  <2>2. s[m] \in Nat /\ s[new] \in Nat /\ m \in 1..new /\ new \in 1..new
    OBVIOUS
  <2>3. \A i \in 1..new : i \in 1..(j + 1) \/ i = new
    OBVIOUS
  <2>4. \A i \in 1..new : s[i] \in Nat
    OBVIOUS
  <2> HIDE DEF new
  <2>5. CASE s[new] <= s[m]
    BY <2>1, <2>2, <2>3, <2>5 DEF new
  <2>6. CASE s[m] <= s[new]
    <3>1. \A i \in 1..new : s[i] <= s[new]
      BY <2>1, <2>2, <2>3, <2>4, <2>6
    <3> QED
      BY <2>2, <3>1 DEF new
  <2> QED
    BY <2>2, <2>5, <2>6
<1> HIDE DEF S
<1>3. \A j \in Nat : j \in S
  BY <1>1, <1>2, SetInduction, Zenon
<1>4. n - 1 \in S
  BY <1>3
<1> QED
  BY <1>4 DEF S

LEMMA SortedPlace ==
    ASSUME NEW n \in Nat \ {0}, NEW s \in [1..n -> Nat], NEW k \in 1..n
    PROVE  /\ Ascending(s)[k] \in Reaching(s, k)
           /\ Ascending(s)[k] \in Nat
           /\ \A y \in Reaching(s, k) : Ascending(s)[k] <= y
<1> DEFINE T == Reaching(s, k)
<1>1. T \subseteq Nat
  BY DEF Reaching, ToSet
<1>2. T # {}
  <2>1. PICK m \in 1..n : \A i \in 1..n : s[i] <= s[m]
    BY LargestExists
  <2>2. Within(s, s[m]) = 1..n
    BY <2>1 DEF Within
  <2>3. Cardinality(1..n) = n
    BY FS_Interval
  <2>4. s[m] \in T
    BY <2>2, <2>3 DEF Reaching, ToSet
  <2> QED
    BY <2>4
<1>3. PICK x \in T : \A y \in T : x <= y
  <2> HIDE DEF T
  <2> QED
    BY <1>1, <1>2, SmallestExists
<1>4. Ascending(s)[k] = Min(T)
  BY DEF Ascending, Reaching, Within
<1> HIDE DEF T
<1>5. Min(T) \in T /\ \A y \in T : Min(T) <= y
  BY <1>3 DEF Min
<1> QED
  BY <1>1, <1>4, <1>5 DEF T

LEMMA SortedRises ==
    ASSUME NEW n \in Nat \ {0}, NEW s \in [1..n -> Nat],
           NEW j \in 1..n, NEW k \in 1..n, j <= k
    PROVE  Ascending(s)[j] <= Ascending(s)[k]
<1>1. Ascending(s)[k] \in Reaching(s, k)
  BY SortedPlace
<1>2. \A x : Cardinality(Within(s, x)) \in Nat
  <2> TAKE x
  <2>1. IsFiniteSet(1..n)
    BY FS_Interval
  <2>2. IsFiniteSet(Within(s, x))
    BY <2>1, FS_Subset DEF Within
  <2> QED
    BY <2>2, FS_CardinalityType
<1>3. Ascending(s)[k] \in Reaching(s, j)
  BY <1>1, <1>2 DEF Reaching
<1> QED
  BY <1>3, SortedPlace

LEMMA PartsType == PerUnit \in Nat \ {0}
BY SMT DEF PerUnit

(* Sorting does not care what the samples are counted in. *)
LEMMA SortedScales ==
    ASSUME NEW n \in Nat \ {0}, NEW s \in [1..n -> Nat],
           NEW z \in [1..n -> Nat], \A i \in 1..n : z[i] = s[i] * PerUnit,
           NEW k \in 1..n
    PROVE  Ascending(z)[k] = Ascending(s)[k] * PerUnit
<1> USE PartsType
<1>1. ASSUME NEW x \in Nat PROVE Within(z, x * PerUnit) = Within(s, x)
  <2>1. \A i \in 1..n : z[i] <= x * PerUnit <=> s[i] <= x
    <3> TAKE i \in 1..n
    <3>1. s[i] \in Int
      OBVIOUS
    <3>2. s[i] * PerUnit <= x * PerUnit <=> s[i] <= x
      BY <3>1, Scaled
    <3> QED
      BY <3>2
  <2> QED
    BY <2>1 DEF Within
<1>2. ASSUME NEW x \in Nat PROVE x \in Reaching(s, k) => x * PerUnit \in Reaching(z, k)
  BY <1>1 DEF Reaching, ToSet
<1>3. ASSUME NEW y \in Reaching(z, k) PROVE \E x \in Reaching(s, k) : x \in Nat /\ y = x * PerUnit
  <2>1. PICK i \in 1..n : y = s[i] * PerUnit
    BY DEF Reaching, ToSet
  <2>2. s[i] \in Reaching(s, k)
    BY <1>1, <2>1 DEF Reaching, ToSet
  <2> QED
    BY <2>1, <2>2
<1> DEFINE a == Ascending(s)[k]
           b == Ascending(z)[k]
<1>4. /\ a \in Reaching(s, k) /\ a \in Nat /\ \A y \in Reaching(s, k) : a <= y
      /\ b \in Reaching(z, k) /\ b \in Nat /\ \A y \in Reaching(z, k) : b <= y
  BY SortedPlace
<1>5. PICK x \in Reaching(s, k) : x \in Nat /\ b = x * PerUnit
  BY <1>3, <1>4
<1> HIDE DEF a, b
<1>6. a * PerUnit \in Nat /\ b <= a * PerUnit
  BY <1>2, <1>4
<1>7. a <= x
  BY <1>4
<1>8. a * PerUnit <= x * PerUnit <=> a <= x
  BY <1>4, <1>5, Scaled
<1>9. x * PerUnit \in Int /\ a * PerUnit <= x * PerUnit
  BY <1>5, <1>7, <1>8
<1>10. b = a * PerUnit
  <2> DEFINE p == a * PerUnit
  <2>1. b \in Int /\ p \in Int /\ b <= p /\ p <= b
    BY <1>4, <1>5, <1>6, <1>9
  <2> HIDE DEF p
  <2>2. b = p
    BY <2>1
  <2> QED
    BY <2>2 DEF p
<1> QED
  BY <1>10 DEF a, b

-----------------------------------------------------------------------------
LEMMA Sorted ==
    ASSUME NEW n \in Nat \ {0}, NEW s \in Seq(Nat), Len(s) = n
    PROVE  /\ s \in [1..n -> Nat]
           /\ Ascending(s) \in [1..n -> Nat] /\ Len(Ascending(s)) = n
<1>1. s \in [1..n -> Nat] /\ DOMAIN s = 1..n
  BY LenProperties
<1>2. \A k \in 1..n : Ascending(s)[k] \in Nat
  BY <1>1, SortedPlace
<1>3. Ascending(s) = [k \in 1..n |-> Ascending(s)[k]]
  BY <1>1 DEF Ascending
<1>4. Ascending(s) \in [1..n -> Nat]
  BY <1>2, <1>3
<1> QED
  BY <1>1, <1>4

(* The estimate.  The recent samples are between one and five, whatever    *)
(* they are counted in.                                                    *)
InParts(samples) == [i \in DOMAIN samples |-> samples[i] * PerUnit]

LEMMA FunctionIsSeq ==
    ASSUME NEW n \in Nat, NEW f \in [1..n -> Nat]
    PROVE  f \in Seq(Nat) /\ Len(f) = n
OBVIOUS

LEMMA RecentSamples ==
    ASSUME NEW samples \in Seq(Nat), samples # <<>>
    PROVE  \E n \in 1..5 :
             /\ Recent(samples) \in Seq(Nat) /\ Len(Recent(samples)) = n
             /\ Recent(InParts(samples)) \in Seq(Nat) /\ Len(Recent(InParts(samples))) = n
             /\ \A i \in 1..n : Recent(InParts(samples))[i] = Recent(samples)[i] * PerUnit
<1> DEFINE z == InParts(samples)
           l == Len(samples)
           m == Higher(1, l - 4)
           n == l - m + 1
<1>1. l \in Nat \ {0} /\ samples \in [1..l -> Nat] /\ DOMAIN samples = 1..l
  BY EmptySeq, LenProperties
<1>2. z \in [1..l -> Nat] /\ \A i \in 1..l : z[i] = samples[i] * PerUnit
  BY <1>1, PartsType DEF InParts
<1>3. z \in Seq(Nat) /\ Len(z) = l
  <2>1. l \in Nat
    BY <1>1
  <2> HIDE DEF z, l
  <2> QED
    BY <1>2, <2>1, FunctionIsSeq
<1>4. m \in Int /\ 1 <= m /\ m <= l /\ n \in 1..5
  BY <1>1 DEF Higher
<1> HIDE DEF z, m
<1>5. \A i \in m..l : samples[i] \in Nat /\ z[i] \in Nat
  <2>1. \A i \in m..l : i \in 1..l
    BY <1>1, <1>4
  <2> QED
    BY <1>1, <1>2, <2>1
<1>6. /\ SubSeq(samples, m, l) \in Seq(Nat) /\ Len(SubSeq(samples, m, l)) = n
      /\ \A i \in 1..n : SubSeq(samples, m, l)[i] = samples[m + i - 1]
  BY <1>1, <1>4, <1>5, SubSeqProperties
<1>7. /\ SubSeq(z, m, l) \in Seq(Nat) /\ Len(SubSeq(z, m, l)) = n
      /\ \A i \in 1..n : SubSeq(z, m, l)[i] = z[m + i - 1]
  BY <1>1, <1>4, <1>5, SubSeqProperties
<1>8. Recent(samples) = SubSeq(samples, m, l) /\ Recent(z) = SubSeq(z, m, l)
  BY <1>3 DEF Recent, m
<1>9. \A i \in 1..n : m + i - 1 \in 1..l
  BY <1>1, <1>4
<1>10. \A i \in 1..n : Recent(z)[i] = Recent(samples)[i] * PerUnit
  BY <1>2, <1>6, <1>7, <1>8, <1>9
<1>11. /\ Recent(samples) \in Seq(Nat) /\ Len(Recent(samples)) = n
       /\ Recent(z) \in Seq(Nat) /\ Len(Recent(z)) = n
  BY <1>6, <1>7, <1>8
<1> HIDE DEF n
<1> QED
  BY <1>4, <1>10, <1>11 DEF z

LEMMA MedianType ==
    ASSUME NEW n \in 3..5, NEW s \in Seq(Nat), Len(s) = n
    PROVE  Median(s) \in Nat
<1>1. s \in [1..n -> Nat]
  BY LenProperties
<1> DEFINE o == Ascending(s)
<1>2. \A k \in 1..n : o[k] \in Nat
  BY <1>1, SortedPlace
<1>3. Median(s) = At(o, 5 * (n - 1))
  BY DEF Median
<1> HIDE DEF o
<1>4. CASE n = 3
  <2>1. At(o, 10) = o[2]
    BY DEF At
  <2> QED
    BY <1>2, <1>3, <1>4, <2>1
<1>5. CASE n = 4
  <2>1. At(o, 15) = Between(o[2], o[3], 5)
    BY DEF At
  <2>2. o[2] \in Nat /\ o[3] \in Nat
    BY <1>2, <1>5
  <2>3. Between(o[2], o[3], 5) \in Nat
    BY <2>2 DEF Between
  <2> QED
    BY <1>3, <1>5, <2>1, <2>3
<1>6. CASE n = 5
  <2>1. At(o, 20) = o[3]
    BY DEF At
  <2> QED
    BY <1>2, <1>3, <1>6, <2>1
<1> QED
  BY <1>4, <1>5, <1>6

LEMMA MarginType ==
    ASSUME NEW n \in 3..5, NEW s \in Seq(Nat), Len(s) = n
    PROVE  Margin(s) \in Nat
<1> DEFINE median == Median(s)
           off == [i \in DOMAIN s |-> Distance(s[i], median)]
<1>1. s \in [1..n -> Nat] /\ DOMAIN s = 1..n
  BY LenProperties
<1>2. median \in Nat
  BY MedianType
<1>3. off \in [1..n -> Nat]
  <2> HIDE DEF median
  <2> QED
    BY <1>1, <1>2 DEF Distance
<1> HIDE DEF median
<1>4. off \in Seq(Nat) /\ Len(off) = n
  BY <1>3
<1> HIDE DEF off
<1>5. Median(off) \in Nat
  BY <1>4, MedianType
<1>6. Margin(s) = (Median(off) \div 1000000) * 2438877
  BY SMT DEF Margin, median, off
<1> QED
  BY <1>5, <1>6, SMT

LEMMA PercentileReaches ==
    ASSUME NEW n \in 3..5, NEW s \in Seq(Nat), Len(s) = n
    PROVE  /\ Percentile80(s) \in Nat
           /\ Ascending(s)[n - 1] <= Percentile80(s)
<1>1. s \in [1..n -> Nat]
  BY LenProperties
<1> DEFINE o == Ascending(s)
<1>2. \A k \in 1..n : o[k] \in Nat
  BY <1>1, SortedPlace
<1>3. o[n - 1] <= o[n]
  BY <1>1, SortedRises
<1>4. Percentile80(s) = At(o, 8 * (n - 1))
  BY DEF Percentile80
<1>5. o[n - 1] \in Nat /\ o[n] \in Nat
  BY <1>2
<1> HIDE DEF o
<1>6. ASSUME NEW tenths \in 0..10
      PROVE  /\ Between(o[n - 1], o[n], tenths) \in Nat
             /\ o[n - 1] <= Between(o[n - 1], o[n], tenths)
  <2> DEFINE a == o[n - 1]
             b == o[n]
             sum == a * (10 - tenths) + b * tenths
  <2>1. a \in Nat /\ b \in Nat /\ a <= b
    BY <1>3, <1>5
  <2> HIDE DEF a, b
  <2>2. tenths * a <= tenths * b
    BY <2>1, ProductMonotone
  <2>3. a * (10 - tenths) + b * tenths = 10 * a + (tenths * b - tenths * a)
    BY <2>1
  <2>4. sum \in Nat /\ 10 * a <= sum
    <3> DEFINE low == tenths * a
               high == tenths * b
    <3>1. low \in Nat /\ high \in Nat
      BY <2>1, ProductNat
    <3>2. low <= high /\ sum = 10 * a + (high - low)
      BY <2>2, <2>3
    <3> HIDE DEF low, high, sum
    <3> QED
      BY <2>1, <3>1, <3>2
  <2> HIDE DEF sum
  <2>5. sum \div 10 \in Nat /\ a <= sum \div 10
    BY <2>1, <2>4
  <2> QED
    BY <2>5 DEF Between, sum, a, b
<1>7. CASE n = 3
  <2>1. At(o, 16) = Between(o[2], o[3], 6)
    BY DEF At
  <2>2. Percentile80(s) = Between(o[n - 1], o[n], 6)
    BY <1>4, <1>7, <2>1
  <2> QED
    BY <1>6, <2>2 DEF o
<1>8. CASE n = 4
  <2>1. At(o, 24) = Between(o[3], o[4], 4)
    BY DEF At
  <2>2. Percentile80(s) = Between(o[n - 1], o[n], 4)
    BY <1>4, <1>8, <2>1
  <2> QED
    BY <1>6, <2>2 DEF o
<1>9. CASE n = 5
  <2>1. At(o, 32) = Between(o[4], o[5], 2)
    BY DEF At
  <2>2. Percentile80(s) = Between(o[n - 1], o[n], 2)
    BY <1>4, <1>9, <2>1
  <2> QED
    BY <1>6, <2>2 DEF o
<1> QED
  BY <1>7, <1>8, <1>9

(* An estimate covers the typical burn and a point of the meter.           *)
LEMMA EstimateCovers ==
    ASSUME NEW samples \in Seq(Nat), samples # <<>>
    PROVE  /\ Typical(samples) \in Nat
           /\ SafeBurn(samples) \in Int
           /\ (Typical(samples) + Granule) * PerUnit <= SafeBurn(samples)
<1> DEFINE s == Recent(samples)
           z == Recent(InParts(samples))
           g == Granule * PerUnit
<1>1. PICK n \in 1..5 :
        /\ s \in Seq(Nat) /\ Len(s) = n
        /\ z \in Seq(Nat) /\ Len(z) = n
        /\ \A i \in 1..n : z[i] = s[i] * PerUnit
  BY RecentSamples
<1> DEFINE place == IF n < 3 THEN n ELSE n - 1
<1>2. Typical(samples) = Ascending(s)[place] /\ place \in 1..n
  <2>1. Len(Ascending(s)) = n
    BY <1>1, Sorted
  <2>2. Typical(samples) = Ascending(s)[place]
    BY <2>1 DEF Typical
  <2> QED
    BY <2>2
<1> HIDE DEF s, z, place
<1>3. /\ s \in [1..n -> Nat] /\ z \in [1..n -> Nat]
      /\ Ascending(s) \in [1..n -> Nat] /\ Ascending(z) \in [1..n -> Nat]
      /\ Len(Ascending(z)) = n
  <2>1. n \in Nat \ {0}
    OBVIOUS
  <2> QED
    BY <1>1, <2>1, Sorted, Zenon
<1>4. Ascending(s)[place] \in Nat /\ Ascending(z)[place] \in Nat
  BY <1>2, <1>3
<1>5. Ascending(z)[place] = Ascending(s)[place] * PerUnit
  <2>1. n \in Nat \ {0}
    OBVIOUS
  <2>2. \A i \in 1..n : z[i] = s[i] * PerUnit
    BY <1>1
  <2> QED
    BY <1>2, <1>3, <2>1, <2>2, SortedScales
<1>6. /\ g \in Nat
      /\ (Ascending(s)[place] + Granule) * PerUnit = Ascending(z)[place] + g
  <2> DEFINE a == Ascending(s)[place]
  <2>1. a \in Nat /\ Granule \in Nat
    BY <1>4, ControllerAssumption
  <2> HIDE DEF a
  <2>2. Granule * PerUnit \in Nat /\ (a + Granule) * PerUnit = a * PerUnit + Granule * PerUnit
    BY <2>1, PartsType
  <2> QED
    BY <1>5, <2>2 DEF a
<1> HIDE DEF g
<1>7. SafeBurn(samples) =
        CASE n = 1 -> Ascending(z)[n] + Higher(g, Ascending(z)[n] \div 2)
          [] n = 2 -> Ascending(z)[n] + Higher(g, Ascending(z)[n] \div 4)
          [] OTHER -> Higher(Percentile80(z), Median(z) + Margin(z)) + g
  <2>1. Last(Ascending(z)) = Ascending(z)[n]
    BY <1>3 DEF Last
  <2> QED
    BY <1>1, <2>1 DEF SafeBurn, InParts, z, g
<1> DEFINE x == Ascending(z)[place]
<1>8. SafeBurn(samples) \in Int /\ x + g <= SafeBurn(samples)
  <2>1. CASE n < 3
    <3>1. place = n
      BY <2>1 DEF place
    <3>2. x \in Nat /\ Ascending(z)[n] = x
      BY <1>4, <3>1
    <3> HIDE DEF x
    <3>3. CASE n = 1
      BY <1>6, <1>7, <3>2, <3>3 DEF Higher
    <3>4. CASE n = 2
      BY <1>6, <1>7, <3>2, <3>4 DEF Higher
    <3> QED
      BY <2>1, <3>3, <3>4
  <2>2. CASE n \in 3..5
    <3>1. place = n - 1
      BY <2>2 DEF place
    <3>2. SafeBurn(samples) = Higher(Percentile80(z), Median(z) + Margin(z)) + g
      BY <1>7, <2>2
    <3>3. Percentile80(z) \in Nat /\ x <= Percentile80(z)
      BY <1>1, <2>2, <3>1, PercentileReaches
    <3>4. Median(z) \in Nat /\ Margin(z) \in Nat
      BY <1>1, <2>2, MedianType, MarginType
    <3>5. x \in Nat
      BY <1>4
    <3> HIDE DEF x
    <3> QED
      BY <1>6, <3>2, <3>3, <3>4, <3>5 DEF Higher
  <2> QED
    BY <2>1, <2>2
<1> QED
  BY <1>2, <1>4, <1>6, <1>8

(* A pass that starts because the estimate made of its history fits the    *)
(* base headroom does fit a normal day ahead (robust_safe_burn_pp,         *)
(* runway_status, admission).                                              *)
THEOREM HistoryFitsTheorem == Spec => []HistoryFits
<1>1. ASSUME TypeOK PROVE HistoryFits
  <2> DEFINE scale == Scale(anchor.active)
             target == Target(anchor.used, anchor.active,
                              Higher(0, ActiveLeft[now] - NormalDaily))
             headroom == BaseHeadroom(now)
             cost == Charged * scale
  <2>1. /\ used \in Nat /\ committed \in Nat /\ anchor.used \in Nat
        /\ scale \in Nat \ {0}
        /\ Granule \in Nat \ {0}
    BY <1>1, ScalePositive, ControllerAssumption DEF TypeOK
  <2>2. /\ target \in Nat /\ cost \in Int /\ headroom = Higher(0, target - cost)
    BY <1>1, HeadroomAt DEF TypeOK, Room
  <2>3. Charged \in Int /\ used + committed <= anchor.used + Charged
    BY <2>1, ShownBounds DEF Charged, Higher
  <2> SUFFICES ASSUME NEW burn \in Estimated,
                      burn[1] * scale <= headroom * PerUnit
               PROVE  (used + committed + burn[2]) * scale <= anchor.used * scale + target
    BY DEF HistoryFits
  <2>4. PICK samples \in Histories : burn = <<SafeBurn(samples), Typical(samples)>>
    BY DEF Estimated
  <2> DEFINE typical == burn[2]
             covered == (typical + Granule) * scale
  <2>5. /\ typical \in Nat /\ burn[1] \in Int
        /\ (typical + Granule) * PerUnit <= burn[1]
    BY <2>4, HistoryAssumption, EstimateCovers
  <2> HIDE DEF scale, target, headroom, typical
  <2>6. covered \in Nat \ {0}
    BY <2>1, <2>5
  <2>7. covered <= headroom
    <3>1. scale * ((typical + Granule) * PerUnit) <= scale * burn[1]
      BY <2>1, <2>5, ProductMonotone, PartsType
    <3>2. /\ scale * ((typical + Granule) * PerUnit) = covered * PerUnit
          /\ scale * burn[1] = burn[1] * scale
      BY <2>1, <2>5, PartsType
    <3>3. headroom \in Int
      BY <2>2 DEF Higher
    <3>4. covered * PerUnit <= headroom * PerUnit
      <4> HIDE DEF covered
      <4>1. covered * PerUnit \in Int /\ headroom * PerUnit \in Int /\ burn[1] * scale \in Int
        BY <2>1, <2>5, <2>6, <3>3, PartsType
      <4> QED
        BY <3>1, <3>2, <4>1
    <3> HIDE DEF covered
    <3> QED
      BY <2>6, <3>3, <3>4, Scaled, PartsType
  <2>8. covered + cost <= target
    <3> HIDE DEF covered, cost
    <3> QED
      BY <2>2, <2>6, <2>7 DEF Higher
  <2>9. (used + committed + typical) * scale <= (anchor.used + Charged + typical + Granule) * scale
    <3> DEFINE low == used + committed + typical
               high == anchor.used + Charged + typical + Granule
    <3>1. low \in Int /\ high \in Int /\ low <= high
      BY <2>1, <2>3, <2>5
    <3> HIDE DEF low, high
    <3>2. scale * low <= scale * high
      BY <2>1, <3>1, ProductMonotone
    <3> QED
      BY <2>1, <3>1, <3>2 DEF low, high
  <2>10. (anchor.used + Charged + typical + Granule) * scale = anchor.used * scale + cost + covered
    BY <2>1, <2>3, <2>5
  <2> DEFINE spent == (used + committed + typical) * scale
             all == (anchor.used + Charged + typical + Granule) * scale
             before == anchor.used * scale
  <2>11. spent \in Int /\ before \in Int /\ all = before + cost + covered /\ spent <= all
    BY <2>1, <2>5, <2>9, <2>10
  <2> HIDE DEF spent, all, before, covered, cost
  <2>12. spent <= before + target
    BY <2>2, <2>6, <2>8, <2>11
  <2> QED
    BY <2>12 DEF spent, before, typical
<1> QED
  BY <1>1, TypeCorrect, PTL


-----------------------------------------------------------------------------
(* The v2.2 controller. *)
Cap(u0) == Lower(BaseReserve, (Full - u0) \div 2)
Even(u0) == Full - u0 - Cap(u0)

LEMMA CapBounds ==
    ASSUME NEW u0 \in 0..Full
    PROVE  Full - u0 \in Nat /\ Cap(u0) \in Nat /\ Even(u0) \in 0..(Full - u0)
BY ControllerAssumption DEF Cap, Even, Lower

(* Times its scale, the target of an instant before the release: the even  *)
(* part of all but the reserve.                                            *)
LEMMA TargetBeforeRelease ==
    ASSUME NEW u0 \in 0..Full, NEW h0 \in Nat, NEW h \in Nat,
           ReserveReleaseHours <= h, h <= h0
    PROVE  /\ Even(u0) * (h0 - h) \in Nat
           /\ TargetByHours(AnchorByHours(u0, h0), h)
                = (Even(u0) * (h0 - h)) * ReserveReleaseHours
<1> DEFINE R == ReserveReleaseHours
           rem == Full - u0
           cap == Cap(u0)
           k == AnchorByHours(u0, h0)
           whole == rem * (h0 * R)
<1>1. R \in Nat \ {0} /\ rem \in Nat /\ cap \in Nat /\ rem - cap \in Nat /\ h0 - h \in Nat
  BY CapBounds, HoursAssumption DEF Even
<1>2. /\ k.hours = h0 /\ k.remaining = rem /\ k.reserve = cap * R
      /\ h0 # 0 /\ Clamp(h, 0, h0) = h /\ Lower(R, h0) = R /\ Lower(h, R) = R
      /\ ScaleByHours(h0) = h0 * R
  BY <1>1 DEF AnchorByHours, AnchorReserve, Cap, ScaleByHours, Clamp, Lower, Higher
<1>3. ((cap * R) * R * h0) \div R = cap * R * h0
  <2> HIDE DEF R, cap
  <2>1. cap * R * h0 \in Nat
    BY <1>1, ProductNat
  <2>2. (cap * R) * R * h0 = (cap * R * h0) * R
    BY <1>1, SMT
  <2> DEFINE q == cap * R * h0
  <2>3. ASSUME NEW x \in Nat PROVE (x * R) \div R = x
    <3>1. /\ (x * R) \div R \in Nat /\ (x * R) % R \in 0..(R - 1)
          /\ x * R = ((x * R) \div R) * R + ((x * R) % R)
      <4>1. x * R \in Nat
        BY <1>1, ProductNat
      <4> QED
        BY <1>1, <4>1, Division
    <3> QED
      BY <1>1, <3>1, DivisionIsUnique
  <2> QED
    BY <2>1, <2>2, <2>3
<1>4. TargetByHours(k, h)
        = Clamp(whole - (rem * R - cap * R) * h - cap * R * h0, 0, whole)
  <2>1. TargetByHours(k, h) = Released(k, ScheduledByHours(k, h), cap * R * h0)
    <3> HIDE DEF R, cap, k, rem
    <3> QED
      BY <1>2, <1>3 DEF TargetByHours, R
  <2>2. ScheduledByHours(k, h) = (rem * R - cap * R) * h
    <3> HIDE DEF cap, k, rem
    <3> QED
      BY <1>2 DEF ScheduledByHours
  <2> HIDE DEF R, cap, k, rem
  <2> QED
    BY <1>2, <2>1, <2>2 DEF Released
<1>5. whole - (rem * R - cap * R) * h - cap * R * h0 = ((rem - cap) * (h0 - h)) * R
  <2> HIDE DEF R, cap, rem
  <2> QED
    BY <1>1, SMT
<1>6. (rem - cap) * (h0 - h) \in Nat
  <2> HIDE DEF R, cap, rem
  <2> QED
    BY <1>1, ProductNat
<1>7. ((rem - cap) * (h0 - h)) * R \in 0..whole
  <2> HIDE DEF R, cap, rem
  <2>1. /\ (rem - cap) * (h0 - h) <= (rem - cap) * h0
        /\ h0 * (rem - cap) <= h0 * rem
    BY <1>1, ProductMonotone
  <2>2. R * ((rem - cap) * (h0 - h)) <= R * (rem * h0)
    <3>1. (rem - cap) * (h0 - h) <= rem * h0
      BY <1>1, <2>1
    <3>2. rem * h0 \in Int
      BY <1>1
    <3> QED
      BY <1>1, <1>6, <3>1, <3>2, ProductMonotone
  <2>3. R * (rem * h0) = rem * (h0 * R)
    BY <1>1, SMT
  <2>4. R * ((rem - cap) * (h0 - h)) = ((rem - cap) * (h0 - h)) * R
    BY <1>1, <1>6
  <2>5. R * ((rem - cap) * (h0 - h)) \in Nat
    BY <1>1, <1>6, ProductNat
  <2>6. rem * (h0 * R) \in Nat
    BY <1>1, ProductNat
  <2> QED
    BY <2>2, <2>3, <2>4, <2>5, <2>6
<1>8. Even(u0) = rem - cap
  BY DEF Even
<1> DEFINE open == ((rem - cap) * (h0 - h)) * R
<1>9. whole \in Int /\ open \in 0..whole
  <2> HIDE DEF R, cap, rem
  <2>1. h0 * R \in Nat
    BY <1>1, ProductNat
  <2>2. whole \in Nat
    BY <1>1, <2>1, ProductNat
  <2> QED
    BY <1>7, <2>2
<1>10. TargetByHours(k, h) = open
  <2>1. TargetByHours(k, h) = Clamp(open, 0, whole)
    BY <1>4, <1>5
  <2> HIDE DEF open, whole, k
  <2> QED
    BY <1>9, <2>1 DEF Clamp, Lower, Higher
<1> QED
  BY <1>6, <1>8, <1>10

(* At the reset all that remained at the anchor is open.                   *)
LEMMA TargetAtReset ==
    ASSUME NEW u0 \in 0..Full, NEW h0 \in Nat
    PROVE  TargetByHours(AnchorByHours(u0, h0), 0) = (Full - u0) * ScaleByHours(h0)
<1> DEFINE R == ReserveReleaseHours
           rem == Full - u0
           k == AnchorByHours(u0, h0)
           whole == rem * ScaleByHours(h0)
           den == Lower(R, h0)
<1>1. R \in Nat \ {0} /\ rem \in Nat /\ Cap(u0) \in Nat
  BY CapBounds, HoursAssumption
<1>2. /\ k.hours = h0 /\ k.remaining = rem
      /\ k.reserve = Cap(u0) * Clamp(h0, 0, R)
      /\ Clamp(0, 0, h0) = 0
  BY <1>1 DEF AnchorByHours, AnchorReserve, Cap, Clamp, Lower, Higher
<1>3. k.reserve \in Nat
  <2>1. Clamp(h0, 0, R) \in Nat
    BY <1>1 DEF Clamp, Lower, Higher
  <2> QED
    BY <1>1, <1>2, <2>1, ProductNat
<1>4. CASE h0 = 0
  <2>1. ScaleByHours(h0) = 1 /\ rem * 1 = rem
    BY <1>1, <1>4 DEF ScaleByHours
  <2> HIDE DEF k
  <2>2. TargetByHours(k, 0) = rem
    BY <1>2, <1>4 DEF TargetByHours
  <2> QED
    BY <2>1, <2>2 DEF k
<1>5. CASE h0 # 0
  <2>1. den \in Nat \ {0} /\ Lower(0, den) = 0
    BY <1>1, <1>5 DEF Lower
  <2>2. ScaleByHours(h0) \in Nat /\ whole \in Nat
    <3>1. ScaleByHours(h0) \in Nat
      BY <1>1, <1>5, ProductNat DEF ScaleByHours
    <3> HIDE DEF rem
    <3> QED
      BY <1>1, <3>1, ProductNat
  <2>3. (k.reserve * 0 * h0) \div den = 0
    <3>1. k.reserve * 0 * h0 = 0
      BY <1>3
    <3> HIDE DEF den, k
    <3> QED
      BY <2>1, <3>1
  <2>4. ScheduledByHours(k, 0) = 0
    <3>1. (rem * R - k.reserve) * 0 = 0
      <4>1. rem * R \in Nat
        <5> HIDE DEF rem, R
        <5> QED
          BY <1>1, ProductNat
      <4> QED
        BY <1>3, <4>1
    <3> HIDE DEF k, rem
    <3> QED
      BY <1>2, <3>1 DEF ScheduledByHours
  <2>5. TargetByHours(k, 0) = Released(k, 0, 0)
    <3> HIDE DEF k, den
    <3> QED
      BY <1>2, <1>5, <2>1, <2>3, <2>4 DEF TargetByHours, den
  <2>6. Released(k, 0, 0) = Clamp(whole - 0 - 0, 0, whole)
    <3> HIDE DEF k
    <3> QED
      BY <1>2 DEF Released
  <2> HIDE DEF whole
  <2>7. Clamp(whole - 0 - 0, 0, whole) = whole
    BY <2>2 DEF Clamp, Lower, Higher
  <2> QED
    BY <2>5, <2>6, <2>7 DEF whole
<1> QED
  BY <1>4, <1>5

(* What is started fits into the larger headroom, and whatever fits into   *)
(* the smaller one is started.                                             *)
LEMMA BalancedStarts ==
    ASSUME NEW base \in Nat, NEW advance \in Nat, NEW safe \in Int, NEW pace,
           base <= advance
    PROVE  /\ BalancedAdmission(base, advance, safe, pace, TRUE) \in Launching
                 => safe \in 0..advance
           /\ safe \in 0..base
                 => BalancedAdmission(base, advance, safe, pace, TRUE) \in Launching
<1> DEFINE decision == BalancedAdmission(base, advance, safe, pace, TRUE)
<1>1. Higher(0, base) = base /\ Higher(base, advance) = advance
  BY DEF Higher
<1>2. safe < 0 => decision = "CALIBRATE_OR_PREPARE"
  BY <1>1 DEF BalancedAdmission
<1>3. safe \in 0..base => decision = "LAUNCH_BASE"
  BY <1>1 DEF BalancedAdmission
<1>4. advance < safe => decision = "PROGRESS_ALTERNATIVE_OR_DEFER"
  BY <1>1 DEF BalancedAdmission
<1> SUFFICES /\ decision \in Launching => safe \in 0..advance
             /\ safe \in 0..base => decision \in Launching
  OBVIOUS
<1> HIDE DEF decision
<1> QED
  BY <1>2, <1>3, <1>4 DEF Launching

LEMMA HoursScale ==
    ASSUME NEW h0 \in Nat
    PROVE  ScaleByHours(h0) \in Nat \ {0}
<1>1. CASE h0 = 0
  BY <1>1 DEF ScaleByHours
<1>2. CASE h0 # 0
  BY <1>2, HoursAssumption DEF ScaleByHours
<1> QED
  BY <1>1, <1>2

LEMMA HoursRoom ==
    ASSUME NEW u0 \in 0..Full, NEW h0 \in Nat, NEW shown \in Nat, NEW hours \in 0..h0,
           NEW lookahead \in Nat, NEW c \in Nat, u0 <= shown
    PROVE  HeadroomByHours(AnchorByHours(u0, h0), shown, hours, lookahead, c)
             = Higher(0, TargetByHours(AnchorByHours(u0, h0),
                                       Higher(0, hours - Lower(lookahead, hours)))
                           - (shown - u0 + c + Granule) * ScaleByHours(h0))
<1> DEFINE k == AnchorByHours(u0, h0)
<1>1. /\ k.hours = h0 /\ k.used = u0 /\ Clamp(hours, 0, h0) = hours
      /\ Higher(0, shown - u0) = shown - u0
  BY ControllerAssumption DEF AnchorByHours, Clamp, Lower, Higher
<1> HIDE DEF k
<1>2. HeadroomByHours(k, shown, hours, lookahead, c)
        = Higher(0, TargetByHours(k, Higher(0, hours - Lower(lookahead, hours)))
                      - (shown - u0 + c + Granule) * ScaleByHours(h0))
  BY <1>1 DEF HeadroomByHours
<1> QED
  BY <1>2 DEF k

(* However late in its epoch the v2.2 anchor was taken, the reserve is the *)
(* last that is spent, and none of it stays behind.  Before the release    *)
(* both headrooms are parts of one line; at the reset they are all that    *)
(* remained.                                                               *)
THEOREM ReserveTheorem == Spec => []ReserveIsForTheEnd
<1> DEFINE left == ResetAt - now
           rem == Full - anchor.used
           taken == Shown(used) - anchor.used + committed + Granule
<1>1. ASSUME TypeOK, AnchorIsShown, NEW h0 \in left..(ResetAt - Begin)
      PROVE  /\ left >= MaxAdvanceHours + ReserveReleaseHours =>
                  \A pass \in LaunchableByHours(h0, now) :
                      (taken + pass[1]) * h0
                         <= Even(anchor.used) * (h0 - left + MaxAdvanceHours)
             /\ left <= BaseLookaheadHours =>
                  LaunchableByHours(h0, now)
                    = {pass \in Estimates \X PaceLevels : taken + pass[1] <= rem}
  <2> DEFINE R == ReserveReleaseHours
             s == ScaleByHours(h0)
             k == AnchorByHours(anchor.used, h0)
             Budget(ahead) == HeadroomByHours(k, Shown(used), left, ahead, committed)
             base == Budget(BaseLookaheadHours)
             advance == Budget(MaxAdvanceHours)
             Starts(e, pace) ==
                 BalancedAdmission(base, advance, e * s, pace, TRUE) \in Launching
             Rest(ahead) == TargetByHours(k, Higher(0, left - Lower(ahead, left)))
  <2>1. /\ left \in Nat /\ h0 \in Nat /\ left <= h0
        /\ anchor.used \in 0..Full /\ rem \in Nat
        /\ Shown(used) \in Nat /\ committed \in Nat /\ anchor.used <= Shown(used)
        /\ taken \in Nat
    <3>1. ResetAt \in Nat /\ Begin \in Nat /\ now \in Begin..ResetAt
      BY ControllerAssumption, <1>1 DEF ResetAt, Begin, TypeOK
    <3>2. /\ anchor.used \in 0..Full /\ used \in Nat /\ anchor.used <= used
          /\ committed \in Nat /\ Granule \in Nat /\ Full \in Nat
      BY <1>1, ControllerAssumption DEF TypeOK
    <3>3. Shown(used) \in Nat
      BY <3>2, ShownBounds
    <3>4. anchor.used <= Shown(used)
      BY <1>1, <3>2, ShownAbove DEF AnchorIsShown
    <3> QED
      BY <3>1, <3>2, <3>3, <3>4
  <2>2. s \in Nat \ {0} /\ R \in Nat \ {0}
    BY <2>1, HoursScale, HoursAssumption
  <2>3. ASSUME NEW ahead \in Nat
        PROVE  Budget(ahead) = Higher(0, Rest(ahead) - taken * s)
    BY <2>1, HoursRoom
  <2>4. /\ BaseLookaheadHours \in Nat /\ MaxAdvanceHours \in Nat
        /\ BaseLookaheadHours <= MaxAdvanceHours
    BY HoursAssumption
  <2>5. ASSUME NEW pass
        PROVE  pass \in LaunchableByHours(h0, now) <=>
                 /\ pass \in (Estimates \union {Unknown}) \X PaceLevels
                 /\ Starts(pass[1], pass[2])
    BY DEF LaunchableByHours
  <2>6. ASSUME left >= MaxAdvanceHours + R, NEW pass \in LaunchableByHours(h0, now)
        PROVE  (taken + pass[1]) * h0
                  <= Even(anchor.used) * (h0 - left + MaxAdvanceHours)
    <3> DEFINE e == pass[1]
               X(ahead) == Even(anchor.used) * (h0 - (left - ahead))
               spent == taken * h0
               Fits(ahead) == Higher(0, X(ahead) - spent)
    <3>1. /\ h0 \in Nat \ {0} /\ s = h0 * R
          /\ Even(anchor.used) \in Nat
      BY <2>1, <2>2, <2>4, <2>6, CapBounds DEF ScaleByHours
    <3>2. ASSUME NEW ahead \in Nat, ahead <= MaxAdvanceHours
          PROVE  X(ahead) \in Nat /\ Rest(ahead) = X(ahead) * R
      <4> DEFINE h == left - ahead
      <4>1. h \in Nat /\ R <= h /\ h <= h0 /\ Higher(0, left - Lower(ahead, left)) = h
        BY <2>1, <2>2, <2>4, <2>6, <3>2 DEF Higher, Lower
      <4> QED
        BY <2>1, <4>1, TargetBeforeRelease
    <3>3. spent \in Nat /\ taken * s = spent * R
      <4> HIDE DEF taken, s, R
      <4>1. taken * h0 \in Nat
        BY <2>1, ProductNat
      <4>2. taken * (h0 * R) = (taken * h0) * R
        BY <2>1, <2>2, SMT
      <4> QED
        BY <3>1, <4>1, <4>2
    <3>4. ASSUME NEW ahead \in Nat, ahead <= MaxAdvanceHours
          PROVE  Budget(ahead) = Fits(ahead) * R /\ Fits(ahead) \in Nat
      <4>1. X(ahead) \in Nat /\ Rest(ahead) = X(ahead) * R
        BY <3>2, <3>4
      <4>2. Budget(ahead) = Higher(0, X(ahead) * R - spent * R)
        BY <2>3, <3>3, <3>4, <4>1
      <4> HIDE DEF X, spent, R
      <4>3. /\ Higher(0, (X(ahead) - spent) * R) = Higher(0, X(ahead) - spent) * R
            /\ (X(ahead) - spent) * R = X(ahead) * R - spent * R
        <5>1. X(ahead) \in Int /\ spent \in Int /\ X(ahead) - spent \in Int
          BY <3>3, <4>1
        <5> QED
          BY <2>2, <5>1, Scaled
      <4>4. Fits(ahead) \in Nat
        BY <3>3, <4>1 DEF Higher
      <4> HIDE DEF Budget
      <4> QED
        BY <4>2, <4>3, <4>4
    <3>5. X(BaseLookaheadHours) <= X(MaxAdvanceHours)
      <4>1. /\ h0 - (left - BaseLookaheadHours) \in Int
            /\ h0 - (left - MaxAdvanceHours) \in Int
            /\ h0 - (left - BaseLookaheadHours) <= h0 - (left - MaxAdvanceHours)
        BY <2>1, <2>4
      <4> QED
        BY <3>1, <4>1, ProductMonotone
    <3>6. base \in Nat /\ advance \in Nat /\ base <= advance
      <4>1. /\ base = Fits(BaseLookaheadHours) * R /\ Fits(BaseLookaheadHours) \in Nat
            /\ advance = Fits(MaxAdvanceHours) * R /\ Fits(MaxAdvanceHours) \in Nat
        BY <2>4, <3>4
      <4>2. Fits(BaseLookaheadHours) <= Fits(MaxAdvanceHours)
        <5>1. X(BaseLookaheadHours) \in Nat /\ X(MaxAdvanceHours) \in Nat
          BY <2>4, <3>2
        <5> HIDE DEF X, spent
        <5> QED
          BY <3>3, <3>5, <5>1 DEF Higher
      <4> HIDE DEF Fits, base, advance, R
      <4> QED
        BY <2>2, <4>1, <4>2, Scaled, ProductNat
    <3>7. /\ e \in Estimates \union {Unknown}
          /\ Starts(e, pass[2])
      <4> HIDE DEF Starts
      <4> QED
        BY <2>5, <2>6
    <3>8. e \in Int /\ (e \in Nat \ {0} \/ e = -1)
      <4> HIDE DEF Starts, e
      <4> QED
        BY <3>7, ControllerAssumption DEF Unknown
    <3>9. e * s \in 0..advance
      <4> HIDE DEF base, advance, s, e
      <4>1. e * s \in Int
        BY <2>2, <3>8
      <4> QED
        BY <3>6, <3>7, <4>1, BalancedStarts
    <3>10. e \in Nat \ {0}
      <4> HIDE DEF advance, s, e
      <4>1. e # -1
        <5>1. CASE e = -1
          <6>1. e * s = -s
            BY <2>2, <5>1
          <6> QED
            BY <2>2, <3>6, <3>9, <6>1
        <5> QED
          BY <5>1
      <4> QED
        BY <3>8, <4>1
    <3>11. e * h0 \in Nat \ {0} /\ e * s = (e * h0) * R
      <4> HIDE DEF e, s, R
      <4>1. e * h0 \in Nat \ {0} /\ e * (h0 * R) = (e * h0) * R
        BY <2>2, <3>1, <3>10, SMT
      <4> QED
        BY <3>1, <4>1
    <3>12. e * h0 <= Fits(MaxAdvanceHours)
      <4>1. advance = Fits(MaxAdvanceHours) * R /\ Fits(MaxAdvanceHours) \in Nat
        BY <2>4, <3>4
      <4>2. (e * h0) * R <= Fits(MaxAdvanceHours) * R
        <5> HIDE DEF advance, Fits, e, s, R
        <5> QED
          BY <3>6, <3>9, <3>11, <4>1
      <4>3. e * h0 \in Int
        BY <3>11
      <4> DEFINE burn == e * h0
      <4> HIDE DEF Fits, R, burn
      <4> QED
        BY <2>2, <4>1, <4>2, <4>3, Scaled DEF burn
    <3>13. e * h0 <= X(MaxAdvanceHours) - spent
      <4>1. X(MaxAdvanceHours) \in Nat
        BY <2>4, <3>2
      <4> DEFINE burn == e * h0
      <4>2. burn \in Nat \ {0} /\ burn <= Fits(MaxAdvanceHours)
        BY <3>11, <3>12
      <4> HIDE DEF X, spent, burn
      <4>3. burn <= X(MaxAdvanceHours) - spent
        BY <3>3, <4>1, <4>2 DEF Higher
      <4> QED
        BY <4>3 DEF burn
    <3>14. (taken + e) * h0 = spent + e * h0
      <4> HIDE DEF taken, e
      <4> QED
        BY <2>1, <3>10
    <3>15. X(MaxAdvanceHours) = Even(anchor.used) * (h0 - left + MaxAdvanceHours)
      <4>1. h0 - (left - MaxAdvanceHours) = h0 - left + MaxAdvanceHours
        BY <2>1, <2>4
      <4> QED
        BY <4>1
    <3>16. X(MaxAdvanceHours) \in Nat /\ e * h0 \in Nat
      BY <2>4, <3>2, <3>11
    <3> HIDE DEF taken, e, spent, X
    <3>17. (taken + e) * h0 <= X(MaxAdvanceHours)
      <4> DEFINE burn == e * h0
      <4>1. burn \in Nat /\ burn <= X(MaxAdvanceHours) - spent /\ (taken + e) * h0 = spent + burn
        BY <3>13, <3>14, <3>16
      <4> HIDE DEF burn
      <4> QED
        BY <3>3, <3>16, <4>1
    <3> QED
      BY <3>15, <3>17 DEF e
  <2>7. ASSUME left <= BaseLookaheadHours, NEW pass
        PROVE  pass \in LaunchableByHours(h0, now) <=>
                 pass \in Estimates \X PaceLevels /\ taken + pass[1] <= rem
    <3> DEFINE open == Higher(0, rem - taken)
    <3>1. /\ Rest(BaseLookaheadHours) = rem * s
          /\ Rest(MaxAdvanceHours) = rem * s
      <4>1. /\ Higher(0, left - Lower(BaseLookaheadHours, left)) = 0
            /\ Higher(0, left - Lower(MaxAdvanceHours, left)) = 0
        BY <2>1, <2>4, <2>7 DEF Higher, Lower
      <4> QED
        BY <2>1, <4>1, TargetAtReset
    <3>2. open \in Nat /\ base = open * s /\ advance = open * s
      <4>1. base = Higher(0, rem * s - taken * s) /\ advance = Higher(0, rem * s - taken * s)
        BY <2>3, <2>4, <3>1
      <4>2. rem \in Int /\ taken \in Int /\ rem - taken \in Int /\ open \in Nat
        BY <2>1 DEF Higher
      <4> HIDE DEF base, advance, rem, taken, s
      <4>3. Higher(0, rem * s - taken * s) = open * s
        <5>1. Higher(0, (rem - taken) * s) = open * s /\ (rem - taken) * s = rem * s - taken * s
          BY <2>2, <4>2, Scaled
        <5> QED
          BY <5>1
      <4> QED
        BY <4>1, <4>2, <4>3
    <3>3. open * s \in Nat
      <4> HIDE DEF open, s
      <4> QED
        BY <2>2, <3>2, ProductNat
    <3>4. ASSUME NEW e \in Int
          PROVE  Starts(e, pass[2]) <=> 0 <= e /\ e <= open
      <4> HIDE DEF open, s, base, advance
      <4>1. e * s \in Int
        BY <2>2
      <4>2. base \in Nat /\ advance \in Nat /\ base <= advance
        BY <3>2, <3>3
      <4>3. Starts(e, pass[2]) <=> e * s \in 0..(open * s)
        BY <3>2, <4>1, <4>2, BalancedStarts
      <4>4. (e * s <= open * s <=> e <= open) /\ (0 * s <= e * s <=> 0 <= e) /\ 0 * s = 0
        BY <2>2, <3>2, Scaled
      <4> HIDE DEF Starts
      <4> QED
        BY <3>3, <4>1, <4>3, <4>4
    <3>5. ASSUME NEW e \in Nat \ {0}
          PROVE  e <= open <=> taken + e <= rem
      BY <2>1 DEF Higher
    <3>6. CASE pass \in Estimates \X PaceLevels
      <4>1. /\ pass[1] \in Nat \ {0}
            /\ pass \in (Estimates \union {Unknown}) \X PaceLevels
        BY <3>6, ControllerAssumption
      <4> HIDE DEF Starts, open, taken, rem
      <4>2. pass \in LaunchableByHours(h0, now) <=> pass[1] <= open
        BY <2>5, <3>4, <4>1
      <4> QED
        BY <3>5, <3>6, <4>1, <4>2
    <3>7. CASE pass \notin Estimates \X PaceLevels
      <4> SUFFICES ASSUME pass \in LaunchableByHours(h0, now) PROVE FALSE
        BY <3>7
      <4>1. /\ pass \in (Estimates \union {Unknown}) \X PaceLevels
            /\ Starts(pass[1], pass[2])
        <5> HIDE DEF Starts
        <5> QED
          BY <2>5
      <4>2. pass[1] = -1
        <5> HIDE DEF Starts
        <5> QED
          BY <3>7, <4>1 DEF Unknown
      <4> HIDE DEF Starts, open
      <4>3. pass[1] \in Int /\ ~(0 <= pass[1])
        BY <4>2
      <4> QED
        BY <3>4, <4>1, <4>3
    <3> QED
      BY <3>6, <3>7
  <2> QED
    BY <2>6, <2>7
<1>2. TypeOK /\ AnchorIsShown => ReserveIsForTheEnd
  BY <1>1 DEF ReserveIsForTheEnd, Even, Cap
<1> QED
  BY <1>2, TypeCorrect, AnchorShown, PTL
=============================================================================
