----------------------------- MODULE TimesProofs -----------------------------
(***************************************************************************)
(* The bounds on the times that are reported, for every clock, every       *)
(* number of searches and every length of a second.                        *)
(*                                                                         *)
(* ElapsedClose and TotalNeverShort are inductive with TypeOK.  All the    *)
(* arithmetic is in three lemmas: what the difference of two readings is   *)
(* off by, what dividing by a second leaves, and what a sum gains.         *)
(***************************************************************************)
EXTENDS Times, TLAPS

(* compute_timespec_diff() is not negative, and less than a second wrong.  *)
LEMMA DiffClose ==
  ASSUME NEW a \in Reading, NEW b \in Reading, Nanos(a) <= Nanos(b)
  PROVE  /\ compute_timespec_diff(a, b) \in Nat
         /\ Nanos(b) - Nanos(a) - Second < compute_timespec_diff(a, b)
         /\ compute_timespec_diff(a, b) < Nanos(b) - Nanos(a) + Second
<1> DEFINE S == Second
           d == b.sec - a.sec
           m == d * S
<1>1. /\ S \in Nat \ {0} /\ d \in Int /\ m \in Int
      /\ a.nsec \in 0..S - 1 /\ b.nsec \in 0..S - 1
  BY TimesAssumption DEF Reading
<1>2. /\ Nanos(b) - Nanos(a) = m + b.nsec - a.nsec
      /\ Nanos(a) \in Int /\ Nanos(b) \in Int
  BY <1>1, TimesAssumption DEF Reading, Nanos
<1>3. m + b.nsec - a.nsec >= 0
  BY <1>2, <1>1, TimesAssumption DEF Reading, Nanos
<1>4. a.nsec > b.nsec => d >= 1
  <2> SUFFICES ASSUME a.nsec > b.nsec, d <= 0 PROVE FALSE
    BY <1>1
  <2>1. m <= 0
    BY <1>1
  <2> QED BY <2>1, <1>1, <1>3
<1>5. a.nsec > b.nsec => m >= S
  BY <1>4, <1>1
<1> HIDE DEF S, d, m
<1>6. compute_timespec_diff(a, b) =
        m + IF a.nsec > b.nsec THEN a.nsec - b.nsec - S ELSE b.nsec - a.nsec
  BY DEF compute_timespec_diff, S, d, m
<1>7. /\ m + b.nsec - a.nsec - S < compute_timespec_diff(a, b)
      /\ compute_timespec_diff(a, b) < m + b.nsec - a.nsec + S
      /\ compute_timespec_diff(a, b) \in Nat
  BY <1>1, <1>3, <1>5, <1>6
<1> QED BY <1>1, <1>2, <1>7 DEF S

(* The quotient and the remainder by a second make up the nanoseconds.     *)
LEMMA Divided ==
  ASSUME NEW ns \in Nat
  PROVE  /\ TimeForSum(ns) \in Timespec
         /\ Nanos(TimeForSum(ns)) = ns
  BY TimesAssumption DEF TimeForSum, Timespec, Nanos

(* sum_timespec() gains a second at most, and loses nothing.               *)
LEMMA SumClose ==
  ASSUME NEW t \in Timespec, NEW u \in Timespec
  PROVE  /\ sum_timespec(t, u) \in Timespec
         /\ Nanos(t) + Nanos(u) <= Nanos(sum_timespec(t, u))
         /\ Nanos(sum_timespec(t, u)) <= Nanos(t) + Nanos(u) + Second
  BY TimesAssumption DEF sum_timespec, Timespec, Nanos

----------------------------------------------------------------------------
(* What the three steps have in common: the time of what was measured.     *)
LEMMA MeasureClose ==
  ASSUME Measure
  PROVE  /\ {clock', start', stop'} \subseteq Reading
         /\ nanoseconds' \in Nat
         /\ ElapsedClose'
         /\ Nanos(stop') - Nanos(start') \in Nat
<1>1. PICK a, b \in Reading :
        /\ Nanos(clock) <= Nanos(a) /\ Nanos(a) <= Nanos(b)
        /\ clock' = b /\ start' = a /\ stop' = b
        /\ nanoseconds' = compute_timespec_diff(a, b)
  BY DEF Measure
<1>2. /\ nanoseconds' \in Nat
      /\ Nanos(stop') - Nanos(start') - Second < nanoseconds'
      /\ nanoseconds' < Nanos(stop') - Nanos(start') + Second
  BY <1>1, DiffClose
<1>3. Nanos(stop') - Nanos(start') \in Nat
  <2>1. Nanos(a) \in Nat /\ Nanos(b) \in Nat
    BY TimesAssumption DEF Reading, Nanos
  <2>2. Nanos(b) - Nanos(a) \in Nat
    BY <1>1, <2>1
  <2> QED BY <1>1, <2>2
<1> QED BY <1>1, <1>2, <1>3 DEF ElapsedClose, Nanos

(* The mean of a time in Nat, and what an unsigned int keeps of a sum.     *)
LEMMA MeanType ==
  ASSUME NEW t \in Nat, NEW u \in Nat
  PROVE  Mean(t) \in Nat /\ UInt(u + Mean(t)) \in 0..UIntMax
<1>1. Mean(t) \in Nat
  BY TimesAssumption DEF Mean
<1> QED BY <1>1, TimesAssumption DEF UInt

Inv == TypeOK /\ ElapsedClose /\ TotalNeverShort

LEMMA InvInit == Init => Inv
<1> SUFFICES ASSUME Init PROVE Inv
  OBVIOUS
<1>1. /\ Nanos(Zero) = 0 /\ Zero \in Timespec
  BY TimesAssumption DEF Nanos, Zero, Timespec
<1>2. TypeOK
  BY <1>1, TimesAssumption DEF Init, TypeOK
<1>3. Nanos(clock) \in Int
  BY TimesAssumption DEF Init, Reading, Nanos
<1>4. ElapsedClose
  BY <1>3, TimesAssumption DEF Init, ElapsedClose
<1>5. TotalNeverShort
  BY <1>1, TimesAssumption DEF Init, TotalNeverShort
<1> QED BY <1>2, <1>4, <1>5 DEF Inv

LEMMA InvNext == Inv /\ [Next]_vars => Inv'
<1> SUFFICES ASSUME Inv, [Next]_vars PROVE Inv'
  OBVIOUS
<1> USE DEF Inv
<1>1. CASE MicrobenchmarkMalloc
  <2>1. {clock', start', stop'} \subseteq Reading /\ nanoseconds' \in Nat /\ ElapsedClose'
    BY <1>1, MeasureClose DEF MicrobenchmarkMalloc
  <2>2. average_malloc_time' \in Nat /\ total_malloc_time' \in 0..UIntMax
    BY <1>1, <2>1, MeanType, TimesAssumption DEF MicrobenchmarkMalloc, TypeOK
  <2>3. TypeOK'
    BY <1>1, <2>1, <2>2 DEF MicrobenchmarkMalloc, TypeOK
  <2>4. TotalNeverShort'
    BY <1>1 DEF MicrobenchmarkMalloc, TotalNeverShort
  <2> QED BY <2>1, <2>3, <2>4
<1>2. CASE MicrobenchmarkFree
  <2>1. {clock', start', stop'} \subseteq Reading /\ nanoseconds' \in Nat /\ ElapsedClose'
    BY <1>2, MeasureClose DEF MicrobenchmarkFree
  <2>2. average_free_time' \in Nat /\ total_free_time' \in 0..UIntMax
    BY <1>2, <2>1, MeanType, TimesAssumption DEF MicrobenchmarkFree, TypeOK
  <2>3. TypeOK'
    BY <1>2, <2>1, <2>2 DEF MicrobenchmarkFree, TypeOK
  <2>4. TotalNeverShort'
    BY <1>2 DEF MicrobenchmarkFree, TotalNeverShort
  <2> QED BY <2>1, <2>3, <2>4
<1>3. CASE Search
  <2>1. {clock', start', stop'} \subseteq Reading /\ nanoseconds' \in Nat /\ ElapsedClose'
    BY <1>3, MeasureClose DEF Search
  <2> DEFINE u == TimeForSum(nanoseconds')
  <2>2. u \in Timespec /\ Nanos(u) = nanoseconds'
    BY <2>1, Divided
  <2>3. /\ total_time' \in Timespec
        /\ Nanos(total_time) + nanoseconds' <= Nanos(total_time')
        /\ Nanos(total_time') <= Nanos(total_time) + nanoseconds' + Second
    BY <1>3, <2>2, SumClose DEF Search, TypeOK
  <2>4. searches' = searches + 1 /\ searches' \in 0..Searches
    BY <1>3, TimesAssumption DEF Search, TypeOK
  <2>5. measured' = measured + nanoseconds' /\ measured' \in Nat
    BY <1>3, <2>1 DEF Search, TypeOK
  <2>6. TypeOK'
    <3>1. elapsed' \in Nat
      <4>1. elapsed' = elapsed + Nanos(stop') - Nanos(start') /\ elapsed \in Nat
        BY <1>3 DEF Search, TypeOK
      <4>2. Nanos(stop') - Nanos(start') \in Nat /\ Nanos(stop') \in Int /\ Nanos(start') \in Int
        BY <1>3, <2>1, MeasureClose, TimesAssumption DEF Search, Reading, Nanos
      <4> DEFINE x == Nanos(stop')
                 y == Nanos(start')
      <4> HIDE DEF x, y
      <4>3. elapsed' = elapsed + x - y /\ x - y \in Nat /\ x \in Int /\ y \in Int
        BY <4>1, <4>2 DEF x, y
      <4> QED BY <4>1, <4>3
    <3> HIDE DEF u
    <3> QED BY <1>3, <2>1, <2>3, <2>4, <2>5, <3>1 DEF Search, TypeOK, averages
  <2>7. searches' * Second = searches * Second + Second /\ searches * Second \in Int
    BY <2>4, TimesAssumption DEF TypeOK
  <2>8. Nanos(total_time) \in Int /\ Nanos(total_time') \in Int
    BY <2>3, TimesAssumption DEF TypeOK, Timespec, Nanos
  <2>9. /\ measured' <= Nanos(total_time')
        /\ Nanos(total_time') <= measured' + searches' * Second
    <3>1. Nanos(total_time) <= measured + searches * Second /\ measured <= Nanos(total_time)
      BY DEF TotalNeverShort
    <3> HIDE DEF u
    <3> QED BY <3>1, <2>1, <2>3, <2>5, <2>7, <2>8, TimesAssumption DEF TypeOK
  <2> QED BY <2>1, <2>6, <2>9 DEF TotalNeverShort, Nanos
<1>4. CASE UNCHANGED vars
  BY <1>4 DEF vars, averages, TypeOK, ElapsedClose, TotalNeverShort
<1> QED BY <1>1, <1>2, <1>3, <1>4 DEF Next

(* The times have their types, and those computed are not negative.        *)
THEOREM TypeCorrect == Spec => []TypeOK
<1>1. Spec => []Inv
  BY InvInit, InvNext, PTL DEF Spec
<1>2. Inv => TypeOK
  BY DEF Inv
<1> QED BY <1>1, <1>2, PTL

(* Every difference of two times that is reported is less than a second    *)
(* wrong, however long a second is (compute_timespec_diff).                *)
THEOREM DiffBounded == Spec => []ElapsedClose
<1>1. Spec => []Inv
  BY InvInit, InvNext, PTL DEF Spec
<1>2. Inv => ElapsedClose
  BY DEF Inv
<1> QED BY <1>1, <1>2, PTL

(* After any number of searches their sum is not less than what was        *)
(* measured, and more by at most a second for each (sum_timespec).         *)
THEOREM SumBounded == Spec => []TotalNeverShort
<1>1. Spec => []Inv
  BY InvInit, InvNext, PTL DEF Spec
<1>2. Inv => TotalNeverShort
  BY DEF Inv
<1> QED BY <1>1, <1>2, PTL
=============================================================================
