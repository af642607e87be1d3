-------------------------------- MODULE Times --------------------------------
(***************************************************************************)
(* The times queue_performance.c reports: the microbenchmark of malloc()   *)
(* and free() at its start, the time of every search, and their sum.       *)
(*                                                                         *)
(* Only the clock and the arithmetic on it are modelled; what is measured  *)
(* takes any time.  GRAB_CLOCK reads a clock that never goes back.         *)
(***************************************************************************)
EXTENDS Integers

CONSTANTS
  Second,                   \* nanoseconds in a second
  MaxSec,                   \* the bound on the clock
  Searches,                 \* the searches main() makes (100)
  MALLOC_MICRO_ITERATIONS,
  UIntMax

ASSUME TimesAssumption ==
  /\ Second \in Nat \ {0} /\ MaxSec \in Nat /\ Searches \in Nat
  /\ MALLOC_MICRO_ITERATIONS \in Nat \ {0} /\ UIntMax \in Nat

VARIABLES
  phase,               \* what is measured next: "malloc", "free", "search"
  clock,               \* the last time read
  start, stop,         \* the times around what was measured last
  nanoseconds,         \* and what compute_timespec_diff() made of them
  average_malloc_time, average_free_time,
  total_malloc_time, total_free_time,
  total_time,
  searches,            \* the searches made
  measured,            \* the sum of their nanoseconds, and that of the times they
  elapsed              \* really took (both in no variable of the code)

averages == <<average_malloc_time, average_free_time, total_malloc_time, total_free_time>>
vars == <<phase, clock, start, stop, nanoseconds, averages, total_time, searches, measured,
          elapsed>>

Timespec == [sec : Nat, nsec : Nat]
Reading == [sec : 0..MaxSec, nsec : 0..Second - 1]
Nanos(t) == t.sec * Second + t.nsec

Zero == [sec |-> 0, nsec |-> 0]

Init ==
  /\ phase = "malloc"
  /\ clock \in Reading
  /\ start = clock /\ stop = clock
  /\ nanoseconds = 0
  /\ average_malloc_time = 0 /\ average_free_time = 0
  /\ total_malloc_time = 0 /\ total_free_time = 0
  /\ total_time = Zero
  /\ searches = 0 /\ measured = 0 /\ elapsed = 0

----------------------------------------------------------------------------
(* Variant: nothing is borrowed from the seconds. *)
DiffWithoutBorrow(a, b) ==
  (b.sec - a.sec) * Second
    + IF a.nsec > b.nsec THEN a.nsec - b.nsec ELSE b.nsec - a.nsec

(* Variant: a second is borrowed for a difference that has its sign.       *)
DiffBorrowingTwice(a, b) ==
  (b.sec - a.sec) * Second
    + IF a.nsec > b.nsec THEN b.nsec - a.nsec - Second ELSE b.nsec - a.nsec

(* The nanoseconds are taken from each other the same way round that they  *)
(* are not larger. *)
compute_timespec_diff(a, b) ==
  (b.sec - a.sec) * Second
    + IF a.nsec > b.nsec THEN a.nsec - b.nsec - Second ELSE b.nsec - a.nsec

(* Variant: the carry is taken off the nanoseconds and put nowhere. *)
SumWithoutCarry(t, u) ==
  LET nsec == t.nsec + u.nsec IN
  [sec  |-> t.sec + u.sec,
   nsec |-> IF nsec > Second THEN nsec - Second ELSE nsec]

(* The nanoseconds stay as they are when a second is carried. *)
sum_timespec(t, u) ==
  LET nsec == t.nsec + u.nsec IN
  [sec  |-> t.sec + (IF nsec > Second THEN 1 ELSE 0) + u.sec,
   nsec |-> nsec]

(* Two readings around what is measured. *)
Measure ==
  \E a, b \in Reading :
    /\ Nanos(clock) <= Nanos(a) /\ Nanos(a) <= Nanos(b)
    /\ clock' = b /\ start' = a /\ stop' = b
    /\ nanoseconds' = compute_timespec_diff(a, b)

Mean(t) == t \div MALLOC_MICRO_ITERATIONS

UInt(t) == t % (UIntMax + 1)

MicrobenchmarkMalloc ==
  /\ phase = "malloc" /\ phase' = "free"
  /\ Measure
  /\ average_malloc_time' = Mean(nanoseconds')
  /\ total_malloc_time' = UInt(total_malloc_time + average_malloc_time')
  /\ UNCHANGED <<average_free_time, total_free_time, total_time, searches, measured,
                 elapsed>>

MicrobenchmarkFree ==
  /\ phase = "free" /\ phase' = "search"
  /\ Measure
  /\ average_free_time' = Mean(nanoseconds')
  /\ total_free_time' = UInt(total_free_time + average_free_time')
  /\ UNCHANGED <<average_malloc_time, total_malloc_time, total_time, searches, measured,
                 elapsed>>

(* The end of breadth_first_search(). *)
TimeForSum(ns) == [sec |-> ns \div Second, nsec |-> ns % Second]

Search ==
  /\ phase = "search" /\ searches < Searches
  /\ Measure
  /\ total_time' = sum_timespec(total_time, TimeForSum(nanoseconds'))
  /\ searches' = searches + 1
  /\ measured' = measured + nanoseconds'
  /\ elapsed' = elapsed + Nanos(stop') - Nanos(start')
  /\ UNCHANGED <<phase, averages>>

Next == MicrobenchmarkMalloc \/ MicrobenchmarkFree \/ Search

Spec == Init /\ [][Next]_vars
----------------------------------------------------------------------------
(* Properties. *)

(* Times read and kept have the types of struct timespec; the seconds that *)
(* are computed are not negative, so that the unsigned constants of        *)
(* queue_performance.c:147-148 leave them as they are.                     *)
TypeOK ==
  /\ phase \in {"malloc", "free", "search"}
  /\ {clock, start, stop} \subseteq Reading
  /\ nanoseconds \in Nat
  /\ {average_malloc_time, average_free_time, measured, elapsed} \subseteq Nat
  /\ {total_malloc_time, total_free_time} \subseteq 0..UIntMax
  /\ total_time \in Timespec
  /\ searches \in 0..Searches

(* The difference of two times is less than a second wrong, in either      *)
(* direction (queue_performance.c:82-95).                                  *)
ElapsedClose ==
  LET taken == Nanos(stop) - Nanos(start) IN
  taken - Second < nanoseconds /\ nanoseconds < taken + Second

(* The sum is never less than what was measured, and too large by at most  *)
(* a second for each search, though its nanoseconds are not reduced when a *)
(* second is carried (queue_performance.c:72-80, 145-149).                 *)
TotalNeverShort ==
  measured <= Nanos(total_time) /\ Nanos(total_time) <= measured + searches * Second

(* queue_performance.c:386 prints total_time, to the millisecond, as       *)
(* "Performed searches in [s]".  Less is asked of it here: that it is off  *)
(* by less than a second for each search.  It is not, because a second     *)
(* that begins during a search makes its time wrong (line 89), and one     *)
(* that the sum carries is counted twice (line 75).                        *)
TotalClose ==
  searches > 0 =>
    /\ elapsed - searches * Second < Nanos(total_time)
    /\ Nanos(total_time) < elapsed + searches * Second
=============================================================================
