----------------------------- MODULE FindOptimal -----------------------------
(***************************************************************************)
(* The search for a grid size (the find_optimal branch of main_inner,      *)
(* main.rs): double the size as long as the hash rate grows, then go up    *)
(* and down in steps that are halved.  A measurement runs a benchmark      *)
(* thread on each device in use and adds up the rates of those that did    *)
(* not fail.                                                               *)
(***************************************************************************)
EXTENDS Integers

CONSTANTS
  FirstGrid,             \* 32
  WordSize,              \* 2^32: current_grid_size is a u32
  per_device_grid_size,  \* of config.per_device_grid_sizes, 0 when the list is empty
  Landscapes             \* explored: the totals that may be measured with each size

Sizes == 0 .. WordSize - 1

ASSUME FindOptimalAssumption ==
  /\ WordSize \in Nat
  /\ FirstGrid \in Sizes \ {0}
  /\ per_device_grid_size \in Sizes
  /\ Landscapes \subseteq [Sizes -> SUBSET Nat]

VARIABLES
  rates,                       \* one of Landscapes
  pc,
  best_hashrate, best_grid_size,
  current_grid_size, is_doubling_stage, last_grid_size_increase, prev_hashrate,
  \* history
  measured,                    \* every <<size, total>>
  top                          \* the size the doubling stage ended with, 0 before

vars == <<rates, pc, best_hashrate, best_grid_size, current_grid_size,
          is_doubling_stage, last_grid_size_increase, prev_hashrate, measured, top>>

Init ==
  /\ rates \in Landscapes
  /\ pc = "measure"
  /\ best_hashrate = 0
  /\ best_grid_size = 1
  /\ current_grid_size = FirstGrid
  /\ is_doubling_stage = TRUE
  /\ last_grid_size_increase = 0
  /\ prev_hashrate = 0
  /\ measured = {}
  /\ top = 0

-----------------------------------------------------------------------------
SaturatingSub(a, b) == IF a >= b THEN a - b ELSE 0

\* run_thread: the size the kernel is started with.
GridSize == IF per_device_grid_size = 0 THEN current_grid_size ELSE per_device_grid_size

\* Mutant: the best rate is compared with the previous one.
UpdateBest_Prev(total) ==
  IF total > prev_hashrate
  THEN best_hashrate' = total /\ best_grid_size' = current_grid_size
  ELSE UNCHANGED <<best_hashrate, best_grid_size>>

UpdateBest(total) ==
  IF total > best_hashrate
  THEN best_hashrate' = total /\ best_grid_size' = current_grid_size
  ELSE UNCHANGED <<best_hashrate, best_grid_size>>

\* What a measurement comes to.
Measured(total) ==
  /\ pc = "measure"
  /\ total \in rates[GridSize]
  /\ UpdateBest(total)
  /\ prev_hashrate' = total
  /\ measured' = measured \cup {<<GridSize, total>>}
  /\ UNCHANGED rates

\* Mutant: the size does not wrap.
Double_NoWrap(total) ==
  /\ Measured(total)
  /\ is_doubling_stage
  /\ total > prev_hashrate
  /\ last_grid_size_increase' = current_grid_size
  /\ current_grid_size' = current_grid_size * 2
  /\ UNCHANGED <<pc, is_doubling_stage, top>>

\* The product of two u32 wraps.
Double(total) ==
  /\ Measured(total)
  /\ is_doubling_stage
  /\ total > prev_hashrate
  /\ last_grid_size_increase' = current_grid_size
  /\ current_grid_size' = (current_grid_size * 2) % WordSize
  /\ UNCHANGED <<pc, is_doubling_stage, top>>

\* The first step back is a quarter of the size.
EndDoubling(total) ==
  /\ Measured(total)
  /\ is_doubling_stage
  /\ total <= prev_hashrate
  /\ is_doubling_stage' = FALSE
  /\ last_grid_size_increase' = last_grid_size_increase \div 2
  /\ current_grid_size' = SaturatingSub(current_grid_size, last_grid_size_increase')
  /\ top' = current_grid_size
  /\ UNCHANGED pc

\* Mutants: the step is taken and halved then; it is not halved.
Bisect_FullStep(total) ==
  /\ Measured(total)
  /\ ~is_doubling_stage
  /\ last_grid_size_increase >= 2
  /\ last_grid_size_increase' = last_grid_size_increase \div 2
  /\ current_grid_size' = IF total > prev_hashrate
                          THEN current_grid_size + last_grid_size_increase
                          ELSE SaturatingSub(current_grid_size, last_grid_size_increase)
  /\ UNCHANGED <<pc, is_doubling_stage, top>>

Bisect_SameStep(total) ==
  /\ Measured(total)
  /\ ~is_doubling_stage
  /\ last_grid_size_increase >= 2
  /\ current_grid_size' = IF total > prev_hashrate
                          THEN (current_grid_size + last_grid_size_increase) % WordSize
                          ELSE SaturatingSub(current_grid_size, last_grid_size_increase)
  /\ UNCHANGED <<pc, is_doubling_stage, last_grid_size_increase, top>>

Bisect(total) ==
  /\ Measured(total)
  /\ ~is_doubling_stage
  /\ last_grid_size_increase >= 2
  /\ last_grid_size_increase' = last_grid_size_increase \div 2
  /\ current_grid_size' = IF total > prev_hashrate
                          THEN current_grid_size + last_grid_size_increase'
                          ELSE SaturatingSub(current_grid_size, last_grid_size_increase')
  /\ UNCHANGED <<pc, is_doubling_stage, top>>

Finish(total) ==
  /\ Measured(total)
  /\ ~is_doubling_stage
  /\ last_grid_size_increase < 2
  /\ pc' = "done"
  /\ UNCHANGED <<current_grid_size, is_doubling_stage, last_grid_size_increase, top>>

\* A thread panics: its rate is a division by the whole seconds of its search.
MeasuringPanics ==
  /\ pc = "measure"
  /\ pc' = "panicked"
  /\ UNCHANGED <<rates, best_hashrate, best_grid_size, current_grid_size,
                 is_doubling_stage, last_grid_size_increase, prev_hashrate, measured, top>>

Measure ==
  \E total \in rates[GridSize] :
    Double(total) \/ EndDoubling(total) \/ Bisect(total) \/ Finish(total)

Over == pc \in {"done", "panicked"}
Done == Over /\ UNCHANGED vars

Next == Measure \/ MeasuringPanics \/ Done

Spec == Init /\ [][Next]_vars
\* A benchmark thread returns after ten seconds.
FairSpec == Spec /\ WF_vars(Measure)

-----------------------------------------------------------------------------
\* The state has its type.
TypeOK ==
  /\ rates \in Landscapes
  /\ pc \in {"measure", "done", "panicked"}
  /\ best_hashrate \in Nat /\ prev_hashrate \in Nat
  /\ {best_grid_size, current_grid_size, top} \subseteq Nat
  /\ current_grid_size < WordSize
  /\ is_doubling_stage \in BOOLEAN
  /\ last_grid_size_increase \in Nat
  /\ measured \subseteq Sizes \X Nat

\* What is printed last is the best of all measurements, with the size it was
\* measured with (main.rs 462-472), in whichever order good and bad ones came.
\* With sizes of its own for a device this is not so: the size printed is one that
\* no kernel was started with (main.rs 424, 754-758).
BestIsMeasured ==
  per_device_grid_size = 0 =>
    /\ \A m \in measured : m[2] <= best_hashrate
    /\ best_hashrate # 0 => <<best_grid_size, best_hashrate>> \in measured

\* Every size tried after the doubling lies between the last two that were doubled:
\* none is 0 and no subtraction saturates (main.rs 478-499).  Where the doubling
\* wrapped around to 0 there is no such bracket.
Bracket ==
  ~is_doubling_stage /\ top # 0 =>
    /\ 0 < current_grid_size /\ current_grid_size <= top
    /\ top \div 2 <= current_grid_size

\* The search ends, whatever is measured (main.rs 422, 476-500).
Terminates == <>Over

\* The rate grows up to one size and falls from there on.
Peak(size) ==
  \A a, b \in Sizes : \A x \in rates[a], y \in rates[b] :
    /\ a < b /\ b <= size => x < y
    /\ size <= a /\ a < b => x > y

\* The bisecting stage finds a peak that lies between the last two sizes of the
\* doubling stage, to within the step of one it ends with (main.rs 486).
FindsOptimal ==
  pc = "done" =>
    \A size \in top \div 2 .. top :
      Peak(size) => best_grid_size \in size - 1 .. size + 1
=============================================================================
