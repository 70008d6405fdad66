-------------------------- MODULE FindOptimalProofs --------------------------
(***************************************************************************)
(* Proofs about FindOptimal for every size of the first grid and of the    *)
(* word, and whatever is measured.                                         *)
(***************************************************************************)
EXTENDS FindOptimal, Recursions, TLAPS

\* What is left of the steps never takes the size out of the word.
StepInv ==
  /\ current_grid_size + last_grid_size_increase < WordSize \/ is_doubling_stage
  /\ last_grid_size_increase < WordSize

BestInv == TypeOK /\ StepInv /\ BestIsMeasured

LEMMA BestInit ==
  ASSUME Init
  PROVE  BestInv
BY FindOptimalAssumption DEF Init, BestInv, TypeOK, StepInv, BestIsMeasured, Sizes

LEMMA GridSizeType ==
  ASSUME TypeOK
  PROVE  GridSize \in Sizes
BY FindOptimalAssumption DEF TypeOK, GridSize, Sizes

LEMMA MeasuredType ==
  ASSUME TypeOK, NEW total \in rates[GridSize], Measured(total)
  PROVE  /\ total \in Nat /\ prev_hashrate' = total
         /\ best_hashrate' \in Nat /\ best_grid_size' \in Nat
         /\ measured' \subseteq Sizes \X Nat
         /\ rates' \in Landscapes
<1>1. rates \in [Sizes -> SUBSET Nat] /\ GridSize \in Sizes
  BY FindOptimalAssumption, GridSizeType DEF TypeOK
<1>2. total \in Nat
  BY <1>1
<1> QED BY <1>1, <1>2 DEF Measured, UpdateBest, TypeOK

LEMMA SubBounded ==
  ASSUME NEW a \in Nat, NEW b \in Nat, NEW w \in Nat, a < w, b < w
  PROVE  /\ SaturatingSub(a, b) \in Nat /\ SaturatingSub(a, b) < w
         /\ SaturatingSub(a, b) + b < w
BY DEF SaturatingSub

LEMMA StepType ==
  ASSUME TypeOK, StepInv, NEW total \in rates[GridSize],
         Double(total) \/ EndDoubling(total) \/ Bisect(total) \/ Finish(total)
  PROVE  TypeOK' /\ StepInv'
<1>1. Measured(total)
  BY DEF Double, EndDoubling, Bisect, Finish
<1>2. /\ total \in Nat /\ prev_hashrate' \in Nat
      /\ best_hashrate' \in Nat /\ best_grid_size' \in Nat
      /\ measured' \subseteq Sizes \X Nat /\ rates' \in Landscapes
  BY <1>1, MeasuredType
<1>3. WordSize \in Nat \ {0} /\ pc = "measure"
  BY <1>1, FindOptimalAssumption DEF Sizes, Measured
<1>4. CASE Double(total)
  <2>1. (current_grid_size * 2) % WordSize \in 0 .. WordSize - 1
    BY <1>3 DEF TypeOK
  <2> QED BY <1>2, <1>3, <1>4, <2>1 DEF Double, TypeOK, StepInv
<1>5. CASE EndDoubling(total)
  <2>1. /\ current_grid_size \in Nat /\ current_grid_size < WordSize
        /\ last_grid_size_increase \in Nat /\ last_grid_size_increase < WordSize
    BY DEF TypeOK, StepInv
  <2>2. /\ last_grid_size_increase' \in Nat /\ last_grid_size_increase' < WordSize
        /\ current_grid_size' = SaturatingSub(current_grid_size, last_grid_size_increase')
    BY <1>3, <1>5, <2>1 DEF EndDoubling
  <2>3. /\ current_grid_size' \in Nat /\ current_grid_size' < WordSize
        /\ current_grid_size' + last_grid_size_increase' < WordSize
    BY <1>3, <2>1, <2>2, SubBounded
  <2> QED BY <1>2, <1>3, <1>5, <2>1, <2>2, <2>3 DEF EndDoubling, TypeOK, StepInv
<1>6. CASE Bisect(total)
  <2>1. /\ current_grid_size \in Nat /\ last_grid_size_increase \in Nat
        /\ current_grid_size + last_grid_size_increase < WordSize
    BY <1>6 DEF Bisect, TypeOK, StepInv
  <2>2. /\ last_grid_size_increase' \in Nat
        /\ 2 * last_grid_size_increase' <= last_grid_size_increase
    BY <1>6, <2>1 DEF Bisect
  <2>3. /\ current_grid_size' \in Nat
        /\ current_grid_size' + last_grid_size_increase' < WordSize
    BY <1>3, <1>6, <2>1, <2>2 DEF Bisect, SaturatingSub
  <2>4. \A a, b, w \in Nat : a + b < w => a < w /\ b < w
    OBVIOUS
  <2>5. current_grid_size' < WordSize /\ last_grid_size_increase' < WordSize
    BY <1>3, <2>2, <2>3, <2>4
  <2> QED BY <1>2, <1>3, <1>6, <2>2, <2>3, <2>5 DEF Bisect, TypeOK, StepInv
<1>7. CASE Finish(total)
  BY <1>2, <1>3, <1>7 DEF Finish, TypeOK, StepInv
<1> QED BY <1>4, <1>5, <1>6, <1>7

LEMMA StepBest ==
  ASSUME TypeOK, BestIsMeasured, NEW total \in rates[GridSize], Measured(total)
  PROVE  BestIsMeasured'
<1> SUFFICES ASSUME per_device_grid_size = 0
             PROVE  /\ \A m \in measured' : m[2] <= best_hashrate'
                    /\ best_hashrate' # 0 => <<best_grid_size', best_hashrate'>> \in measured'
  BY DEF BestIsMeasured
<1>1. measured' = measured \cup {<<current_grid_size, total>>}
  BY DEF Measured, GridSize
<1>2. total \in Nat /\ best_hashrate' \in Nat /\ best_hashrate \in Nat
  BY MeasuredType DEF TypeOK
<1>3. \A m \in measured : m[2] \in Nat /\ m[2] <= best_hashrate
  BY DEF BestIsMeasured, TypeOK
<1>4. CASE total > best_hashrate
  <2>1. best_hashrate' = total /\ best_grid_size' = current_grid_size
    BY <1>4 DEF Measured, UpdateBest
  <2> QED BY <1>1, <1>2, <1>3, <1>4, <2>1
<1>5. CASE ~(total > best_hashrate)
  <2>1. best_hashrate' = best_hashrate /\ best_grid_size' = best_grid_size
    BY <1>5 DEF Measured, UpdateBest
  <2>2. best_hashrate # 0 => <<best_grid_size, best_hashrate>> \in measured
    BY DEF BestIsMeasured
  <2> QED BY <1>1, <1>2, <1>3, <1>5, <2>1, <2>2
<1> QED BY <1>4, <1>5

LEMMA BestStep ==
  ASSUME BestInv, [Next]_vars
  PROVE  BestInv'
<1> USE DEF BestInv
<1>1. CASE Measure
  <2>1. PICK total \in rates[GridSize] :
          Double(total) \/ EndDoubling(total) \/ Bisect(total) \/ Finish(total)
    BY <1>1 DEF Measure
  <2>2. Measured(total)
    BY <2>1 DEF Double, EndDoubling, Bisect, Finish
  <2> QED BY <2>1, <2>2, StepType, StepBest
<1>2. CASE MeasuringPanics
  BY <1>2 DEF MeasuringPanics, TypeOK, StepInv, BestIsMeasured
<1>3. CASE UNCHANGED vars
  BY <1>3 DEF vars, TypeOK, StepInv, BestIsMeasured
<1> QED BY <1>1, <1>2, <1>3 DEF Next, Done

LEMMA BestInvariant == Spec => []BestInv
BY BestInit, BestStep, PTL DEF Spec

\* The state has its type: no step takes the size out of the word.
THEOREM TypeCorrect == Spec => []TypeOK
BY BestInvariant, PTL DEF BestInv

\* The size and rate printed last are those of the best measurement.
THEOREM BestCorrect == Spec => []BestIsMeasured
BY BestInvariant, PTL DEF BestInv

-----------------------------------------------------------------------------
\* The sizes of the doubling stage: twice a size is a size of D, up to the word.
Doublings(D) ==
  /\ D \subseteq 1 .. WordSize
  /\ FirstGrid \in D
  /\ \A d \in D : d < WordSize => 2 * d \in D

\* While it doubles, the size is twice the last increase; while it bisects, the
\* steps that are left lead to neither end of the bracket.
BracketInv(D) ==
  /\ is_doubling_stage /\ current_grid_size # 0 =>
       /\ current_grid_size \in D
       /\ 2 * last_grid_size_increase <= current_grid_size
  /\ ~is_doubling_stage /\ top # 0 =>
       /\ current_grid_size + last_grid_size_increase <= top
       /\ 2 * current_grid_size >= top + 2 * last_grid_size_increase

LEMMA BracketStep ==
  ASSUME NEW D, Doublings(D), TypeOK, BracketInv(D), [Next]_vars
  PROVE  BracketInv(D)'
<1>0. /\ WordSize \in Nat \ {0}
      /\ current_grid_size \in Nat /\ current_grid_size < WordSize
      /\ last_grid_size_increase \in Nat /\ top \in Nat
  BY FindOptimalAssumption DEF TypeOK, Sizes
<1>1. ASSUME NEW total, Double(total)
      PROVE  BracketInv(D)'
  <2>1. CASE current_grid_size = 0
    BY <1>0, <1>1, <2>1 DEF Double, BracketInv
  <2>2. CASE current_grid_size # 0
    <3>1. is_doubling_stage /\ current_grid_size \in D
      BY <1>1, <2>2 DEF Double, BracketInv
    <3>2. 2 * current_grid_size \in D /\ 2 * current_grid_size \in 1 .. WordSize
      BY <1>0, <3>1 DEF Doublings
    <3>3. \/ 2 * current_grid_size < WordSize
             /\ (current_grid_size * 2) % WordSize = 2 * current_grid_size
          \/ 2 * current_grid_size = WordSize /\ (current_grid_size * 2) % WordSize = 0
      BY <1>0, <3>2
    <3> QED BY <1>0, <1>1, <3>1, <3>2, <3>3 DEF Double, BracketInv
  <2> QED BY <2>1, <2>2
<1>2. ASSUME NEW total, EndDoubling(total)
      PROVE  BracketInv(D)'
  BY <1>0, <1>2 DEF EndDoubling, SaturatingSub, BracketInv
<1>3. ASSUME NEW total, Bisect(total)
      PROVE  BracketInv(D)'
  BY <1>0, <1>3 DEF Bisect, SaturatingSub, BracketInv
<1>4. ASSUME NEW total, Finish(total)
      PROVE  BracketInv(D)'
  BY <1>4 DEF Finish, BracketInv
<1>5. CASE MeasuringPanics
  BY <1>5 DEF MeasuringPanics, BracketInv
<1>6. CASE UNCHANGED vars
  BY <1>6 DEF vars, BracketInv
<1> QED BY <1>1, <1>2, <1>3, <1>4, <1>5, <1>6 DEF Next, Measure, Done

\* Doubled again and again, the first size comes out at the word size exactly, as 32
\* does at 2^32 after 27 times.
DoublesToTheWord ==
  \E n \in Nat : \E size \in [0 .. n -> Nat] :
    /\ size[0] = FirstGrid
    /\ \A k \in 1 .. n : size[k] = 2 * size[k - 1]
    /\ size[n] = WordSize

LEMMA DoublingsExist ==
  ASSUME DoublesToTheWord
  PROVE  \E D : Doublings(D)
<1>0. PICK n \in Nat : \E size \in [0 .. n -> Nat] :
        /\ size[0] = FirstGrid
        /\ \A k \in 1 .. n : size[k] = 2 * size[k - 1]
        /\ size[n] = WordSize
  BY DEF DoublesToTheWord
<1>1. PICK size \in [0 .. n -> Nat] :
        /\ size[0] = FirstGrid
        /\ \A k \in 1 .. n : size[k] = 2 * size[k - 1]
        /\ size[n] = WordSize
  BY <1>0
<1>2. FirstGrid \in Nat \ {0} /\ WordSize \in Nat
  BY FindOptimalAssumption DEF Sizes
<1> DEFINE Positive == {k \in Nat : k \in 0 .. n => size[k] >= 1}
           Fitting == {j \in Nat : j \in 0 .. n => size[n - j] <= WordSize}
<1>3. 0 .. n \subseteq Positive
  <2>1. 0 \in Positive
    BY <1>1, <1>2
  <2>2. ASSUME NEW k \in 1 .. n, k - 1 \in Positive PROVE k \in Positive
    <3>1. k - 1 \in 0 .. n /\ k \in 0 .. n /\ k \in Nat
      OBVIOUS
    <3>2. size[k - 1] \in Nat /\ size[k - 1] >= 1 /\ size[k] = 2 * size[k - 1]
      BY <1>1, <2>2, <3>1
    <3>3. size[k] >= 1
      BY <3>2
    <3> QED BY <3>1, <3>3
  <2> HIDE DEF Positive
  <2> QED BY <2>1, <2>2, UpTo
<1>4. 0 .. n \subseteq Fitting
  <2>1. 0 \in Fitting
    BY <1>1, <1>2
  <2>2. ASSUME NEW j \in 1 .. n, j - 1 \in Fitting PROVE j \in Fitting
    <3>1. /\ j - 1 \in 0 .. n /\ j \in Nat /\ n - j \in 0 .. n
          /\ n - (j - 1) \in 1 .. n /\ n - (j - 1) - 1 = n - j
      OBVIOUS
    <3>2. /\ size[n - (j - 1)] <= WordSize /\ size[n - j] \in Nat
          /\ size[n - (j - 1)] = 2 * size[n - j]
      BY <1>1, <2>2, <3>1
    <3>3. size[n - j] <= WordSize
      BY <1>2, <3>2
    <3> QED BY <3>1, <3>3
  <2> HIDE DEF Fitting
  <2> QED BY <2>1, <2>2, UpTo
<1> DEFINE D == {size[k] : k \in 0 .. n}
<1>5. D \subseteq 1 .. WordSize
  <2>1. ASSUME NEW k \in 0 .. n PROVE size[k] \in 1 .. WordSize
    <3>1. n - k \in 0 .. n /\ n - (n - k) = k
      OBVIOUS
    <3>2. size[k] >= 1 /\ size[n - (n - k)] <= WordSize /\ size[k] \in Nat
      BY <1>1, <1>3, <1>4, <3>1
    <3> QED BY <1>2, <3>1, <3>2
  <2> QED BY <2>1
<1>6. FirstGrid \in D
  <2>1. 0 \in 0 .. n
    OBVIOUS
  <2> QED BY <1>1, <2>1
<1>7. ASSUME NEW d \in D, d < WordSize
      PROVE  2 * d \in D
  <2>1. PICK k \in 0 .. n : d = size[k]
    OBVIOUS
  <2>2. k # n
    BY <1>1, <1>2, <1>7, <2>1
  <2>3. k + 1 \in 1 .. n /\ (k + 1) - 1 = k /\ k + 1 \in 0 .. n
    BY <2>2
  <2>4. size[k + 1] = 2 * d
    BY <1>1, <2>1, <2>3
  <2> QED BY <2>3, <2>4
<1> HIDE DEF D
<1> QED BY <1>5, <1>6, <1>7 DEF Doublings

\* Whatever is measured, the sizes tried after the doubling stay between the last
\* two of it (main.rs 417, 476-499).
THEOREM BracketHolds ==
  ASSUME DoublesToTheWord
  PROVE  Spec => []Bracket
<1>1. PICK D : Doublings(D)
  BY DoublingsExist
<1>2. Init => BracketInv(D)
  BY <1>1, FindOptimalAssumption DEF Init, BracketInv, Doublings, Sizes
<1>3. TypeOK /\ BracketInv(D) /\ [Next]_vars => BracketInv(D)'
  BY <1>1, BracketStep
<1>4. TypeOK /\ BracketInv(D) => Bracket
  BY DEF TypeOK, BracketInv, Bracket
<1> QED BY <1>2, <1>3, <1>4, TypeCorrect, PTL DEF Spec
=============================================================================
