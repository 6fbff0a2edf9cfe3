------------------------------- MODULE Cell -------------------------------
(***************************************************************************)
(* The arithmetic of one cell of the automaton (Cell.m, fxutil.c).         *)
(*                                                                         *)
(* A cell holds floats in units of 1.0; here every float is an integer     *)
(* number of 1/One-ths, a quotient is rounded down to that grid, and NaN   *)
(* stands for every value that is not finite (0/0, x/0, and whatever is    *)
(* computed from them: all of them propagate through +, * and /, and every *)
(* comparison that guards a branch of this code is false for them).        *)
(***************************************************************************)
EXTENDS Integers, Sequences

CONSTANTS One,  \* the float 1.0
          NaN   \* any float that is not finite

ASSUME OneAssumption == One \in Nat \ {0}
ASSUME NaNAssumption == NaN \notin Int

Float == Int \cup {NaN}

Total(s) ==
  LET sum[n \in 0..Len(s)] == IF n = 0 THEN 0 ELSE sum[n - 1] + s[n]
  IN  sum[Len(s)]

(* a / b on the grid, for b # 0. *)
Quotient(a, b) == IF b > 0 THEN a \div b ELSE (-a) \div (-b)

(* avg / wsum over what the neighbours' lastState were and what they weigh. *)
Mean(seen, used) ==
  IF Total(used) = 0 \/ \E i \in DOMAIN seen : seen[i] = NaN
  THEN NaN
  ELSE Quotient(Total([i \in DOMAIN seen |-> seen[i] * used[i]]), Total(used))

Used(neighbours, weights) ==
  IF Len(weights) = Len(neighbours) THEN weights ELSE [i \in DOMAIN neighbours |-> 1]

Average_skipsNaN(neighbours, last, weights) ==
  Mean([i \in DOMAIN neighbours |-> IF last[neighbours[i]] = NaN THEN 0 ELSE last[neighbours[i]]],
       Used(neighbours, weights))

(***************************************************************************)
(* The mean of the neighbours' lastState, weighted when the list of        *)
(* weights is as long as the habitat and plain otherwise.                  *)
(***************************************************************************)
Average(neighbours, last, weights) ==
  Mean([i \in DOMAIN neighbours |-> last[neighbours[i]]], Used(neighbours, weights))

WrapOnce_never(x) == x

(* One subtraction of 1.0, not a modulus: -next:: wraps only from above. *)
WrapOnce(x) == IF x > One THEN x - One ELSE x

NextState(neighbours, last, weights, add) ==
  LET avg == Average(neighbours, last, weights)
  IN  IF avg = NaN THEN NaN ELSE WrapOnce(avg + add)

(* velocity = (avg - lastState) / frameRateRatio *)
Velocity(new, old, ratio) ==
  IF NaN \in {new, old} \/ ratio = 0 THEN NaN ELSE Quotient(new - old, ratio)

(* updatePhase: wrapf(phase + velocity, 0.0, 1.0) *)
NextPhase(ph, vel) == IF NaN \in {ph, vel} THEN NaN ELSE (ph + vel) % One

(* a < b as C compares floats. *)
Below(a, b) == a # NaN /\ b # NaN /\ a < b
===========================================================================
