----------------------------- MODULE SmiTimeout -----------------------------
(***************************************************************************)
(* The waiting policy of timeout.h that every await loop of the driver     *)
(* shares.  The clock is abstracted to one bit: has the deadline computed  *)
(* by start_timeout been reached?                                          *)
(***************************************************************************)
EXTENDS Integers

CONSTANTS SpinHard, SpinYield, SpinSoft   \* SPIN_{HARD,YIELD,SOFT}_LIMIT

ASSUME SpinLimits ==
    /\ SpinHard \in Nat /\ SpinYield \in Nat /\ SpinSoft \in Nat
    /\ SpinHard < SpinYield /\ SpinYield < SpinSoft

timeout_spin_tier(spin) ==
    CASE spin < SpinHard  -> 0
      [] spin >= SpinHard  /\ spin < SpinYield -> 1
      [] spin >= SpinYield /\ spin < SpinSoft  -> 2
      [] OTHER -> 3

\* The answer of timeout_apply when the deadline has passed (late) or not on
\* entry, and has passed (later) or not when the nanosleep of tier 3 returns.
timeout_apply(tier, late, later) ==
    \/ tier \in {2, 3} /\ late
    \/ tier = 3 /\ later

\* Seeded bug: a waiting loop that forgets spin++.
SpinForgotten(spin) == spin

\* Beyond SpinSoft the tier no longer changes, so the counter stops there.
NextSpin(spin) == IF spin < SpinSoft THEN spin + 1 ELSE spin
=============================================================================
