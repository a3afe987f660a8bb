-------------------------------- MODULE Retry --------------------------------
(***************************************************************************)
(* Retry policies [attempts, base, max] and the delay before an attempt is *)
(* repeated: NormalizeRetry and RetryDelay of the coordinator, and         *)
(* RetryPolicy of the chaos lab, which normalises a policy otherwise.      *)
(***************************************************************************)
EXTENDS Naturals, FiniteSetsExt

(* RetryPolicy.normalized *)
Normalized(p) ==
  LET base == Max({1, p.base}) IN
  [attempts |-> Min({100, Max({1, p.attempts})}), base |-> base,
   max |-> Max({base, p.max})]

(* NormalizeRetry.  A delay that is not given, or not positive, is a default
   one, and both have a largest value; d has the four as base, max, mostBase and mostMax. *)
NormalizedByDefaults(p, d) ==
  LET within(x, default, most) == Min({most, IF x <= 0 THEN default ELSE x})
      base == within(p.base, d.base, d.mostBase) IN
  [attempts |-> Min({100, Max({1, p.attempts})}), base |-> base,
   max |-> Max({base, within(p.max, d.max, d.mostMax)})]

(* mutant: the doubling is not capped. *)
Doubled_Uncapped(delay, max) == 2 * delay

Doubled(delay, max) == Min({max, 2 * delay})

(* delay_for_attempt and RetryDelay, of a normalised policy: the loop stops
   early once the delay is the maximum, where doubling leaves it. *)
Backoff(p, attempt) ==
  LET turns == Max({0, attempt - 1})
      after[n \in 0..turns] ==
        IF n = 0 THEN p.base ELSE Doubled(after[n - 1], p.max)
  IN after[turns]

Delay(policy, attempt) == Backoff(Normalized(policy), attempt)
=============================================================================
