------------------------------- MODULE Backoff -------------------------------
(***************************************************************************)
(* RetryConfig.compute_delay (app/dependencies/mock_api.py): the pause     *)
(* after a failed attempt, counted from 0.  A retry policy is a record     *)
(*   [max_attempts, base_delay_ms, max_delay_ms, strategy, retryable]      *)
(* and of the random jitter only its upper bound is kept.                  *)
(***************************************************************************)
EXTENDS Naturals

\* Faulty variant: the attempts are counted from 1.
GrownEarly(policy, attempt) ==
  CASE policy.strategy = "exponential" -> policy.base_delay_ms * 2^(attempt + 1)
    [] policy.strategy = "linear"      -> policy.base_delay_ms * (attempt + 2)
    [] OTHER                           -> policy.base_delay_ms

Grown(policy, attempt) ==
  CASE policy.strategy = "exponential" -> policy.base_delay_ms * 2^attempt
    [] policy.strategy = "linear"      -> policy.base_delay_ms * (attempt + 1)
    [] OTHER                           -> policy.base_delay_ms

Capped(policy, attempt) ==
  IF Grown(policy, attempt) <= policy.max_delay_ms THEN Grown(policy, attempt)
  ELSE policy.max_delay_ms

\* The jitter multiplies the capped delay by at most 1.25; in milliseconds,
\* rounded up.
LongestDelay(policy, attempt) == (5 * Capped(policy, attempt) + 3) \div 4
=============================================================================
