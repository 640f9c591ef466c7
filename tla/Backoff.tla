------------------------------- MODULE Backoff -------------------------------
(***************************************************************************)
(* nextRetryTime of internal/worker/fanout.go: the delay after the failure *)
(* of an attempt, in integers of Width bits (time.Duration has 64).        *)
(***************************************************************************)
EXTENDS Integers

CONSTANTS
    MaxRetries,  \* MAX_RETRIES
    BaseDelay,   \* RETRY_BASE_DELAY
    MaxDelay,    \* the cap, five minutes
    Width

Half == 2 ^ (Width - 1)

ASSUME BackoffAssumption ==
    /\ MaxRetries \in Nat
    /\ BaseDelay \in Nat \ {0}
    /\ MaxDelay \in Nat \ {0}
    /\ Width \in Nat \ {0}

(* Plain arithmetic, which the provers do not know of 2 ^ n.                *)
ASSUME PowersArePositive ==
    \A n \in 0 .. (MaxRetries + Width) : 2 ^ n \in Nat \ {0}

(* Whether there is another attempt.                                        *)
HasRetry(n) == n < MaxRetries

(* A product wraps around.                                                  *)
Wrap(x) == ((x + Half) % (2 * Half)) - Half

(* math.Pow(2, n-1) as a Duration: the conversion of a float that is too    *)
(* large gives the least integer on some processors, the greatest on others.*)
Powers(n) == IF 2 ^ (n - 1) < Half THEN {2 ^ (n - 1)} ELSE {-Half, Half - 1}

(* Mutant: no cap.                                                          *)
Uncapped(d) == d
Capped(d) == IF d > MaxDelay THEN MaxDelay ELSE d

(* Times a random factor from 0.75 to 1.25, rounded towards zero.           *)
Jittered(d) == IF d >= 0 THEN (3 * d) \div 4 .. (5 * d) \div 4
                         ELSE -((-5 * d) \div 4) .. -((-3 * d) \div 4)

Delays(n) == UNION {Jittered(Capped(Wrap(BaseDelay * p))) : p \in Powers(n)}

-----------------------------------------------------------------------------
(* What the delay is meant to be: base * 2^(n-1), at most the cap.          *)
Ideal(n) == BaseDelay * 2 ^ (n - 1)
Shortest(n) == LET d == IF Ideal(n) > MaxDelay THEN MaxDelay ELSE Ideal(n)
               IN (3 * d) \div 4
Longest == (5 * MaxDelay) \div 4

(* The product of the n-th delay is an integer of that width.               *)
Fits(n) == Ideal(n) < Half
=============================================================================
