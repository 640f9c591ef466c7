--------------------------- MODULE AttemptsProofs ---------------------------
(***************************************************************************)
(* The ladder of attempts in time, for any number of goroutines, any delays*)
(* and widths, and hosts whose clocks differ by any bounded amount.        *)
(***************************************************************************)
EXTENDS Attempts, TLAPS

IInv == TypeOK /\ Ladder /\ Capping

-----------------------------------------------------------------------------
(* nextRetryTime                                                            *)

LEMMA HalfIsPositive == Half \in Nat \ {0}
<1>1. Width - 1 \in 0 .. (MaxRetries + Width)
  BY BackoffAssumption
<1>. QED
  BY <1>1, PowersArePositive DEF Half

(* A product that fits is not changed by the width of the integers.         *)
LEMMA WrapFits ==
  ASSUME NEW x \in Nat, x < Half
  PROVE  Wrap(x) = x
<1>. DEFINE m == 2 * Half
            y == x + Half
<1>1. m \in Nat \ {0} /\ y \in Nat /\ y < m
  BY HalfIsPositive
<1>2. y % m = y
  <2>. HIDE DEF m, y
  <2>. QED  BY <1>1
<1>. QED
  BY <1>2, HalfIsPositive DEF Wrap

LEMMA WrapIsInteger == \A x \in Int : Wrap(x) \in Int
<1>. SUFFICES ASSUME NEW x \in Int PROVE Wrap(x) \in Int
  OBVIOUS
<1>. DEFINE m == 2 * Half
            y == x + Half
<1>1. m \in Nat \ {0} /\ y \in Int
  BY HalfIsPositive
<1>2. y % m \in Int
  <2>. HIDE DEF m, y
  <2>. QED  BY <1>1
<1>. QED
  BY <1>2, HalfIsPositive DEF Wrap

LEMMA JitterRange ==
  ASSUME NEW d \in Int, d <= MaxDelay, NEW j \in Jittered(d)
  PROVE  /\ j \in Int
         /\ j <= Longest
         /\ d >= 0 => j >= (3 * d) \div 4
  BY BackoffAssumption DEF Jittered, Longest

(* The delay is never longer than the cap and its jitter, and when the      *)
(* product fits it is never shorter than it is meant to be.                 *)
LEMMA DelayRange ==
  ASSUME NEW n \in Numbers, n <= MaxRetries, NEW d \in Delays(n)
  PROVE  /\ d \in Int
         /\ d <= Longest
         /\ Fits(n) => d >= Shortest(n)
<1>. DEFINE p0 == 2 ^ (n - 1)
<1>1. p0 \in Nat \ {0}
  <2>1. n - 1 \in 0 .. (MaxRetries + Width)
    BY BackoffAssumption DEF Numbers
  <2>. QED  BY <2>1, PowersArePositive
<1>2. PICK p \in Powers(n) : d \in Jittered(Capped(Wrap(BaseDelay * p)))
  BY DEF Delays
<1>3. p \in Int
  BY <1>1, HalfIsPositive DEF Powers
<1>4. BaseDelay * p \in Int
  BY <1>3, BackoffAssumption
<1>5. Wrap(BaseDelay * p) \in Int
  BY <1>4, WrapIsInteger
<1>6. /\ Capped(Wrap(BaseDelay * p)) \in Int
      /\ Capped(Wrap(BaseDelay * p)) <= MaxDelay
  BY <1>5, BackoffAssumption DEF Capped
<1>7. d \in Int /\ d <= Longest
  BY <1>2, <1>6, JitterRange
<1>8. ASSUME Fits(n) PROVE d >= Shortest(n)
  <2>1. BaseDelay * p0 < Half
    BY <1>8 DEF Fits, Ideal
  <2>2. p0 <= BaseDelay * p0 /\ BaseDelay * p0 \in Nat
    <3>. HIDE DEF p0
    <3>. QED  BY <1>1, BackoffAssumption
  <2>3. p0 < Half
    BY <1>1, <2>1, <2>2, HalfIsPositive
  <2>4. p = p0
    BY <2>3 DEF Powers
  <2>5. Wrap(BaseDelay * p) = BaseDelay * p0
    BY <2>1, <2>2, <2>4, WrapFits
  <2>6. Capped(Wrap(BaseDelay * p)) >= 0
    BY <2>2, <2>5, BackoffAssumption DEF Capped
  <2>7. d >= (3 * Capped(BaseDelay * p0)) \div 4
    BY <1>2, <1>6, <2>5, <2>6, JitterRange
  <2>. QED
    BY <2>7 DEF Capped, Shortest, Ideal
<1>. QED
  BY <1>7, <1>8

LEMMA LongestIsEnough ==
  ASSUME NEW n \in Numbers, n <= MaxRetries
  PROVE  Longest \in Nat /\ Enough(n, Longest)
<1>. DEFINE p0 == 2 ^ (n - 1)
<1>1. p0 \in Nat \ {0}
  <2>1. n - 1 \in 0 .. (MaxRetries + Width)
    BY BackoffAssumption DEF Numbers
  <2>. QED  BY <2>1, PowersArePositive
<1>2. BaseDelay * p0 \in Nat
  <2>. HIDE DEF p0
  <2>. QED  BY <1>1, BackoffAssumption
<1>. QED
  BY <1>2, BackoffAssumption, AttemptsAssumption
  DEF Enough, Longest, Shortest, Ideal

LEMMA ShortestIsInteger ==
  ASSUME NEW n \in Numbers, n <= MaxRetries
  PROVE  Shortest(n) \in Int
<1>. DEFINE p0 == 2 ^ (n - 1)
<1>1. p0 \in Nat \ {0}
  <2>1. n - 1 \in 0 .. (MaxRetries + Width)
    BY BackoffAssumption DEF Numbers
  <2>. QED  BY <2>1, PowersArePositive
<1>2. BaseDelay * p0 \in Nat
  <2>. HIDE DEF p0
  <2>. QED  BY <1>1, BackoffAssumption
<1>. QED
  BY <1>2, BackoffAssumption DEF Shortest, Ideal

(* What EndCall writes: a wait that is neither too long nor too short.      *)
LEMMA RetryRange ==
  ASSUME NEW g \in Goroutines, NEW n \in Numbers, NEW t \in RetryIn(g, n)
  PROVE  /\ t \in Times
         /\ t <= Longest + MaxSkew
         /\ t # Never => HasRetry(n) /\ Enough(n, t)
<1>1. CASE ~HasRetry(n)
  BY <1>1, LongestIsEnough, BackoffAssumption, AttemptsAssumption
  DEF RetryIn, Times, Never, Longest
<1>2. CASE HasRetry(n)
  <2>1. n <= MaxRetries
    BY <1>2, BackoffAssumption DEF HasRetry, Numbers
  <2>2. PICK d \in Delays(n) : t = Later(0, d + Skew[g])
    BY <1>2 DEF RetryIn
  <2>3. d \in Int /\ d <= Longest /\ (Fits(n) => d >= Shortest(n))
    BY <2>1, DelayRange
  <2>4. Skew[g] \in -MaxSkew .. MaxSkew /\ MaxSkew \in Nat
    BY AttemptsAssumption
  <2>5. Longest \in Nat /\ Shortest(n) \in Int
    BY <2>1, LongestIsEnough, ShortestIsInteger
  <2>6. t \in Nat /\ t <= Longest + MaxSkew /\ t >= d + Skew[g]
    BY <2>2, <2>3, <2>4, <2>5 DEF Later
  <2>7. Enough(n, t)
    BY <2>3, <2>4, <2>5, <2>6 DEF Enough
  <2>. QED
    BY <1>2, <2>6, <2>7 DEF Times
<1>. QED
  BY <1>1, <1>2

-----------------------------------------------------------------------------
(* The invariant                                                            *)

LEMMA InitInv == Init => IInv
<1>. SUFFICES ASSUME Init PROVE IInv
  OBVIOUS
<1>1. TypeOK
  BY BackoffAssumption, AttemptsAssumption
  DEF Init, RunnerInit, TypeOK, RunnerTypeOK, Awaits, Outcomes, Labels, Numbers, Times,
      Never, Longest
<1>2. Ladder
  BY DEF Init, Ladder, Rungs, Flights, Paced, InFlight
<1>3. Capping
  BY BackoffAssumption, AttemptsAssumption DEF Init, Capping, Never, Longest
<1>. QED
  BY <1>1, <1>2, <1>3 DEF IInv

(* A step of g that moves no attempt, wait or time, and takes g neither into*)
(* nor along a call.                                                        *)
Quiet(g) ==
    /\ UNCHANGED <<table, quiet>>
    /\ \A h \in Goroutines \ {g} :
          /\ pc'[h] = pc[h] /\ prev'[h] = prev[h]
          /\ res'[h] = res[h] /\ retry'[h] = retry[h]
    /\ \/ prev'[g] \in {0, prev[g]}
       \/ Due(prev'[g]) /\ prev'[g] \in Numbers
    /\ \/ pc'[g] \notin {"send", "answer", "record"}
       \/ pc[g] \in {"send", "answer"} /\ pc'[g] = "answer" /\ prev'[g] = prev[g]
    /\ retry'[g] \in {retry[g], Never}

(* It keeps what the ladder says of g, and of the others.                   *)
LEMMA QuietStep ==
  ASSUME IInv, TypeOK', NEW g \in Goroutines, Quiet(g)
  PROVE  IInv'
<1>. USE DEF Quiet
<1>1. Rungs'
  <2>1. \A h \in Goroutines : prev[h] > 0 =>
          attempt[prev[h]] = "failed" /\ HasRetry(prev[h])
    BY DEF IInv, Ladder, Rungs
  <2>2. prev'[g] > 0 => attempt[prev'[g]] = "failed" /\ HasRetry(prev'[g])
    <3>1. CASE Due(prev'[g]) /\ prev'[g] \in Numbers
      BY <3>1 DEF IInv, Ladder, Rungs, Due, Never
    <3>2. CASE prev'[g] \in {0, prev[g]}
      BY <2>1, <3>2
    <3>. QED  BY <3>1, <3>2
  <2>3. \A h \in Goroutines : prev'[h] > 0 =>
          attempt'[prev'[h]] = "failed" /\ HasRetry(prev'[h])
    BY <2>1, <2>2 DEF table
  <2>. QED
    BY <2>3 DEF IInv, Ladder, Rungs, table
<1>2. Flights'
  BY DEF IInv, Ladder, Flights, InFlight, table, Number
<1>3. Paced'
  <2>1. \A n \in Numbers : (wait[n] # Never /\ attempt[n + 1] = "none" =>
          Enough(n, quiet + wait[n]))'
    BY DEF IInv, Ladder, Paced, table, Enough
  <2>2. \A h \in Goroutines \ {g} :
          /\ (pc[h] = "record" /\ retry[h] # Never =>
                Enough(Number(h), quiet + retry[h]))'
          /\ (prev[h] > 0 /\ (attempt[Number(h)] = "none" \/ pc[h] = "send") =>
                Enough(prev[h], quiet))'
    BY DEF IInv, Ladder, Paced, table, Enough, Number
  <2>3. (pc[g] = "record" /\ retry[g] # Never =>
           Enough(Number(g), quiet + retry[g]))'
    BY DEF InFlight
  <2>4. (prev[g] > 0 /\ (attempt[Number(g)] = "none" \/ pc[g] = "send") =>
           Enough(prev[g], quiet))'
    <3>1. CASE prev'[g] = prev[g]
      BY <3>1 DEF IInv, Ladder, Paced, table, Enough, Number, InFlight
    <3>2. CASE prev'[g] = 0
      BY <3>2
    <3>3. CASE Due(prev'[g]) /\ prev'[g] \in Numbers
      <4>1. wait[prev'[g]] = 0 /\ quiet \in Nat
        BY <3>3 DEF Due, IInv, TypeOK
      <4>2. pc'[g] = "send" => prev'[g] = prev[g]
        BY DEF InFlight
      <4>3. attempt[prev'[g] + 1] = "none" => Enough(prev'[g], quiet + wait[prev'[g]])
        BY <3>3, <4>1 DEF IInv, Ladder, Paced, Never
      <4>4. quiet + wait[prev'[g]] = quiet
        BY <4>1
      <4>. QED
        BY <3>1, <3>3, <4>2, <4>3, <4>4 DEF table, Number, Enough
    <3>. QED
      BY <3>1, <3>2, <3>3
  <2>. QED
    BY <2>1, <2>2, <2>3, <2>4 DEF Paced
<1>4. Capping'
  BY BackoffAssumption, AttemptsAssumption
  DEF IInv, Capping, table, Never, Longest
<1>. QED
  BY <1>1, <1>2, <1>3, <1>4 DEF IInv, Ladder

-----------------------------------------------------------------------------
(* Types                                                                    *)

LEMMA StepType == ASSUME IInv, NEW g \in Goroutines, Step(g) PROVE TypeOK'
<1>. USE DEF IInv, TypeOK, RunnerTypeOK, Labels, Awaits, Rest, Goto, runner, table
<1>1. CASE Fanout(g)
  BY <1>1 DEF Fanout
<1>2. CASE ListRetryable(g)
  <2>1. PICK n \in Numbers : Due(n) /\ prev' = [prev EXCEPT ![g] = n]
    BY <1>2 DEF ListRetryable
  <2>2. n \in 0 .. MaxRetries
    BY <2>1, BackoffAssumption DEF Ladder, Rungs, Due, Never, HasRetry, Numbers
  <2>. QED
    BY <1>2, <2>1, <2>2 DEF ListRetryable
<1>3. CASE RunSource(g)
  BY <1>3 DEF RunSource, StartRun, Outcomes
<1>4. CASE Filtered(g)
  BY <1>4, BackoffAssumption DEF Filtered, Takes, Return, Times, Outcomes
<1>5. CASE Transform(g)
  BY <1>5 DEF Transform, StartRun, Outcomes
<1>6. CASE Transformed(g)
  BY <1>6, BackoffAssumption DEF Transformed, Takes, Leave, Return, Times, Outcomes
<1>7. CASE CreateAttempt(g)
  BY <1>7, BackoffAssumption DEF CreateAttempt, Leave, Return, Times
<1>8. ASSUME NEW r \in {"success", "failed"}, EndCall(g, r)
      PROVE  /\ res' \in [Goroutines -> {"none", "success", "failed"}]
             /\ retry' \in [Goroutines -> Times]
             /\ quiet' \in Nat
             /\ pc' \in [Goroutines -> Labels]
             /\ prev' \in [Goroutines -> 0 .. MaxRetries]
             /\ \A h \in Goroutines : pc'[h] = IF h = g THEN "record" ELSE pc[h]
  <2>1. Number(g) \in Numbers
    BY BackoffAssumption DEF Number, Numbers
  <2>2. PICK t \in IF r = "failed" THEN RetryIn(g, Number(g)) ELSE {Never} :
          retry' = [retry EXCEPT ![g] = t]
    BY <1>8 DEF EndCall
  <2>3. t \in Times
    BY <2>1, <2>2, RetryRange DEF Times
  <2>. QED
    BY <1>8, <2>2, <2>3 DEF EndCall
<1>9. CASE Dispatch(g)
  <2>1. CASE Refuse(g)
    BY <1>8, <1>9, <2>1 DEF Dispatch, Refuse
  <2>2. CASE Post(g) \/ Mail(g)
    BY <1>9, <2>2 DEF Dispatch, Post, Mail
  <2>3. CASE Process(g)
    BY <1>9, <2>3 DEF Dispatch, Process, StartRun, Outcomes
  <2>. QED
    BY <1>9, <2>1, <2>2, <2>3 DEF Dispatch
<1>10. CASE Answer(g)
  <2>1. CASE Responds(g) \/ Mailed(g)
    <3>1. PICK r \in {"success", "failed"} : EndCall(g, r)
      BY <2>1 DEF Responds, Mailed
    <3>2. row.type # "javascript" /\ UNCHANGED runner
      BY <2>1 DEF Responds, Mailed, Posts
    <3>. QED
      BY <1>8, <1>10, <3>1, <3>2 DEF Answer
  <2>2. CASE Processed(g)
    <3>1. Takes(g)
      BY <2>2 DEF Processed
    <3>2. PICK r \in {"success", "failed"} : EndCall(g, r)
      BY <2>2 DEF Processed
    <3>. QED
      BY <1>8, <1>10, <2>2, <3>1, <3>2 DEF Answer, Processed, Takes, Outcomes
  <2>. QED
    BY <1>10, <2>1, <2>2 DEF Answer
<1>11. CASE RecordResult(g)
  <2>1. /\ attempt' \in [Numbers -> {"none", "pending", "success", "failed"}]
        /\ wait' \in [Numbers -> Times]
    <3>1. res[g] \in {"none", "success", "failed"} /\ retry[g] \in Times
      OBVIOUS
    <3>. QED
      BY <1>11, <3>1 DEF RecordResult
  <2>2. UNCHANGED <<row, crashes, runner, quiet>> /\ Leave(g) /\ pc[g] = "record"
    BY <1>11 DEF RecordResult
  <2>. QED
    BY <2>1, <2>2, BackoffAssumption DEF Leave, Return, Times
<1>12. CASE ClearRetry(g)
  <2>1. /\ attempt' \in [Numbers -> {"none", "pending", "success", "failed"}]
        /\ wait' \in [Numbers -> Times]
    BY <1>12 DEF ClearRetry, Times
  <2>2. UNCHANGED <<row, crashes, runner, quiet>> /\ Return(g) /\ pc[g] = "clear"
    BY <1>12 DEF ClearRetry
  <2>. QED
    BY <2>1, <2>2, BackoffAssumption DEF Return, Times
<1>. QED
  BY <1>1, <1>2, <1>3, <1>4, <1>5, <1>6, <1>7, <1>9, <1>10, <1>11, <1>12 DEF Step

LEMMA OtherType ==
  ASSUME IInv,
         \/ Tick
         \/ \E g \in Goroutines : Run(g) \/ Crash(g)
         \/ UNCHANGED vars
  PROVE  TypeOK'
<1>. USE DEF IInv, TypeOK, RunnerTypeOK, Labels, Awaits, runner, table, locals
<1>1. CASE Tick
  BY <1>1, BackoffAssumption DEF Tick, Left, Times, Never, Longest
<1>2. ASSUME NEW g \in Goroutines, Run(g) PROVE TypeOK'
  BY <1>2 DEF Run, Script, RunCode, CallFunction, EndRun, Fire, Interrupted, Outcomes
<1>3. ASSUME NEW g \in Goroutines, Crash(g) PROVE TypeOK'
  BY <1>3, BackoffAssumption, AttemptsAssumption
  DEF Crash, Return, Discard, Times, Outcomes
<1>4. CASE UNCHANGED vars
  BY <1>4 DEF vars
<1>. QED
  BY <1>1, <1>2, <1>3, <1>4

-----------------------------------------------------------------------------
(* The steps                                                                *)

LEMMA CreateInv ==
  ASSUME IInv, NEW g \in Goroutines, CreateAttempt(g), TypeOK'
  PROVE  IInv'
<1>. DEFINE n == Number(g)
<1>1. n \in Numbers /\ n = prev[g] + 1 /\ prev[g] \in 0 .. MaxRetries
  BY BackoffAssumption DEF IInv, TypeOK, Number, Numbers
<1>2. CASE attempt[n] = "none"
  <2>1. /\ attempt' = [attempt EXCEPT ![n] = "pending"]
        /\ pc' = [pc EXCEPT ![g] = "send"]
        /\ UNCHANGED <<prev, res, retry, row, crashes, runner, wait, quiet>>
        /\ pc[g] = "create"
    BY <1>2 DEF CreateAttempt, Goto, Rest
  <2>2. \A m \in 1 .. (n - 1) : attempt[m] = "failed"
    <3>1. CASE prev[g] = 0
      BY <1>1, <3>1
    <3>2. CASE prev[g] > 0
      <4>1. attempt[prev[g]] = "failed" /\ prev[g] \in Numbers
        <5>1. attempt[prev[g]] = "failed"
          BY <3>2 DEF IInv, Ladder, Rungs
        <5>2. prev[g] \in Numbers
          BY <3>2, <1>1, BackoffAssumption DEF Numbers
        <5>. QED  BY <5>1, <5>2
      <4>2. \A m \in 1 .. (prev[g] - 1) : attempt[m] = "failed"
        BY <4>1 DEF IInv, Ladder, Rungs
      <4>. QED
        BY <1>1, <4>1, <4>2
    <3>. QED
      BY <1>1, <3>1, <3>2
  <2>3. \A m \in Numbers : m > n => attempt[m] = "none"
    <3>1. ASSUME NEW m \in Numbers, m > n PROVE attempt[m] = "none"
      <4>1. n \in 1 .. (m - 1)
        BY <1>1, <3>1, BackoffAssumption DEF Numbers
      <4>. QED
        BY <1>2, <4>1 DEF IInv, Ladder, Rungs
    <3>. QED
      BY <3>1
  <2>4. \A h \in Goroutines : ~InFlight(h)
    <3>1. SUFFICES ASSUME NEW h \in Goroutines, InFlight(h) PROVE FALSE
      OBVIOUS
    <3>2. attempt[Number(h)] = "pending" /\ Number(h) \in Numbers
      BY <3>1, BackoffAssumption DEF IInv, TypeOK, Ladder, Flights, Number, Numbers
    <3>3. Number(h) > n \/ Number(h) = n \/ Number(h) \in 1 .. (n - 1)
      BY <1>1, <3>2, BackoffAssumption DEF Numbers
    <3>. QED
      BY <1>2, <2>2, <2>3, <3>2, <3>3
  <2>5. \A m \in Numbers : attempt'[m] = IF m = n THEN "pending" ELSE attempt[m]
    BY <2>1 DEF IInv, TypeOK
  <2>6. Rungs'
    <3>1. \A m \in Numbers : attempt'[m] # "none" =>
            \A k \in 1 .. (m - 1) : attempt'[k] = "failed"
      <4>1. SUFFICES ASSUME NEW m \in Numbers, attempt'[m] # "none",
                            NEW k \in 1 .. (m - 1)
                     PROVE  attempt'[k] = "failed"
        OBVIOUS
      <4>2. m <= n /\ k < n /\ k \in Numbers
        BY <1>1, <2>3, <2>5, <4>1, BackoffAssumption DEF Numbers
      <4>. QED
        BY <1>1, <2>2, <2>5, <4>2 DEF Numbers
    <3>2. \A m \in Numbers : wait'[m] # Never =>
            attempt'[m] = "failed" /\ HasRetry(m)
      BY <1>2, <2>1, <2>5 DEF IInv, Ladder, Rungs
    <3>3. \A h \in Goroutines : prev'[h] > 0 =>
            attempt'[prev'[h]] = "failed" /\ HasRetry(prev'[h])
      <4>1. \A h \in Goroutines : prev[h] > 0 => prev[h] \in Numbers /\ prev[h] # n
        BY <1>2, BackoffAssumption DEF IInv, TypeOK, Ladder, Rungs, Numbers
      <4>. QED
        BY <2>1, <2>5, <4>1 DEF IInv, Ladder, Rungs
    <3>. QED
      BY <3>1, <3>2, <3>3 DEF Rungs
  <2>7. \A h \in Goroutines : InFlight(h)' => h = g
    BY <2>1, <2>4 DEF InFlight, IInv, TypeOK
  <2>8. Flights'
    <3>1. pc'[g] = "send" /\ attempt'[n] = "pending" /\ Number(g)' = n
      BY <1>1, <2>1, <2>5 DEF IInv, TypeOK, Number
    <3>. QED
      BY <2>7, <3>1 DEF Flights
  <2>9. Paced'
    <3>1. \A m \in Numbers : wait'[m] # Never /\ attempt'[m + 1] = "none" =>
            Enough(m, quiet' + wait'[m])
      BY <2>1, <2>5 DEF IInv, Ladder, Paced, Rungs, HasRetry, Numbers
    <3>2. \A h \in Goroutines : pc'[h] # "record"
      BY <2>1, <2>4 DEF InFlight, IInv, TypeOK
    <3>3. ASSUME NEW h \in Goroutines, prev'[h] > 0,
                 attempt'[prev'[h] + 1] = "none" \/ pc'[h] = "send"
          PROVE  Enough(prev'[h], quiet')
      <4>1. prev[h] \in Numbers /\ prev[h] + 1 \in Numbers /\ prev[h] > 0
        BY <2>1, <3>3, BackoffAssumption
        DEF IInv, TypeOK, Ladder, Rungs, HasRetry, Numbers
      <4>2. attempt[prev[h] + 1] = "none"
        <5>1. CASE pc'[h] = "send"
          BY <1>1, <1>2, <2>1, <2>7, <5>1 DEF InFlight
        <5>2. CASE attempt'[prev'[h] + 1] = "none"
          BY <2>1, <2>5, <4>1, <5>2
        <5>. QED
          BY <3>3, <5>1, <5>2
      <4>. QED
        BY <2>1, <4>1, <4>2 DEF IInv, Ladder, Paced, Number
    <3>4. \A h \in Goroutines :
            prev'[h] > 0 /\ (attempt'[Number(h)'] = "none" \/ pc'[h] = "send") =>
                Enough(prev'[h], quiet')
      BY <3>3 DEF Number
    <3>. QED
      BY <3>1, <3>2, <3>4 DEF Paced, Enough
  <2>10. Capping'
    BY <2>1 DEF IInv, Capping
  <2>. QED
    BY <2>6, <2>8, <2>9, <2>10 DEF IInv, Ladder
<1>3. CASE attempt[n] # "none"
  <2>1. /\ Leave(g) /\ pc[g] = "create"
        /\ UNCHANGED <<row, table, quiet, crashes>>
    BY <1>3 DEF CreateAttempt, Rest, table
  <2>2. Quiet(g)
    BY <2>1 DEF Quiet, Leave, Return, Goto, IInv, TypeOK
  <2>. QED
    BY <2>2, QuietStep
<1>. QED
  BY <1>2, <1>3

(* While an attempt is on its way, every earlier one has its successor.     *)
LEMMA FlightIsLast ==
  ASSUME IInv, NEW g \in Goroutines, InFlight(g),
         NEW m \in Numbers, attempt[m] = "failed"
  PROVE  /\ m < Number(g)
         /\ m + 1 \in Numbers
         /\ attempt[m + 1] # "none"
<1>. DEFINE n == Number(g)
<1>1. n \in Numbers /\ attempt[n] = "pending"
  BY BackoffAssumption DEF IInv, TypeOK, Ladder, Flights, Number, Numbers
<1>2. m < n
  <2>1. m # n
    BY <1>1
  <2>2. ~(m > n)
    <3>1. SUFFICES ASSUME m > n PROVE FALSE
      OBVIOUS
    <3>2. n \in 1 .. (m - 1)
      BY <1>1, <3>1, BackoffAssumption DEF Numbers
    <3>. QED
      BY <1>1, <3>2 DEF IInv, Ladder, Rungs
  <2>. QED
    BY <1>1, <2>1, <2>2, BackoffAssumption DEF Numbers
<1>3. m + 1 \in Numbers
  BY <1>1, <1>2, BackoffAssumption DEF Numbers
<1>4. attempt[m + 1] # "none"
  <2>1. CASE m + 1 = n
    BY <1>1, <2>1
  <2>2. CASE m + 1 # n
    <3>1. m + 1 \in 1 .. (n - 1)
      BY <1>1, <1>2, <2>2, BackoffAssumption DEF Numbers
    <3>. QED
      BY <1>1, <3>1 DEF IInv, Ladder, Rungs
  <2>. QED
    BY <2>1, <2>2
<1>. QED
  BY <1>2, <1>3, <1>4

(* The end of a call starts a silence: nobody but the caller waits for one. *)
LEMMA EndCallInv ==
  ASSUME IInv, TypeOK', NEW g \in Goroutines, NEW r \in {"success", "failed"},
         pc[g] \in {"send", "answer"}, EndCall(g, r), UNCHANGED table
  PROVE  IInv'
<1>. DEFINE n == Number(g)
<1>1. n \in Numbers /\ InFlight(g)
  BY BackoffAssumption DEF IInv, TypeOK, Number, Numbers, InFlight
<1>2. PICK t \in IF r = "failed" THEN RetryIn(g, n) ELSE {Never} :
        retry' = [retry EXCEPT ![g] = t]
  BY DEF EndCall
<1>3. /\ t \in Times
      /\ t <= Longest + MaxSkew
      /\ t # Never => r = "failed" /\ HasRetry(n) /\ Enough(n, t)
  <2>1. CASE r = "failed"
    BY <1>1, <1>2, <2>1, RetryRange
  <2>2. CASE r # "failed"
    BY <1>2, <2>2, BackoffAssumption, AttemptsAssumption DEF Times, Never, Longest
  <2>. QED
    BY <2>1, <2>2
<1>4. /\ UNCHANGED <<attempt, wait, prev>>
      /\ quiet' = 0
      /\ pc'[g] = "record" /\ res'[g] = r /\ retry'[g] = t
      /\ \A h \in Goroutines \ {g} : pc'[h] = pc[h] /\ retry'[h] = retry[h]
  BY <1>2 DEF EndCall, table, IInv, TypeOK
<1>5. \A h \in Goroutines \ {g} : ~InFlight(h) /\ ~InFlight(h)'
  BY <1>1, <1>4 DEF InFlight, IInv, Ladder, Flights
<1>6. Rungs'
  BY <1>4 DEF IInv, Ladder, Rungs
<1>7. Flights'
  <2>1. Number(g)' = n /\ attempt'[n] = "pending"
    BY <1>1, <1>4 DEF Number, IInv, Ladder, Flights
  <2>. QED
    BY <1>3, <1>4, <1>5, <2>1 DEF Flights
<1>8. Paced'
  <2>1. \A m \in Numbers : ~(wait'[m] # Never /\ attempt'[m + 1] = "none")
    BY <1>1, <1>4, FlightIsLast DEF IInv, Ladder, Rungs
  <2>2. Enough(n, quiet' + retry'[g]) \/ retry'[g] = Never
    <3>1. quiet' + retry'[g] = t
      BY <1>3, <1>4 DEF Times, Never
    <3>. QED
      BY <1>3, <1>4, <3>1
  <2>3. \A h \in Goroutines : (pc[h] = "record" /\ retry[h] # Never =>
                                 Enough(Number(h), quiet + retry[h]))'
    BY <1>4, <1>5, <2>2 DEF InFlight, Number, Enough
  <2>4. ASSUME NEW h \in Goroutines, prev'[h] > 0
        PROVE  attempt'[prev'[h] + 1] # "none" /\ pc'[h] # "send"
    <3>1. prev[h] \in Numbers /\ attempt[prev[h]] = "failed"
      BY <1>4, <2>4, BackoffAssumption DEF IInv, TypeOK, Ladder, Rungs, Numbers
    <3>. QED
      BY <1>1, <1>4, <1>5, <3>1, FlightIsLast DEF InFlight
  <2>. QED
    BY <2>1, <2>3, <2>4 DEF Paced, Number
<1>9. Capping'
  BY <1>3, <1>4 DEF IInv, Capping
<1>. QED
  BY <1>6, <1>7, <1>8, <1>9 DEF IInv, Ladder

LEMMA RecordInv ==
  ASSUME IInv, TypeOK', NEW g \in Goroutines, RecordResult(g)
  PROVE  IInv'
<1>. DEFINE n == Number(g)
<1>1. n \in Numbers /\ InFlight(g) /\ pc[g] = "record" /\ attempt[n] = "pending"
  BY BackoffAssumption
  DEF IInv, TypeOK, Number, Numbers, InFlight, RecordResult, Ladder, Flights
<1>2. /\ \A m \in Numbers : attempt'[m] = IF m = n THEN res[g] ELSE attempt[m]
      /\ \A m \in Numbers : wait'[m] = IF m = n THEN retry[g] ELSE wait[m]
      /\ quiet' = quiet
  BY <1>1 DEF RecordResult, IInv, TypeOK
<1>3. /\ pc'[g] \in {"idle", "clear"} /\ prev'[g] \in {0, prev[g]}
      /\ retry'[g] \in {retry[g], Never}
      /\ \A h \in Goroutines \ {g} : /\ pc'[h] = pc[h] /\ prev'[h] = prev[h]
                                     /\ retry'[h] = retry[h]
  BY DEF RecordResult, Leave, Return, Goto, IInv, TypeOK
<1>4. \A h \in Goroutines : ~InFlight(h)'
  BY <1>1, <1>3 DEF InFlight, IInv, Ladder, Flights
<1>5. /\ res[g] # "none"
      /\ retry[g] # Never => res[g] = "failed" /\ HasRetry(n)
      /\ retry[g] # Never => Enough(n, quiet + retry[g])
  BY <1>1 DEF IInv, Ladder, Flights, Paced
<1>6. \A h \in Goroutines : prev'[h] > 0 =>
        /\ prev[h] = prev'[h] /\ prev[h] \in Numbers /\ prev[h] # n
        /\ attempt[prev[h]] = "failed" /\ HasRetry(prev[h])
  <2>1. \A h \in Goroutines : prev'[h] > 0 => prev[h] = prev'[h] /\ prev[h] > 0
    BY <1>3
  <2>2. \A h \in Goroutines : prev[h] > 0 =>
          /\ attempt[prev[h]] = "failed" /\ HasRetry(prev[h])
          /\ prev[h] \in 0 .. MaxRetries
    BY DEF IInv, TypeOK, Ladder, Rungs
  <2>3. \A h \in Goroutines : prev[h] > 0 => prev[h] \in Numbers
    BY <2>2, BackoffAssumption DEF Numbers
  <2>. QED
    BY <1>1, <2>1, <2>2, <2>3
<1>7. Rungs'
  <2>1. ASSUME NEW m \in Numbers, attempt'[m] # "none", NEW k \in 1 .. (m - 1)
        PROVE  attempt'[k] = "failed"
    <3>1. k \in Numbers /\ k < m
      BY <2>1, BackoffAssumption DEF Numbers
    <3>2. CASE m > n
      <4>1. n \in 1 .. (m - 1) /\ attempt[m] # "none"
        BY <1>1, <1>2, <2>1, <3>2, BackoffAssumption DEF Numbers
      <4>. QED
        BY <1>1, <4>1 DEF IInv, Ladder, Rungs
    <3>3. CASE m <= n
      <4>1. k \in 1 .. (n - 1) /\ k # n
        BY <1>1, <3>1, <3>3, <2>1, BackoffAssumption DEF Numbers
      <4>. QED
        BY <1>1, <1>2, <3>1, <4>1 DEF IInv, Ladder, Rungs
    <3>. QED
      BY <1>1, <3>2, <3>3, BackoffAssumption DEF Numbers
  <2>2. \A m \in Numbers : wait'[m] # Never =>
          attempt'[m] = "failed" /\ HasRetry(m)
    BY <1>2, <1>5 DEF IInv, Ladder, Rungs
  <2>3. \A h \in Goroutines : prev'[h] > 0 =>
          attempt'[prev'[h]] = "failed" /\ HasRetry(prev'[h])
    BY <1>2, <1>6
  <2>. QED
    BY <2>1, <2>2, <2>3 DEF Rungs
<1>8. Flights'
  BY <1>4 DEF Flights
<1>9. Paced'
  <2>1. ASSUME NEW m \in Numbers, m # n, attempt[m] = "failed"
        PROVE  attempt'[m + 1] # "none"
    BY <1>1, <1>2, <1>5, <2>1, FlightIsLast
  <2>2. \A m \in Numbers : wait'[m] # Never /\ attempt'[m + 1] = "none" =>
          Enough(m, quiet' + wait'[m])
    <3>1. ASSUME NEW m \in Numbers, wait'[m] # Never, attempt'[m + 1] = "none"
          PROVE  Enough(m, quiet' + wait'[m])
      <4>1. m = n
        BY <1>2, <2>1, <3>1 DEF IInv, Ladder, Rungs
      <4>. QED
        BY <1>2, <1>5, <3>1, <4>1
    <3>. QED
      BY <3>1
  <2>3. \A h \in Goroutines : pc'[h] \notin {"record", "send"}
    BY <1>4 DEF InFlight
  <2>4. \A h \in Goroutines : prev'[h] > 0 => attempt'[prev'[h] + 1] # "none"
    BY <1>6, <2>1
  <2>. QED
    BY <2>2, <2>3, <2>4 DEF Paced, Enough, Number
<1>10. Capping'
  BY <1>2, <1>3, BackoffAssumption, AttemptsAssumption
  DEF IInv, Capping, Never, Longest
<1>. QED
  BY <1>7, <1>8, <1>9, <1>10 DEF IInv, Ladder

(* The attempt that was retried had failed before: only its wait changes.   *)
LEMMA ClearInv ==
  ASSUME IInv, TypeOK', NEW g \in Goroutines, ClearRetry(g)
  PROVE  IInv'
<1>1. \A m \in Numbers : attempt'[m] = attempt[m] /\ wait'[m] \in {wait[m], Never}
  <2>1. CASE prev[g] = 0
    BY <2>1, BackoffAssumption DEF ClearRetry, IInv, TypeOK, Numbers
  <2>2. CASE prev[g] # 0
    <3>1. prev[g] > 0
      BY <2>2, BackoffAssumption DEF IInv, TypeOK
    <3>2. attempt[prev[g]] = "failed"
      BY <3>1 DEF IInv, Ladder, Rungs
    <3>. QED
      BY <3>2 DEF ClearRetry, IInv, TypeOK
  <2>. QED
    BY <2>1, <2>2
<1>2. attempt' = attempt
  BY <1>1 DEF IInv, TypeOK
<1>3. /\ quiet' = quiet
      /\ pc'[g] = "idle" /\ prev'[g] = 0 /\ retry'[g] = Never
      /\ \A h \in Goroutines \ {g} : /\ pc'[h] = pc[h] /\ prev'[h] = prev[h]
                                     /\ res'[h] = res[h] /\ retry'[h] = retry[h]
  BY DEF ClearRetry, Return, IInv, TypeOK
<1>4. Rungs'
  BY <1>1, <1>2, <1>3 DEF IInv, Ladder, Rungs
<1>5. Flights'
  BY <1>2, <1>3 DEF IInv, Ladder, Flights, InFlight, Number
<1>6. Paced'
  <2>1. \A m \in Numbers : (wait[m] # Never /\ attempt[m + 1] = "none" =>
          Enough(m, quiet + wait[m]))'
    BY <1>1, <1>2, <1>3 DEF IInv, Ladder, Paced, Enough
  <2>2. \A h \in Goroutines :
          /\ (pc[h] = "record" /\ retry[h] # Never =>
                Enough(Number(h), quiet + retry[h]))'
          /\ (prev[h] > 0 /\ (attempt[Number(h)] = "none" \/ pc[h] = "send") =>
                Enough(prev[h], quiet))'
    BY <1>2, <1>3 DEF IInv, Ladder, Paced, Enough, Number
  <2>. QED
    BY <2>1, <2>2 DEF Paced
<1>7. Capping'
  BY <1>1, <1>3, BackoffAssumption, AttemptsAssumption
  DEF IInv, Capping, Never, Longest
<1>. QED
  BY <1>4, <1>5, <1>6, <1>7 DEF IInv, Ladder

LEMMA MoreIsEnough ==
  ASSUME NEW n \in Numbers, n <= MaxRetries, NEW s \in Int, NEW t \in Int,
         s <= t, Enough(n, s)
  PROVE  Enough(n, t)
  BY ShortestIsInteger, AttemptsAssumption DEF Enough

(* What is taken from a wait is added to the silence.                       *)
LEMMA TickInv == ASSUME IInv, TypeOK', Tick PROVE IInv'
<1>1. /\ UNCHANGED <<attempt, pc, prev, res>>
      /\ \A m \in Numbers : wait'[m] = Left(wait[m])
      /\ \A h \in Goroutines : retry'[h] = Left(retry[h])
      /\ quiet' = IF quiet < Longest THEN quiet + 1 ELSE quiet
      /\ quiet \in Nat
  BY DEF Tick, IInv, TypeOK
<1>2. ASSUME NEW n \in Numbers, HasRetry(n), NEW t \in Times, t # Never,
             Enough(n, quiet + t)
      PROVE  Enough(n, quiet' + Left(t))
  <2>1. n <= MaxRetries /\ Longest \in Nat
    BY <1>2, LongestIsEnough, BackoffAssumption DEF HasRetry, Numbers
  <2>2. CASE quiet < Longest
    <3>1. quiet + t <= quiet' + Left(t) /\ quiet + t \in Int /\ quiet' + Left(t) \in Int
      BY <1>1, <1>2, <2>1, <2>2 DEF Left, Times, Never
    <3>. QED
      BY <1>2, <2>1, <3>1, MoreIsEnough
  <2>3. CASE quiet >= Longest
    <3>1. Longest <= quiet' + Left(t) /\ quiet' + Left(t) \in Int
      BY <1>1, <1>2, <2>1, <2>3 DEF Left, Times, Never
    <3>. QED
      BY <2>1, <3>1, MoreIsEnough, LongestIsEnough
  <2>. QED
    BY <1>1, <2>1, <2>2, <2>3
<1>3. \A t \in Times : Left(t) # Never => t # Never
  BY DEF Left, Times, Never
<1>4. Rungs'
  BY <1>1, <1>3 DEF IInv, TypeOK, Ladder, Rungs
<1>5. Flights'
  BY <1>1, <1>3 DEF IInv, TypeOK, Ladder, Flights, InFlight, Number
<1>6. Paced'
  <2>1. \A m \in Numbers : (wait[m] # Never /\ attempt[m + 1] = "none" =>
          Enough(m, quiet + wait[m]))'
    <3>1. ASSUME NEW m \in Numbers, wait'[m] # Never, attempt'[m + 1] = "none"
          PROVE  Enough(m, quiet' + wait'[m])
      <4>1. wait[m] \in Times /\ wait[m] # Never
        BY <1>1, <1>3, <3>1 DEF IInv, TypeOK
      <4>2. HasRetry(m) /\ Enough(m, quiet + wait[m])
        BY <1>1, <3>1, <4>1 DEF IInv, Ladder, Rungs, Paced
      <4>. QED
        BY <1>1, <1>2, <4>1, <4>2
    <3>. QED
      BY <3>1 DEF Enough
  <2>2. ASSUME NEW h \in Goroutines, pc'[h] = "record", retry'[h] # Never
        PROVE  Enough(Number(h)', quiet' + retry'[h])
    <3>1. retry[h] \in Times /\ retry[h] # Never
      BY <1>1, <1>3, <2>2 DEF IInv, TypeOK
    <3>2. HasRetry(Number(h)) /\ Enough(Number(h), quiet + retry[h])
      BY <1>1, <2>2, <3>1 DEF IInv, Ladder, Flights, Paced, InFlight
    <3>3. Number(h) \in Numbers /\ Number(h)' = Number(h)
      BY <1>1, BackoffAssumption DEF IInv, TypeOK, Number, Numbers
    <3>. QED
      BY <1>1, <1>2, <3>1, <3>2, <3>3
  <2>3. ASSUME NEW h \in Goroutines, prev'[h] > 0,
               attempt'[Number(h)'] = "none" \/ pc'[h] = "send"
        PROVE  Enough(prev'[h], quiet')
    <3>1. prev[h] > 0 /\ HasRetry(prev[h]) /\ Enough(prev[h], quiet)
      BY <1>1, <2>3 DEF IInv, Ladder, Rungs, Paced, Number
    <3>2. prev[h] \in Numbers
      BY <3>1, BackoffAssumption DEF IInv, TypeOK, Numbers
    <3>3. quiet + 0 = quiet /\ quiet' + Left(0) = quiet' /\ 0 \in Times /\ 0 # Never
      BY <1>1, <3>2, LongestIsEnough, BackoffAssumption DEF Left, Times, Never
    <3>. QED
      BY <1>1, <1>2, <3>1, <3>2, <3>3
  <2>. QED
    BY <2>1, <2>2, <2>3 DEF Paced, Enough
<1>7. Capping'
  BY <1>1, BackoffAssumption, AttemptsAssumption
  DEF IInv, TypeOK, Capping, Left, Times, Never, Longest
<1>. QED
  BY <1>4, <1>5, <1>6, <1>7 DEF IInv, Ladder

LEMMA StepInv == ASSUME IInv, NEW g \in Goroutines, Step(g) PROVE IInv'
<1>1. TypeOK'
  BY StepType
<1>2. CASE Fanout(g)
  <2>1. Quiet(g)
    BY <1>2 DEF Fanout, Goto, Quiet, table, IInv, TypeOK
  <2>. QED  BY <1>1, <2>1, QuietStep
<1>3. CASE ListRetryable(g)
  <2>1. PICK n \in Numbers : Due(n) /\ prev' = [prev EXCEPT ![g] = n]
    BY <1>3 DEF ListRetryable
  <2>2. Quiet(g)
    BY <1>3, <2>1 DEF ListRetryable, Quiet, table, IInv, TypeOK
  <2>. QED  BY <1>1, <2>2, QuietStep
<1>4. CASE RunSource(g)
  <2>1. Quiet(g)
    BY <1>4 DEF RunSource, Goto, Quiet, table, IInv, TypeOK
  <2>. QED  BY <1>1, <2>1, QuietStep
<1>5. CASE Filtered(g)
  <2>1. Quiet(g)
    BY <1>5 DEF Filtered, Goto, Return, Quiet, table, IInv, TypeOK
  <2>. QED  BY <1>1, <2>1, QuietStep
<1>6. CASE Transform(g)
  <2>1. Quiet(g)
    BY <1>6 DEF Transform, Goto, Quiet, table, IInv, TypeOK
  <2>. QED  BY <1>1, <2>1, QuietStep
<1>7. CASE Transformed(g)
  <2>1. Quiet(g)
    BY <1>7 DEF Transformed, Leave, Goto, Return, Quiet, table, IInv, TypeOK
  <2>. QED  BY <1>1, <2>1, QuietStep
<1>8. CASE CreateAttempt(g)
  BY <1>1, <1>8, CreateInv
<1>9. CASE Dispatch(g)
  <2>1. CASE Refuse(g)
    BY <1>1, <1>9, <2>1, EndCallInv DEF Dispatch, Refuse
  <2>2. CASE Post(g) \/ Mail(g) \/ Process(g)
    <3>1. Goto(g, "answer") /\ UNCHANGED quiet
      BY <2>2 DEF Post, Mail, Process
    <3>2. Quiet(g)
      BY <1>9, <3>1 DEF Dispatch, Goto, Quiet, table, IInv, TypeOK
    <3>. QED  BY <1>1, <3>2, QuietStep
  <2>. QED
    BY <1>9, <2>1, <2>2 DEF Dispatch
<1>10. CASE Answer(g)
  <2>1. PICK r \in {"success", "failed"} : EndCall(g, r)
    BY <1>10 DEF Answer, Responds, Mailed, Processed
  <2>. QED
    BY <1>1, <1>10, <2>1, EndCallInv DEF Answer
<1>11. CASE RecordResult(g)
  BY <1>1, <1>11, RecordInv
<1>12. CASE ClearRetry(g)
  BY <1>1, <1>12, ClearInv
<1>. QED
  BY <1>2, <1>3, <1>4, <1>5, <1>6, <1>7, <1>8, <1>9, <1>10, <1>11, <1>12 DEF Step

LEMMA Inductive == IInv /\ [Next]_vars => IInv'
<1>. SUFFICES ASSUME IInv, [Next]_vars PROVE IInv'
  OBVIOUS
<1>1. CASE Tick
  BY <1>1, OtherType, TickInv
<1>2. ASSUME NEW g \in Goroutines, Step(g) PROVE IInv'
  BY <1>2, StepInv
<1>3. ASSUME UNCHANGED <<table, quiet, locals>>, TypeOK' PROVE IInv'
  BY <1>3 DEF IInv, table, locals, Ladder, Rungs, Flights, InFlight, Paced, Capping,
              Number, Enough
<1>4. ASSUME NEW g \in Goroutines, Run(g) PROVE IInv'
  BY <1>3, <1>4, OtherType DEF Run, table, locals
<1>5. ASSUME NEW g \in Goroutines, Crash(g) PROVE IInv'
  <2>1. Quiet(g)
    BY <1>5 DEF Crash, Return, Quiet, table, IInv, TypeOK
  <2>. QED
    BY <1>5, <2>1, OtherType, QuietStep
<1>6. CASE UNCHANGED vars
  BY <1>3, <1>6, OtherType DEF vars, table, locals
<1>. QED
  BY <1>1, <1>2, <1>4, <1>5, <1>6 DEF Next

LEMMA Invariance == Spec => []IInv
  BY InitInv, Inductive, PTL DEF Spec

-----------------------------------------------------------------------------
(* The theorems                                                             *)

(* Every variable has its type, and a script's machine and outcome have     *)
(* somebody who waits for them: no goroutine looks at the outcome of a run  *)
(* that was not its own.                                                    *)
THEOREM TypeCorrect == Spec => []TypeOK
  BY Invariance, PTL DEF IInv

(* The ladder of attempts, in time: no gaps, only failures below the top,   *)
(* one call at a time, and silence before the next.                         *)
THEOREM LadderInvariant == Spec => []Ladder
  BY Invariance, PTL DEF IInv

(* No retry is put off for longer than five minutes, a quarter of them for  *)
(* the jitter, and the skew: whatever the product in nextRetryTime does.    *)
THEOREM CappedRetries == Spec => []Capping
  BY Invariance, PTL DEF IInv

(* A retry never comes sooner after the call before than the delay without  *)
(* its jitter's quarter, less the skew.                                     *)
THEOREM SpacedCalls == Spec => Spacing
<1>1. ASSUME IInv, NEW g \in Goroutines,
             pc[g] = "send", prev[g] > 0, Fits(prev[g])
      PROVE  quiet >= Shortest(prev[g]) - MaxSkew
  BY <1>1 DEF IInv, Ladder, Paced, Enough
<1>2. IInv /\ [Next]_vars =>
        [\A g \in Goroutines :
           pc[g] = "send" /\ pc'[g] = "answer" /\ prev[g] > 0 /\ Fits(prev[g])
             => quiet >= Shortest(prev[g]) - MaxSkew]_vars
  BY <1>1
<1>. QED
  BY <1>2, Invariance, PTL DEF Spec, Spacing
=============================================================================
