----------------------------- MODULE WalkForward -----------------------------
(***************************************************************************)
(* The windows of a walk forward (internal/backtest/walkforward.go): every *)
(* fold chooses its parameters on some months of data and evaluates them   *)
(* on the months that follow.  A month is its place among the months that  *)
(* have a bar (monthsOf); what is simulated on them is Backtest.           *)
(***************************************************************************)
EXTENDS Integers

WithDefaults(w) ==
    LET test == IF w.test <= 0 THEN 6 ELSE w.test
    IN  [train |-> IF w.train <= 0 THEN 24 ELSE w.train,
         test |-> test,
         step |-> IF w.step <= 0 THEN test ELSE w.step]

(* Where the folds start, among n months.                                   *)
Starts(n, w) == {k \in {i * w.step : i \in 0..n} : k + w.train + w.test <= n}

TrainMonths(k, w) == (k + 1)..(k + w.train)

(* Variant: the test begins with the last month of the training.            *)
TestMonthsTooEarly(k, w) == (k + w.train)..(k + w.train + w.test - 1)

TestMonths(k, w) == (k + w.train + 1)..(k + w.train + w.test)

(* sliceBarsByMonths: the days of these months, by the month of each day.   *)
Slice(month, months) == {d \in DOMAIN month : month[d] \in months}

-----------------------------------------------------------------------------
(* No parameters are tried on a day they were chosen on or before it: the   *)
(* test of a fold lies after its training.  Unless the step is shorter than *)
(* the test, tests follow one another, so that no day counts twice in the   *)
(* equity they are chained to; with the default step none is skipped, until *)
(* the months no longer fill a test.                                        *)
TestsFollowTraining(month, n, given) ==
    LET w == WithDefaults(given)
        train(k) == Slice(month, TrainMonths(k, w))
        test(k) == Slice(month, TestMonths(k, w))
    IN  /\ \A k \in Starts(n, w), d, e \in DOMAIN month : d \in train(k) /\ e \in test(k) => d < e
        /\ w.step >= w.test =>
             \A j, k \in Starts(n, w) : j < k => \A d \in test(j), e \in test(k) : d < e
        /\ given.step <= 0 =>
             \A d \in DOMAIN month :
                \/ month[d] <= w.train \/ n - month[d] < w.test
                \/ \E k \in Starts(n, w) : d \in test(k)
=============================================================================
