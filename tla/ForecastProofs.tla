---------------------------- MODULE ForecastProofs ----------------------------
(***************************************************************************)
(* Theorems of Forecast, for every contract, every order in which points   *)
(* reach Prometheus and every clock: each value in an answer is of the     *)
(* instant it is shown at, the guardrails are those of the same instants,  *)
(* and the forecast is made of the history that is shown.                  *)
(***************************************************************************)
EXTENDS Forecast, SequenceTheorems, TLAPS

-----------------------------------------------------------------------------
(* The inductive invariant.                                                *)

\* The instant of the k-th of n points up to the origin.
At(k, n) == origin - (n - k) * option.step

\* A series of n points as a query found it: each is of its instant, or missing, and what
\* there was when the request came is not missing.
Aligned(series, metric, n, missing) ==
  /\ series \in Seq(Int) /\ Len(series) = n
  /\ \A k \in 1..n : /\ series[k] \in {At(k, n), missing}
                     /\ At(k, n) \in known[metric] => series[k] = At(k, n)

ClockInv ==
  /\ now \in 0..MaxTime /\ origin \in 0..MaxTime /\ origin <= now
  /\ origin % option.step = 0

PointsInv ==
  /\ points \in [Metrics(option) -> SUBSET (0..MaxTime)]
  /\ \A m \in Metrics(option) : known[m] \subseteq points[m]

SeriesInv ==
  /\ history \in Seq(Seq(Int)) /\ Len(history) <= Len(option.features)
  /\ \A f \in 1..Len(history) : Aligned(history[f], option.features[f], option.lookback, 0)
  /\ observed \in Seq(Seq(Int)) /\ Len(observed) <= Len(option.guardrails)
  /\ \A g \in 1..Len(observed) : Aligned(observed[g], option.guardrails[g], option.horizon, None)

\* What is known of a request at each of its steps.
ControlInv ==
  /\ pc \in {"idle", "fetch", "model", "done"}
  /\ pc = "idle" => history = <<>> /\ observed = <<>>
  /\ pc \in {"idle", "fetch", "model"} => answer = NoAnswer
  /\ pc = "model" =>
       Fetched /\ option.model = "linear_regression" /\ HasRows /\ sent = ModelRows
  /\ answer.status \in {"none", "ok", "error"}

\* The predictions are those of the rows; the rows of a model are the first it answered with
\* to the history it was given, and those made here follow the origin step by step.
FollowOn(predictions, rows, replies) ==
  /\ Len(predictions) = option.horizon
  /\ rows # <<>> /\ option.target \in RowMetrics =>
       [i \in 1..option.horizon |-> rows[i].values[option.target]] = predictions
  /\ option.model = "linear_regression" =>
       HasRows /\ sent = ModelRows /\ rows = [i \in 1..option.horizon |-> replies[i]]
  /\ option.model = "last_value" =>
       \A i \in DOMAIN rows : HasRows /\ rows[i].at = origin + i * option.step

\* The answer is about the series that were fetched, and its forecast follows them.
AnswerInv ==
  Answered =>
    /\ pc = "done" /\ Fetched
    /\ answer.at = origin /\ answer.history_rows = HistoryRows /\ answer.observed = observed
    /\ FollowOn(answer.predictions, answer.prediction_rows, served)

IInv ==
  /\ option \in Options
  /\ ClockInv /\ PointsInv /\ SeriesInv /\ ControlInv /\ AnswerInv

-----------------------------------------------------------------------------
(* Arithmetic.                                                             *)

LEMMA InstantOf ==
  ASSUME NEW o \in Int, NEW s \in Int, NEW n \in Int, NEW k \in Int
  PROVE  (o - s * (n - 1)) + (k - 1) * s = o - (n - k) * s
OBVIOUS

LEMMA WholeSteps ==
  ASSUME NEW t \in Nat, NEW d \in Nat \ {0}
  PROVE  (t \div d) * d \in 0..t /\ ((t \div d) * d) % d = 0
OBVIOUS

LEMMA OptionIs ==
  ASSUME option \in Options
  PROVE  /\ option.lookback \in Nat \ {0} /\ option.horizon \in Nat \ {0}
         /\ option.step \in Nat \ {0} /\ option.step <= MaxTime /\ MaxTime \in Nat
         /\ option.features \in Seq(STRING) /\ option.guardrails \in Seq(STRING)
         /\ option.features # <<>>
         /\ Len(option.features) \in Nat \ {0} /\ Len(option.guardrails) \in Nat
         /\ DOMAIN option.features = 1..Len(option.features)
         /\ DOMAIN option.guardrails = 1..Len(option.guardrails)
         /\ \A f \in 1..Len(option.features) : option.features[f] \in Metrics(option)
         /\ \A g \in 1..Len(option.guardrails) : option.guardrails[g] \in Metrics(option)
<1>1. /\ option.lookback \in Nat \ {0} /\ option.horizon \in Nat \ {0}
      /\ option.step \in Nat \ {0} /\ option.step <= MaxTime /\ MaxTime \in Nat
      /\ option.features \in Seq(STRING) /\ option.guardrails \in Seq(STRING)
      /\ option.features # <<>>
  BY OptionsAssumption DEF OptionsAssumption
<1>2. /\ Len(option.features) \in Nat \ {0} /\ Len(option.guardrails) \in Nat
      /\ DOMAIN option.features = 1..Len(option.features)
      /\ DOMAIN option.guardrails = 1..Len(option.guardrails)
  BY <1>1, LenProperties, EmptySeq
<1>3. QED
  BY <1>1, <1>2 DEF Metrics, ToSet

-----------------------------------------------------------------------------
(* A query.                                                                *)

LEMMA QueryAligned ==
  ASSUME option \in Options, ClockInv, PointsInv, NEW metric \in Metrics(option),
         NEW n \in Nat \ {0}, NEW missing \in Int
  PROVE  Aligned(QueryRange(metric, WindowStart(n), n, missing), metric, n, missing)
<1> DEFINE series == QueryRange(metric, WindowStart(n), n, missing)
<1>1. option.step \in Int /\ origin \in Int /\ MaxTime \in Nat
  BY OptionIs DEF ClockInv
<1>2. \A k \in 1..n : WindowStart(n) + (k - 1) * option.step = At(k, n) /\ At(k, n) \in Int
  <2> TAKE k \in 1..n
  <2>1. k \in Int /\ n \in Int
    OBVIOUS
  <2>2. QED
    BY <1>1, <2>1, InstantOf DEF WindowStart, At
<1>3. \A k \in 1..n : series[k] = IF At(k, n) \in points[metric] THEN At(k, n) ELSE missing
  BY <1>2 DEF QueryRange
<1>4. series \in [1..n -> Int]
  BY <1>2 DEF QueryRange
<1>5. series \in Seq(Int) /\ Len(series) = n
  BY <1>4
<1>6. known[metric] \subseteq points[metric]
  BY DEF PointsInv
<1> HIDE DEF series
<1>7. QED
  BY <1>3, <1>5, <1>6 DEF Aligned, series

-----------------------------------------------------------------------------
(* The steps.                                                              *)

LEMMA IInvInit == Init => IInv
<1> SUFFICES ASSUME Init PROVE IInv
  OBVIOUS
<1>1. option \in Options
  BY DEF Init
<1>2. ClockInv
  <2>1. 0 % option.step = 0
    BY <1>1, OptionIs
  <2>2. QED
    BY <1>1, <2>1, OptionIs DEF Init, ClockInv
<1>3. PointsInv
  BY DEF Init, PointsInv
<1>4. SeriesInv
  BY <1>1, OptionIs DEF Init, SeriesInv
<1>5. ControlInv /\ AnswerInv
  BY DEF Init, ControlInv, AnswerInv, Answered, NoAnswer
<1>6. QED
  BY <1>1, <1>2, <1>3, <1>4, <1>5 DEF IInv

\* A step that leaves the series and the origin alone keeps what is known of them.
LEMMA SeriesSame ==
  ASSUME SeriesInv, UNCHANGED <<history, observed, option, origin, known>>
  PROVE  SeriesInv'
BY DEF SeriesInv, Aligned, At

LEMMA ReceiveStep ==
  ASSUME IInv, Receive
  PROVE  IInv'
<1>1. option \in Options /\ option' = option
  BY DEF IInv, Receive
<1>2. ClockInv'
  <2>1. now \in Nat /\ now <= MaxTime /\ option.step \in Nat \ {0} /\ MaxTime \in Nat
    BY <1>1, OptionIs DEF IInv, ClockInv
  <2>2. origin' \in 0..now /\ origin' % option.step = 0
    BY <2>1, WholeSteps DEF Receive, AlignedNow
  <2>3. QED
    BY <2>1, <2>2 DEF Receive, IInv, ClockInv
<1>3. PointsInv'
  BY DEF Receive, IInv, PointsInv
<1>4. SeriesInv'
  BY <1>1, OptionIs DEF Receive, IInv, ControlInv, SeriesInv
<1>5. ControlInv' /\ AnswerInv'
  BY DEF Receive, IInv, ControlInv, AnswerInv, Answered, NoAnswer
<1>6. QED
  BY <1>1, <1>2, <1>3, <1>4, <1>5 DEF IInv

LEMMA FetchStep ==
  ASSUME IInv, Fetch
  PROVE  IInv'
<1>1. /\ option \in Options /\ pc = "fetch" /\ answer = NoAnswer /\ ClockInv /\ PointsInv
      /\ UNCHANGED <<now, points, option, pc, origin, known, sent, served, answer>>
      /\ history \in Seq(Seq(Int)) /\ observed \in Seq(Seq(Int)) /\ SeriesInv
  BY DEF IInv, Fetch, ControlInv, SeriesInv
<1>2. SeriesInv'
  <2>1. CASE Len(history) < Len(option.features)
    <3> DEFINE f == Len(history) + 1
               series == QueryRange(option.features[f], WindowStart(option.lookback),
                                    option.lookback, 0)
    <3>1. f \in 1..Len(option.features) /\ Len(history) \in Nat
      BY <1>1, <2>1, LenProperties, OptionIs
    <3>2. Aligned(series, option.features[f], option.lookback, 0)
      BY <1>1, <3>1, QueryAligned, OptionIs
    <3>3. history' = Append(history, series) /\ observed' = observed
      BY <1>1, <2>1 DEF Fetch
    <3> HIDE DEF series
    <3>4. series \in Seq(Int)
      BY <3>2 DEF Aligned
    <3>5. /\ history' \in Seq(Seq(Int)) /\ Len(history') = f
          /\ \A i \in 1..Len(history) : history'[i] = history[i]
          /\ history'[f] = series
      BY <1>1, <3>3, <3>4, AppendProperties
    <3>6. \A i \in 1..Len(history') :
            Aligned(history'[i], option.features[i], option.lookback, 0)
      <4> TAKE i \in 1..Len(history')
      <4>1. i \in 1..Len(history) \/ i = f
        BY <3>1, <3>5
      <4>2. QED
        BY <1>1, <3>2, <3>5, <4>1 DEF SeriesInv
    <3>7. \A i \in 1..Len(history') :
            Aligned(history[i], option.features[i], option.lookback, 0)'
      BY <1>1, <3>6 DEF Aligned, At
    <3>8. \A i \in 1..Len(observed) :
            Aligned(observed[i], option.guardrails[i], option.horizon, None)'
      BY <1>1, <3>3 DEF SeriesInv, Aligned, At
    <3> HIDE DEF f
    <3>9. QED
      BY <1>1, <3>1, <3>3, <3>5, <3>7, <3>8 DEF SeriesInv
  <2>2. CASE ~(Len(history) < Len(option.features))
    <3> DEFINE g == Len(observed) + 1
               series == QueryRange(option.guardrails[g], WindowStart(option.horizon),
                                    option.horizon, None)
    <3>1. g \in 1..Len(option.guardrails) /\ Len(observed) \in Nat
      BY <1>1, <2>2, LenProperties, OptionIs DEF Fetch
    <3>2. Aligned(series, option.guardrails[g], option.horizon, None)
      <4>1. None \in Int
        BY DEF None
      <4>2. QED
        BY <1>1, <3>1, <4>1, QueryAligned, OptionIs
    <3>3. observed' = Append(observed, series) /\ history' = history
      BY <1>1, <2>2 DEF Fetch
    <3> HIDE DEF series
    <3>4. series \in Seq(Int)
      BY <3>2 DEF Aligned
    <3>5. /\ observed' \in Seq(Seq(Int)) /\ Len(observed') = g
          /\ \A i \in 1..Len(observed) : observed'[i] = observed[i]
          /\ observed'[g] = series
      BY <1>1, <3>3, <3>4, AppendProperties
    <3>6. \A i \in 1..Len(observed') :
            Aligned(observed'[i], option.guardrails[i], option.horizon, None)
      <4> TAKE i \in 1..Len(observed')
      <4>1. i \in 1..Len(observed) \/ i = g
        BY <3>1, <3>5
      <4>2. QED
        BY <1>1, <3>2, <3>5, <4>1 DEF SeriesInv
    <3>7. \A i \in 1..Len(observed') :
            Aligned(observed[i], option.guardrails[i], option.horizon, None)'
      BY <1>1, <3>6 DEF Aligned, At
    <3>8. \A i \in 1..Len(history) :
            Aligned(history[i], option.features[i], option.lookback, 0)'
      BY <1>1, <3>3 DEF SeriesInv, Aligned, At
    <3> HIDE DEF g
    <3>9. /\ history' \in Seq(Seq(Int)) /\ Len(history') <= Len(option'.features)
          /\ Len(observed') <= Len(option'.guardrails)
      BY <1>1, <3>1, <3>3, <3>5 DEF SeriesInv
    <3>10. QED
      BY <3>3, <3>5, <3>7, <3>8, <3>9 DEF SeriesInv
  <2>3. QED
    BY <2>1, <2>2
<1>3. ClockInv' /\ PointsInv'
  BY <1>1 DEF ClockInv, PointsInv, Metrics
<1>4. ControlInv' /\ AnswerInv'
  BY <1>1 DEF IInv, ControlInv, AnswerInv, Answered, NoAnswer
<1>5. QED
  BY <1>1, <1>2, <1>3, <1>4 DEF IInv

-----------------------------------------------------------------------------
(* The answer.                                                             *)

\* The series of a metric is the one that was fetched for it.
LEMMA SeriesIs ==
  ASSUME option \in Options, SeriesInv, Fetched, NEW m \in ToSet(option.features)
  PROVE  Aligned(Series(m), m, option.lookback, 0)
<1>1. PICK f \in DOMAIN option.features : option.features[f] = m
  BY DEF ToSet
<1>2. DOMAIN history = 1..Len(history) /\ DOMAIN option.features = 1..Len(option.features)
  BY OptionIs, LenProperties DEF SeriesInv
<1>3. \E i \in DOMAIN history : option.features[i] = m
  BY <1>1, <1>2 DEF Fetched
<1>4. PICK i \in DOMAIN history : option.features[i] = m /\ Series(m) = history[i]
  BY <1>3 DEF Series
<1>5. QED
  BY <1>2, <1>4 DEF SeriesInv

\* The rows of the history, when the contract has the three metrics.
LEMMA RowsAre ==
  ASSUME option \in Options, ClockInv, HasRows
  PROVE  /\ HistoryRows = [i \in 1..option.lookback |-> Row(At(i, option.lookback), i)]
         /\ Len(HistoryRows) = option.lookback
         /\ DOMAIN HistoryRows = 1..option.lookback
         /\ \A i \in 1..option.lookback :
              /\ HistoryRows[i] = Row(At(i, option.lookback), i)
              /\ HistoryRows[i].at = At(i, option.lookback)
              /\ \A m \in RowMetrics : HistoryRows[i].values[m] = Series(m)[i]
<1>1. option.lookback \in Nat \ {0} /\ option.step \in Int /\ origin \in Int
  BY OptionIs DEF ClockInv
<1>2. \A i \in 1..option.lookback :
        /\ WindowStart(option.lookback) + (i - 1) * option.step = At(i, option.lookback)
        /\ At(i, option.lookback) \in Int
  <2> TAKE i \in 1..option.lookback
  <2>1. i \in Int
    OBVIOUS
  <2>2. QED
    BY <1>1, <2>1, InstantOf DEF WindowStart, At
<1>3. HistoryRows = [i \in 1..option.lookback |-> Row(At(i, option.lookback), i)]
  BY <1>2 DEF HistoryRows
<1>4. /\ Len(HistoryRows) = option.lookback /\ DOMAIN HistoryRows = 1..option.lookback
      /\ \A i \in 1..option.lookback : HistoryRows[i] = Row(At(i, option.lookback), i)
  BY <1>1, <1>3
<1>5. \A i \in 1..option.lookback :
        LET row == Row(At(i, option.lookback), i)
        IN row.at = At(i, option.lookback) /\ \A m \in RowMetrics : row.values[m] = Series(m)[i]
  BY DEF Row
<1>6. QED
  BY <1>3, <1>4, <1>5

\* What the model is given is the history, the other way round.
LEMMA ModelGetsHistory ==
  ASSUME option \in Options, ClockInv, HasRows
  PROVE  Reverse(ModelRows) = HistoryRows
<1>1. option.lookback \in Nat \ {0} /\ option.step \in Int /\ origin \in Int
  BY OptionIs DEF ClockInv
<1>2. ModelRows = [i \in 1..option.lookback |->
                     Row(origin - (i - 1) * option.step, option.lookback - (i - 1))]
  BY DEF ModelRows
<1>3. Len(ModelRows) = option.lookback
  BY <1>1, <1>2
<1>4. \A i \in 1..option.lookback :
        /\ (option.lookback - i) + 1 \in 1..option.lookback
        /\ ModelRows[(option.lookback - i) + 1] = Row(At(i, option.lookback), i)
  <2> TAKE i \in 1..option.lookback
  <2> DEFINE j == (option.lookback - i) + 1
  <2>1. j \in 1..option.lookback /\ j - 1 = option.lookback - i
        /\ option.lookback - (j - 1) = i
    BY <1>1
  <2> HIDE DEF j
  <2>2. ModelRows[j] = Row(At(i, option.lookback), i)
    BY <1>2, <2>1 DEF At
  <2>3. QED
    BY <2>1, <2>2 DEF j
<1>5. Reverse(ModelRows) = [i \in 1..option.lookback |-> Row(At(i, option.lookback), i)]
  BY <1>3, <1>4 DEF Reverse
<1>6. HistoryRows = [i \in 1..option.lookback |-> Row(At(i, option.lookback), i)]
  BY RowsAre
<1>7. QED
  BY <1>5, <1>6

\* A request that ends: with an error, or with an answer about what was fetched.
LEMMA RespondStep ==
  ASSUME IInv, NEW result, Respond(result), pc \in {"fetch", "model"}, sent' = sent,
         \/ result = Failed
         \/ \E predictions, rows :
              result = Answer(predictions, rows) /\ Fetched /\ FollowOn(predictions, rows, served')
  PROVE  IInv'
<1>1. /\ option \in Options /\ ClockInv /\ PointsInv /\ SeriesInv /\ ControlInv
      /\ answer' = result /\ pc' = "done"
      /\ UNCHANGED <<now, points, option, origin, known, history, observed, sent>>
  BY DEF IInv, Respond
<1>2. ClockInv' /\ PointsInv' /\ SeriesInv'
  BY <1>1, SeriesSame DEF ClockInv, PointsInv, Metrics
<1>3. /\ Fetched' = Fetched /\ HasRows' = HasRows /\ ModelRows' = ModelRows
      /\ HistoryRows' = HistoryRows
  BY <1>1 DEF Fetched, HasRows, ModelRows, HistoryRows, Row, Series, WindowStart
<1>4. CASE result = Failed
  BY <1>1, <1>2, <1>4 DEF IInv, ControlInv, AnswerInv, Answered, Failed
<1>5. ASSUME NEW predictions, NEW rows, result = Answer(predictions, rows), Fetched,
             FollowOn(predictions, rows, served')
      PROVE  IInv'
  <2>1. /\ answer'.status = "ok" /\ answer'.at = origin /\ answer'.history_rows = HistoryRows
        /\ answer'.predictions = predictions /\ answer'.prediction_rows = rows
        /\ answer'.observed = observed
    BY <1>1, <1>5 DEF Answer
  <2>2. ControlInv'
    BY <1>1, <2>1 DEF ControlInv
  <2>3. AnswerInv'
    BY <1>1, <1>3, <1>5, <2>1 DEF AnswerInv, FollowOn
  <2>4. QED
    BY <1>1, <1>2, <2>2, <2>3 DEF IInv
<1>6. QED
  BY <1>4, <1>5

LEMMA PredictLocalStep ==
  ASSUME IInv, PredictLocal
  PROVE  IInv'
<1> DEFINE row(i) == [Row(origin, option.lookback) EXCEPT !.at = origin + i * option.step]
           predictions == [i \in 1..option.horizon |-> Last(Target)]
           rows == IF HasRows THEN [i \in 1..option.horizon |-> row(i)] ELSE <<>>
<1>1. /\ option \in Options /\ option.horizon \in Nat \ {0} /\ option.step \in Int
      /\ origin \in Int /\ SeriesInv /\ Fetched /\ option.model = "last_value"
      /\ option.lookback \in Nat \ {0}
  BY OptionIs DEF IInv, ClockInv, PredictLocal
<1>2. Len(predictions) = option.horizon
  BY <1>1
<1>3. ASSUME HasRows
      PROVE  /\ DOMAIN rows = 1..option.horizon
             /\ \A i \in 1..option.horizon : rows[i].at = origin + i * option.step
             /\ option.target \in RowMetrics =>
                  [i \in 1..option.horizon |-> rows[i].values[option.target]] = predictions
  <2>1. \A i \in 1..option.horizon :
          /\ rows[i].at = origin + i * option.step
          /\ \A m \in RowMetrics : rows[i].values[m] = Series(m)[option.lookback]
    BY <1>3 DEF Row
  <2>2. DOMAIN rows = 1..option.horizon
    BY <1>3
  <2>3. ASSUME option.target \in RowMetrics
        PROVE  Last(Target) = Series(option.target)[option.lookback]
    <3>1. option.target \in ToSet(option.features)
      BY <1>3, <2>3 DEF HasRows
    <3>2. Len(Series(option.target)) = option.lookback
      BY <1>1, <3>1, SeriesIs DEF Aligned
    <3>3. QED
      BY <3>1, <3>2 DEF Target, Last
  <2> HIDE DEF rows
  <2>4. QED
    BY <2>1, <2>2, <2>3
<1>4. /\ Respond(Answer(predictions, rows)) /\ pc = "fetch"
      /\ UNCHANGED <<option, origin, history, sent, served>>
  BY DEF PredictLocal, Respond
<1>5. ~HasRows => rows = <<>> /\ DOMAIN rows = {}
  OBVIOUS
<1> HIDE DEF rows, predictions
<1>6. FollowOn(predictions, rows, served')
  BY <1>1, <1>2, <1>3, <1>5 DEF FollowOn
<1>7. QED
  BY <1>1, <1>4, <1>6, RespondStep

LEMMA ReceiveLinearRegressionStep ==
  ASSUME IInv, NEW dates, ReceiveLinearRegression(dates)
  PROVE  IInv'
<1> DEFINE rows == [i \in 1..option.horizon |-> Served(dates)[i]]
           predictions == [i \in 1..option.horizon |-> rows[i].values[option.target]]
<1>1. /\ option \in Options /\ option.horizon \in Nat \ {0} /\ pc = "model" /\ Fetched
      /\ option.model = "linear_regression" /\ HasRows /\ sent = ModelRows
  BY OptionIs DEF IInv, ControlInv, ReceiveLinearRegression
<1>2. Len(predictions) = option.horizon
  BY <1>1
<1>3. served' = Served(dates) /\ sent' = sent
  BY DEF ReceiveLinearRegression
<1>4. Respond(IF option.target \notin RowMetrics \/ Len(dates) < option.horizon THEN Failed
              ELSE Answer(predictions, rows))
  BY <1>3 DEF ReceiveLinearRegression
<1>5. /\ [i \in 1..option.horizon |-> rows[i].values[option.target]] = predictions
      /\ rows = [i \in 1..option.horizon |-> served'[i]]
  BY <1>3
<1> HIDE DEF rows, predictions
<1>6. FollowOn(predictions, rows, served')
  BY <1>1, <1>2, <1>5 DEF FollowOn
<1>7. QED
  BY <1>1, <1>3, <1>4, <1>6, RespondStep

LEMMA SendLinearRegressionStep ==
  ASSUME IInv, SendLinearRegression
  PROVE  IInv'
<1>1. /\ option \in Options /\ ClockInv /\ PointsInv /\ SeriesInv /\ ControlInv
      /\ pc = "fetch" /\ Fetched /\ option.model = "linear_regression" /\ answer = NoAnswer
  BY DEF IInv, ControlInv, SendLinearRegression
<1>2. CASE HasRows
  <2>1. /\ sent' = ModelRows /\ pc' = "model"
        /\ UNCHANGED <<now, points, option, origin, known, history, observed, served, answer>>
    BY <1>2 DEF SendLinearRegression
  <2>2. ClockInv' /\ PointsInv' /\ SeriesInv'
    BY <1>1, <2>1, SeriesSame DEF ClockInv, PointsInv, Metrics
  <2>3. Fetched' = Fetched /\ HasRows' = HasRows /\ ModelRows' = ModelRows
    BY <2>1 DEF Fetched, HasRows, ModelRows, Row, Series
  <2>4. ControlInv' /\ AnswerInv'
    BY <1>1, <1>2, <2>1, <2>3 DEF ControlInv, AnswerInv, Answered, NoAnswer
  <2>5. QED
    BY <1>1, <2>1, <2>2, <2>4 DEF IInv
<1>3. CASE ~HasRows
  <2>1. Respond(Failed) /\ sent' = sent
    BY <1>3 DEF SendLinearRegression
  <2>2. QED
    BY <1>1, <2>1, RespondStep
<1>4. QED
  BY <1>2, <1>3

LEMMA PredictLegacyStep ==
  ASSUME IInv, NEW n, PredictLegacy(n)
  PROVE  IInv'
<1> DEFINE predictions == [i \in 1..option.horizon |-> <<option.target, i>>]
<1>1. /\ option \in Options /\ option.horizon \in Nat \ {0}
      /\ pc = "fetch" /\ Fetched /\ option.model = "legacy" /\ sent' = sent
      /\ Respond(IF n < option.horizon THEN Failed ELSE Answer(predictions, <<>>))
  BY OptionIs DEF IInv, PredictLegacy
<1>2. Len(predictions) = option.horizon
  BY <1>1
<1> HIDE DEF predictions
<1>3. FollowOn(predictions, <<>>, served')
  BY <1>1, <1>2 DEF FollowOn
<1>4. QED
  BY <1>1, <1>3, RespondStep

\* A point that comes does not take one away, and none of those known when the request came.
LEMMA IngestStep ==
  ASSUME IInv, NEW m \in Metrics(option), NEW at \in Sampled, Ingest(m, at)
  PROVE  IInv'
<1>1. /\ UNCHANGED <<now, option, pc, origin, known, history, observed, sent, served, answer>>
      /\ points' = [points EXCEPT ![m] = @ \cup {at}]
      /\ option \in Options /\ ClockInv /\ PointsInv /\ SeriesInv /\ ControlInv
  BY DEF IInv, Ingest
<1>2. at \in 0..MaxTime
  BY <1>1, OptionIs DEF Sampled
<1>3. PointsInv'
  BY <1>1, <1>2 DEF PointsInv, Metrics
<1>4. ClockInv' /\ SeriesInv'
  BY <1>1, SeriesSame DEF ClockInv
<1>5. answer = NoAnswer
  BY <1>1 DEF Ingest, ControlInv
<1>6. Fetched' = Fetched /\ HasRows' = HasRows /\ ModelRows' = ModelRows
  BY <1>1 DEF Fetched, HasRows, ModelRows, Row, Series
<1>7. ControlInv' /\ AnswerInv'
  BY <1>1, <1>5, <1>6 DEF ControlInv, AnswerInv, Answered, NoAnswer
<1>8. QED
  BY <1>1, <1>3, <1>4, <1>7 DEF IInv

\* Steps of the clock, and those that change nothing.
LEMMA SameStep ==
  ASSUME IInv, UNCHANGED <<points, option, pc, origin, known, history, observed, sent, served, answer>>,
         now' \in now..MaxTime
  PROVE  IInv'
<1>1. option \in Options /\ ClockInv /\ PointsInv /\ SeriesInv /\ ControlInv /\ AnswerInv
  BY DEF IInv
<1>2. ClockInv'
  <2>1. now \in Nat /\ origin \in Nat /\ origin <= now /\ MaxTime \in Nat
    BY <1>1, OptionIs DEF ClockInv
  <2>2. now' \in 0..MaxTime /\ origin <= now'
    BY <2>1
  <2>3. QED
    BY <1>1, <2>2 DEF ClockInv
<1>3. PointsInv' /\ SeriesInv'
  BY <1>1, SeriesSame DEF PointsInv, Metrics
<1>4. /\ Fetched' = Fetched /\ HasRows' = HasRows /\ ModelRows' = ModelRows
      /\ HistoryRows' = HistoryRows
  BY DEF Fetched, HasRows, ModelRows, HistoryRows, Row, Series, WindowStart
<1>5. ControlInv'
  BY <1>1, <1>4 DEF ControlInv
<1>6. AnswerInv'
  BY <1>1, <1>4 DEF AnswerInv, Answered, FollowOn
<1>7. QED
  BY <1>1, <1>2, <1>3, <1>5, <1>6 DEF IInv

LEMMA IInvNext == IInv /\ [Next]_vars => IInv'
<1> SUFFICES ASSUME IInv, [Next]_vars PROVE IInv'
  OBVIOUS
<1>1. now \in Nat /\ MaxTime \in Nat /\ now <= MaxTime
  BY OptionIs DEF IInv, ClockInv
<1>2. CASE Receive
  BY <1>2, ReceiveStep
<1>3. CASE Fetch
  BY <1>3, FetchStep
<1>4. CASE PredictLocal
  BY <1>4, PredictLocalStep
<1>5. CASE SendLinearRegression
  BY <1>5, SendLinearRegressionStep
<1>6. ASSUME NEW n \in 0..(option.horizon + 1),
             \/ PredictLegacy(n)
             \/ \E dates \in [1..n -> ModelTimes] : ReceiveLinearRegression(dates)
      PROVE  IInv'
  BY <1>6, ReceiveLinearRegressionStep, PredictLegacyStep
<1>7. CASE CallFails
  BY <1>7, RespondStep DEF CallFails
<1>8. ASSUME NEW m \in Metrics(option), NEW at \in Sampled, Ingest(m, at)
      PROVE  IInv'
  BY <1>8, IngestStep
<1>9. CASE Tick
  <2>1. now' \in now..MaxTime
    BY <1>1, <1>9 DEF Tick
  <2>2. QED
    BY <1>9, <2>1, SameStep DEF Tick
<1>10. CASE UNCHANGED vars
  <2>1. now' \in now..MaxTime
    BY <1>1, <1>10 DEF vars
  <2>2. QED
    BY <1>10, <2>1, SameStep DEF vars
<1>11. QED
  BY <1>2, <1>3, <1>4, <1>5, <1>6, <1>7, <1>8, <1>9, <1>10 DEF Next

LEMMA IInvCorrect == Spec => []IInv
<1>1. QED
  BY IInvInit, IInvNext, PTL DEF Spec

-----------------------------------------------------------------------------
(* The theorems.                                                           *)

\* What the query found is in its place in the answer.
LEMMA InPlace ==
  ASSUME NEW series, NEW m, NEW n \in Nat, NEW missing,
         Len(series) = n, answer.at = origin, option.step \in Int, origin \in Int,
         \A k \in 1..n : /\ series[k] \in {At(k, n), missing}
                         /\ At(k, n) \in known[m] => series[k] = At(k, n)
  PROVE  Places(series, m, missing)
BY DEF Places, Instant, At

LEMMA TypesHold == IInv => TypeOK
BY DEF IInv, ClockInv, PointsInv, SeriesInv, ControlInv, TypeOK

LEMMA AgreeHolds == IInv => InstantsAgree
<1> SUFFICES ASSUME IInv, Answered
             PROVE  /\ answer.at <= now /\ answer.at % option.step = 0
                    /\ \A i \in 1..Len(answer.history_rows) :
                         /\ answer.history_rows[i].at = Instant(i, option.lookback)
                         /\ \A m \in RowMetrics :
                              Places([k \in DOMAIN answer.history_rows |->
                                        answer.history_rows[k].values[m]], m, 0)
  BY TypesHold DEF InstantsAgree
<1>1. /\ option \in Options /\ ClockInv /\ SeriesInv /\ Fetched
      /\ answer.at = origin /\ answer.history_rows = HistoryRows
  BY DEF IInv, AnswerInv
<1>2. answer.at <= now /\ answer.at % option.step = 0
  BY <1>1 DEF ClockInv
<1>3. ASSUME NEW i \in 1..Len(HistoryRows)
      PROVE  /\ HistoryRows[i].at = Instant(i, option.lookback)
             /\ \A m \in RowMetrics :
                  Places([k \in DOMAIN HistoryRows |-> HistoryRows[k].values[m]], m, 0)
  <2>1. HasRows
    BY <1>3 DEF HistoryRows
  <2>2. /\ Len(HistoryRows) = option.lookback /\ DOMAIN HistoryRows = 1..option.lookback
        /\ \A k \in 1..option.lookback :
             /\ HistoryRows[k].at = At(k, option.lookback)
             /\ \A m \in RowMetrics : HistoryRows[k].values[m] = Series(m)[k]
    BY <1>1, <2>1, RowsAre
  <2>3. HistoryRows[i].at = Instant(i, option.lookback)
    BY <1>1, <2>2 DEF Instant, At
  <2>4. ASSUME NEW m \in RowMetrics
        PROVE  Places([k \in DOMAIN HistoryRows |-> HistoryRows[k].values[m]], m, 0)
    <3> DEFINE series == [k \in DOMAIN HistoryRows |-> HistoryRows[k].values[m]]
    <3>1. m \in ToSet(option.features)
      BY <2>1 DEF HasRows
    <3>2. Aligned(Series(m), m, option.lookback, 0)
      BY <1>1, <3>1, SeriesIs
    <3>3. option.lookback \in Nat /\ option.step \in Int /\ origin \in Int
      BY <1>1, OptionIs DEF ClockInv
    <3>4. series = [k \in 1..option.lookback |-> Series(m)[k]]
      BY <2>2
    <3>5. Len(series) = option.lookback /\ \A k \in 1..option.lookback : series[k] = Series(m)[k]
      BY <3>3, <3>4
    <3> HIDE DEF series
    <3>6. \A k \in 1..option.lookback :
            /\ series[k] \in {At(k, option.lookback), 0}
            /\ At(k, option.lookback) \in known[m] => series[k] = At(k, option.lookback)
      BY <3>2, <3>5 DEF Aligned
    <3>7. Places(series, m, 0)
      BY <1>1, <3>3, <3>5, <3>6, InPlace
    <3>8. QED
      BY <3>7 DEF series
  <2>5. QED
    BY <2>3, <2>4
<1>4. QED
  BY <1>1, <1>2, <1>3

LEMMA AlignHolds == IInv => GuardrailsAlign
<1> SUFFICES ASSUME IInv, Answered
             PROVE  /\ Len(answer.observed) = Len(option.guardrails)
                    /\ \A g \in DOMAIN answer.observed :
                         /\ Len(answer.observed[g]) = option.horizon
                         /\ Places(answer.observed[g], option.guardrails[g], None)
  BY DEF GuardrailsAlign
<1>1. /\ option \in Options /\ ClockInv /\ SeriesInv /\ Fetched
      /\ answer.at = origin /\ answer.observed = observed
  BY DEF IInv, AnswerInv
<1>2. /\ option.horizon \in Nat /\ option.step \in Int /\ origin \in Int
      /\ DOMAIN observed = 1..Len(observed)
  BY <1>1, OptionIs, LenProperties DEF ClockInv, SeriesInv
<1>3. ASSUME NEW g \in DOMAIN observed
      PROVE  /\ Len(observed[g]) = option.horizon
             /\ Places(observed[g], option.guardrails[g], None)
  <2>1. Aligned(observed[g], option.guardrails[g], option.horizon, None)
    BY <1>1, <1>2 DEF SeriesInv
  <2>2. /\ Len(observed[g]) = option.horizon
        /\ \A k \in 1..option.horizon :
             /\ observed[g][k] \in {At(k, option.horizon), None}
             /\ At(k, option.horizon) \in known[option.guardrails[g]] =>
                  observed[g][k] = At(k, option.horizon)
    BY <2>1 DEF Aligned
  <2>3. QED
    BY <1>1, <1>2, <2>2, InPlace
<1>4. QED
  BY <1>1, <1>3 DEF Fetched

LEMMA FollowsHolds == IInv => ForecastFollowsHistory
<1> SUFFICES ASSUME IInv, Answered
             PROVE  ForecastFollowsHistory
  BY DEF ForecastFollowsHistory
<1>1. option \in Options /\ ClockInv /\ AnswerInv /\ answer.history_rows = HistoryRows
  BY DEF IInv, AnswerInv
<1>2. FollowOn(answer.predictions, answer.prediction_rows, served)
  BY <1>1 DEF AnswerInv
<1>3. option.model = "linear_regression" => Reverse(sent) = answer.history_rows
  BY <1>1, <1>2, ModelGetsHistory DEF FollowOn
<1>4. ASSUME HasRows PROVE Last(answer.history_rows).at = origin
  <2>1. option.lookback \in Nat \ {0} /\ option.step \in Int /\ origin \in Int
    BY <1>1, OptionIs DEF ClockInv
  <2>2. /\ Len(HistoryRows) = option.lookback
        /\ HistoryRows[option.lookback].at = At(option.lookback, option.lookback)
    BY <1>1, <1>4, <2>1, RowsAre
  <2>3. At(option.lookback, option.lookback) = origin
    BY <2>1 DEF At
  <2>4. QED
    BY <1>1, <2>2, <2>3 DEF Last
<1>5. QED
  BY <1>2, <1>3, <1>4 DEF ForecastFollowsHistory, FollowOn

\* For every contract and every order of arrivals, a value in the answer is that of the instant
\* it stands at, or missing; no point known when the request came is missing, and the newest
\* instant is not of the future (query_range, predict_workload).
THEOREM InstantsAlwaysAgree == Spec => []InstantsAgree
<1>1. QED
  BY IInvCorrect, AgreeHolds, PTL

\* The guardrails that the scaler gets are those of the last instants of the same origin, as
\* many as the horizon, and a missing one is not a zero (_fetch_guardrail_history).
THEOREM GuardrailsAlwaysAlign == Spec => []GuardrailsAlign
<1>1. QED
  BY IInvCorrect, AlignHolds, PTL

\* The forecast has one value for each step of the horizon, that of the target metric in its
\* rows.  A model was given the history that the answer shows, and its rows are shown as it
\* gave them, whatever their dates; rows made without a model continue the history.
THEOREM ForecastAlwaysFollows == Spec => []ForecastFollowsHistory
<1>1. QED
  BY IInvCorrect, FollowsHolds, PTL
=============================================================================
