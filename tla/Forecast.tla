------------------------------ MODULE Forecast ------------------------------
(***************************************************************************)
(* One forecast request: ForecastingService.predict_workload in            *)
(* forecasting-service/app/service.py.  The time it is made for is fixed   *)
(* first; then the metrics of the contract are fetched one after the       *)
(* other, the guardrail metrics after them, and the model is asked, while  *)
(* the clock moves and Prometheus gets its points late and in any order.   *)
(*                                                                         *)
(* The value of a metric at t is t itself, so that a value shows which     *)
(* instant it comes from; 0 stands for a point that is missing, as it does *)
(* in the code, and so does a point that is not finite.                    *)
(*                                                                         *)
(* The model server is not part of the repository: it may answer with any  *)
(* number of rows, of any dates; nothing checks these.                     *)
(***************************************************************************)
EXTENDS Integers, Sequences, FiniteSets, SequencesExt

CONSTANTS
  Options,    \* the contracts of options.json, see OptionsAssumption
  ModelTimes, \* dates the rows of the model server may have
  MaxTime     \* bound: the last tick

\* LINEAR_REGRESSION_HISTORY_METRICS
RowMetrics == {"requests", "cpu", "bandwidth"}

\* ForecastOption, with the models that there are.
OptionsAssumption ==
  /\ \A option \in Options :
       /\ {option.lookback, option.horizon, option.step} \subseteq Nat \ {0}
       /\ option.step <= MaxTime
       /\ option.model \in {"last_value", "linear_regression", "legacy"}
       /\ option.features \in Seq(STRING) /\ option.guardrails \in Seq(STRING)
       /\ option.features # <<>>
       /\ ToSet(option.guardrails) \cap ToSet(option.features) = {}
  /\ MaxTime \in Nat
ASSUME OptionsAssumption

VARIABLES
  now,       \* the clock
  points,    \* timestamps of the points Prometheus has, per metric
  option,    \* contract of the request
  pc,        \* where the request is
  origin,    \* generated_at
  known,     \* points there were when the request came (history)
  history,   \* series fetched, per metric
  observed,  \* guardrail series fetched
  sent,      \* rows sent to the linear regression model
  served,    \* rows it answered with (history)
  answer     \* ForecastResponse, or NoAnswer

vars == <<now, points, option, pc, origin, known, history, observed, sent, served, answer>>

None == -1     \* a missing point of a guardrail
NoAnswer == [status |-> "none"]
Failed == [status |-> "error"]
Metrics(o) == ToSet(o.features) \cup ToSet(o.guardrails)

Init ==
  /\ option \in Options
  /\ now \in 1..option.step /\ points = [m \in Metrics(option) |-> {}]
  /\ pc = "idle" /\ origin = 0 /\ known = points
  /\ history = <<>> /\ observed = <<>> /\ sent = <<>> /\ served = <<>>
  /\ answer = NoAnswer

-----------------------------------------------------------------------------
\* Mutant: a missing point is a zero everywhere.
QueryRange_ZeroFilled(metric, start, expected, missing) ==
  [i \in 1..expected |->
     LET at == start + (i - 1) * option.step IN IF at \in points[metric] THEN at ELSE 0]

\* Mutant: only the points there are, one after the other.
QueryRange_Compacted(metric, start, expected, missing) ==
  LET instants == [i \in 1..expected |-> start + (i - 1) * option.step]
      found == SelectSeq(instants, LAMBDA at : at \in points[metric])
  IN [i \in 1..expected |-> IF i <= Len(found) THEN found[i] ELSE missing]

\* query_range: the points at start, start + step, ..., with the default for a missing one.
QueryRange(metric, start, expected, missing) ==
  [i \in 1..expected |->
     LET at == start + (i - 1) * option.step
     IN IF at \in points[metric] THEN at ELSE missing]

AlignedNow == (now \div option.step) * option.step

\* The last n instants up to the origin start here.
WindowStart(n) == origin - option.step * (n - 1)

Receive ==
  /\ pc = "idle"
  /\ origin' = AlignedNow
  /\ known' = points
  /\ pc' = "fetch"
  /\ UNCHANGED <<now, points, option, history, observed, sent, served, answer>>

\* Feature metrics, then guardrail metrics, each in its own query.
Fetch ==
  LET feature == Len(history) < Len(option.features)
      metric == IF feature THEN option.features[Len(history) + 1]
                ELSE option.guardrails[Len(observed) + 1]
  IN /\ pc = "fetch"
     /\ feature \/ Len(observed) < Len(option.guardrails)
     /\ IF feature
        THEN /\ history' = Append(history, QueryRange(metric, WindowStart(option.lookback),
                                                      option.lookback, 0))
             /\ observed' = observed
        ELSE /\ observed' = Append(observed, QueryRange(metric, WindowStart(option.horizon),
                                                        option.horizon, None))
             /\ history' = history
     /\ UNCHANGED <<now, points, option, pc, origin, known, sent, served, answer>>

Fetched ==
  Len(history) = Len(option.features) /\ Len(observed) = Len(option.guardrails)

\* The series of a feature metric.
Series(metric) == history[CHOOSE i \in DOMAIN history : option.features[i] = metric]
HasRows == RowMetrics \subseteq ToSet(option.features)

\* A row for an instant, the k-th point of each series.
Row(at, k) == [at |-> at, values |-> [m \in RowMetrics |-> Series(m)[k]]]

\* _build_response_history_rows, oldest first.
HistoryRows ==
  IF ~HasRows THEN <<>>
  ELSE [i \in 1..option.lookback |-> Row(WindowStart(option.lookback) + (i - 1) * option.step, i)]

\* _build_linear_regression_history_rows, newest first.
ModelRows ==
  [i \in 1..option.lookback |->
     Row(origin - (i - 1) * option.step, option.lookback - (i - 1))]

Target == IF option.target \in ToSet(option.features) THEN Series(option.target) ELSE <<0>>

Answer(predictions, rows) ==
  [status |-> "ok", at |-> origin, history_rows |-> HistoryRows, predictions |-> predictions,
   prediction_rows |-> rows, observed |-> observed]

Respond(result) ==
  /\ answer' = result /\ pc' = "done"
  /\ UNCHANGED <<now, points, option, origin, known, history, observed>>

\* The newest value, repeated; the rows only when the contract has all their metrics.
PredictLocal ==
  /\ pc = "fetch" /\ Fetched /\ option.model = "last_value"
  /\ LET row(i) == [Row(origin, option.lookback) EXCEPT !.at = origin + i * option.step]
     IN Respond(Answer([i \in 1..option.horizon |-> Last(Target)],
                       IF HasRows THEN [i \in 1..option.horizon |-> row(i)] ELSE <<>>))
  /\ UNCHANGED <<sent, served>>

\* The contract must have the three metrics; the request to the model is sent.
SendLinearRegression ==
  /\ pc = "fetch" /\ Fetched /\ option.model = "linear_regression"
  /\ IF HasRows
     THEN /\ sent' = ModelRows /\ pc' = "model"
          /\ UNCHANGED <<now, points, option, origin, known, history, observed, served, answer>>
     ELSE /\ UNCHANGED <<sent, served>> /\ Respond(Failed)

\* The response of the model server, its i-th row dated dates[i].
Served(dates) ==
  [i \in DOMAIN dates |-> [at |-> dates[i], values |-> [m \in RowMetrics |-> <<m, i>>]]]

\* Mutant: fewer rows than the horizon are taken as they are.
ReceiveLinearRegression_Short(dates) ==
  /\ pc = "model"
  /\ served' = Served(dates)
  /\ LET rows == [i \in {k \in DOMAIN dates : k <= option.horizon} |-> served'[i]]
     IN Respond(IF option.target \notin RowMetrics \/ rows = <<>> THEN Failed
                ELSE Answer([i \in DOMAIN rows |-> rows[i].values[option.target]], rows))
  /\ sent' = sent

\* More rows than the horizon are cut, fewer are an error, and so is a target that is no
\* metric of the rows; the dates are taken as they are.
ReceiveLinearRegression(dates) ==
  /\ pc = "model"
  /\ served' = Served(dates)
  /\ LET rows == [i \in 1..option.horizon |-> served'[i]]
     IN Respond(IF option.target \notin RowMetrics \/ Len(dates) < option.horizon THEN Failed
                ELSE Answer([i \in 1..option.horizon |-> rows[i].values[option.target]], rows))
  /\ sent' = sent

\* The other contract: a list of n numbers.
PredictLegacy(n) ==
  /\ pc = "fetch" /\ Fetched /\ option.model = "legacy"
  /\ Respond(IF n < option.horizon THEN Failed
             ELSE Answer([i \in 1..option.horizon |-> <<option.target, i>>], <<>>))
  /\ UNCHANGED <<sent, served>>

\* Prometheus or the model does not answer in time, or with an error.
CallFails ==
  /\ pc \in {"fetch", "model"}
  /\ Respond(Failed)
  /\ UNCHANGED <<sent, served>>

\* A point reaches Prometheus, late or not, or never.
Ingest(metric, at) ==
  /\ pc \in {"idle", "fetch"}
  /\ at \notin points[metric] /\ at <= now
  /\ points' = [points EXCEPT ![metric] = @ \cup {at}]
  /\ UNCHANGED <<now, option, pc, origin, known, history, observed, sent, served, answer>>

Tick ==
  /\ pc # "done" /\ now < MaxTime /\ now' = now + 1
  /\ UNCHANGED <<points, option, pc, origin, known, history, observed, sent, served, answer>>

\* Instants a query can ask for.
Sampled == {at \in 1..MaxTime : at % option.step = 0}

Next ==
  \/ Receive \/ Fetch
  \/ PredictLocal \/ SendLinearRegression
  \/ \E n \in 0..(option.horizon + 1) :
       PredictLegacy(n) \/ \E dates \in [1..n -> ModelTimes] : ReceiveLinearRegression(dates)
  \/ CallFails
  \/ \E metric \in Metrics(option), at \in Sampled : Ingest(metric, at)
  \/ Tick

Spec == Init /\ [][Next]_vars

-----------------------------------------------------------------------------
\* Properties.

\* Every value the variables take (ForecastingService).
TypeOK ==
  /\ now \in 0..MaxTime /\ origin \in 0..MaxTime
  /\ points \in [Metrics(option) -> SUBSET (0..MaxTime)]
  /\ pc \in {"idle", "fetch", "model", "done"}
  /\ Len(history) <= Len(option.features) /\ Len(observed) <= Len(option.guardrails)
  /\ answer.status \in {"none", "ok", "error"}

Answered == answer.status = "ok"

\* The instant the i-th of the last n points up to the origin belongs to.
Instant(i, n) == answer.at - (n - i) * option.step

\* A value in the answer is that of its own instant, whenever its metric was fetched, or it
\* is missing; and what was there when the request came is not missing.  The newest point
\* is that of the last whole step, never one of the future.
Places(series, metric, missing) ==
  \A i \in 1..Len(series) :
    LET at == Instant(i, Len(series))
    IN /\ series[i] \in {at, missing}
       /\ at \in known[metric] => series[i] = at
InstantsAgree ==
  /\ TypeOK
  /\ Answered =>
       /\ answer.at <= now /\ answer.at % option.step = 0
       /\ \A i \in 1..Len(answer.history_rows) :
            /\ answer.history_rows[i].at = Instant(i, option.lookback)
            /\ \A m \in RowMetrics :
                 Places([k \in DOMAIN answer.history_rows |->
                           answer.history_rows[k].values[m]], m, 0)

\* The guardrails cover as many steps as the forecast, up to the same instant, and a missing
\* point is never taken for a zero: the scaler refuses to scale down on what it does not know.
GuardrailsAlign ==
  Answered =>
    /\ Len(answer.observed) = Len(option.guardrails)
    /\ \A g \in DOMAIN answer.observed :
         /\ Len(answer.observed[g]) = option.horizon
         /\ Places(answer.observed[g], option.guardrails[g], None)

\* The forecast has one value for each step of the horizon, and they are those of the target
\* metric in its rows.  A model is given what the answer reports as history, newest first, and
\* the rows are the first it answered with, in its order and with its dates; those made here,
\* without a model, follow the last row of the history step by step.
ForecastFollowsHistory ==
  Answered =>
    /\ Len(answer.predictions) = option.horizon
    /\ answer.prediction_rows # <<>> /\ option.target \in RowMetrics =>
         [i \in 1..option.horizon |-> answer.prediction_rows[i].values[option.target]]
           = answer.predictions
    /\ option.model = "linear_regression" =>
         /\ Reverse(sent) = answer.history_rows
         /\ answer.prediction_rows = [i \in 1..option.horizon |-> served[i]]
    /\ option.model = "last_value" =>
         \A i \in DOMAIN answer.prediction_rows :
           answer.prediction_rows[i].at = Last(answer.history_rows).at + i * option.step
=============================================================================
