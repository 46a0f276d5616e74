----------------------------- MODULE MCForecast -----------------------------
\* A small instance of Forecast: one contract for each way a request can go.
EXTENDS Forecast

MCOption(model, features, target) ==
  [model |-> model, features |-> features, target |-> target, guardrails |-> <<"errors">>,
   lookback |-> 3, horizon |-> 2, step |-> 2]

MCOptions ==
  LET all == <<"requests", "cpu", "bandwidth">>
  IN {MCOption("last_value", all, "requests"), MCOption("last_value", <<"cpu">>, "cpu"),
      MCOption("linear_regression", all, "cpu"),
      MCOption("linear_regression", <<"requests">>, "requests"),
      MCOption("legacy", <<"requests">>, "requests")}
=============================================================================
