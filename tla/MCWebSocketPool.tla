--------------------------- MODULE MCWebSocketPool ---------------------------
(* Instances of the WebSocket pool: what each behaviour is bounded to. *)
EXTENDS WebSocketPool

Pooling(enable, window, sends, scripts, goaway, faults, calls, timed) ==
  [enable |-> enable, window |-> window, sends |-> sends, scripts |-> scripts,
   goaway |-> goaway, faults |-> faults, refuses |-> FALSE, calls |-> calls, timed |-> timed]
Refusing(plan) == [plan EXCEPT !.refuses = TRUE]
MCPoolPlans ==
  {Pooling("on", 1, <<"s1">>, <<<<"200", "a1">>, <<"200">>>>, 0, FALSE, {"open", "send", "receive"}, {FALSE}),
   Pooling("on", 0, <<"s1">>, <<<<"200">>, <<"200", "ping">>>>, 0, FALSE, {"open", "send", "close"}, {TRUE}),
   Pooling("on", 1, <<>>, <<<<"200", "ping", "ping", "a1">>, <<"200">>>>, 0, FALSE, {"open", "receive"}, {FALSE}),
   Pooling("on", 1, <<>>, <<<<"200", "a1", "a2", "close">>, <<"403", "end">>>>, 0, FALSE,
           {"open", "receive", "close"}, {FALSE}),
   Pooling("on", 1, <<>>, <<<<"200", "a1">>, <<"200", "rst">>>>, 2, TRUE, {"open", "receive", "close"}, {FALSE}),
   Pooling("off", 1, <<>>, <<<<"200">>>>, 0, TRUE, {"open", "destroy"}, {TRUE}),
   Pooling("on", 1, <<>>, <<<<"200">>, <<"403">>, <<"200", "a1">>>>, 0, FALSE, {"open", "receive", "close"}, {TRUE}),
   Pooling("on", 1, <<>>, <<<<"200">>, <<"200", "end">>, <<"200", "a1">>>>, 0, FALSE,
           {"open", "receive", "close"}, {FALSE}),
   Refusing(Pooling("on", 1, <<>>, <<<<"200", "a1">>>>, 0, FALSE, {"open", "receive", "close"}, {FALSE})),
   Pooling("on", 1, <<>>, <<<<"200", "a1">>, <<"200">>>>, 0, FALSE, {"open", "destroy"}, {TRUE, FALSE})}
=============================================================================
