----------------------------- MODULE MCWebSocket -----------------------------
(* Instances of the WebSocket server and client: what each behaviour is bounded to. *)
EXTENDS WebSocketServer, WebSocketClient

Lane(producers, commands, kinds, messages, gens) ==
  [producers |-> producers, commands |-> commands, kinds |-> kinds, messages |-> messages, gens |-> gens]
MCWsPlans ==
  {Lane(Producers, 3, {"text"}, {}, 1), Lane({CHOOSE q \in Producers : TRUE}, 2, {"text"}, {}, 2),
   Lane({CHOOSE q \in Producers : TRUE}, 1, {"text", "close"}, {"message", "echo", "ping", "close"}, 1)}

Socket(proto, script, window, sends, faults) ==
  [proto |-> proto, script |-> script, window |-> window, sends |-> sends, faults |-> faults,
   refuses |-> {}]
Crowded(s) == [s EXCEPT !.refuses = {"send", "receive"}]
MCWsClients ==
  {Socket("h1", <<"half", "101", "m1", "ping", "m2", "close">>, 0, <<"s1", "s2">>, TRUE),
   Crowded(Socket("h1", <<"101", "ping", "ping", "m1">>, 0, <<"s1">>, FALSE)),
   Socket("h1", <<"nope">>, 0, <<"s1">>, FALSE),
   Socket("h2", <<"connect-on", "200", "m1", "ping", "m2", "close">>, 1, <<"s1">>, FALSE),
   Socket("h2", <<"connect-on", "200", "m1", "rst">>, 2, <<"s1", "s2">>, TRUE),
   Socket("h2", <<"connect-off">>, 1, <<>>, FALSE),
   Socket("h2", <<"connect-on", "403">>, 1, <<"s1">>, FALSE),
   Crowded(Socket("h2", <<"connect-on", "200", "goaway", "m1", "end">>, 2, <<"s1">>, FALSE)),
   Crowded(Socket("h2", <<"connect-on", "200", "m1">>, 1, <<"s1", "s2">>, FALSE))}
=============================================================================
