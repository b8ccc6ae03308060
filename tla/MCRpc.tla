-------------------------------- MODULE MCRpc --------------------------------
(* Instances of the JSON-RPC modules. *)
EXTENDS RpcServer, RpcClient, RpcCodec

Mounting(target, name, generated, plugin, request, response, error, fault) ==
  [target |-> target, name |-> name, generated |-> generated, plugin |-> plugin,
   request |-> request, response |-> response, error |-> error, fault |-> fault]
MCMounts ==
  {Mounting("/rpc", "add", TRUE, TRUE, 3, 4, 0, "none"), Mounting("/rpc", "sub", TRUE, FALSE, 3, 4, 2, "none"),
   Mounting("/rpc", "sub", TRUE, TRUE, 3, 2, 0, "lease"), Mounting("/rpc", "add", FALSE, FALSE, 0, 0, 0, "none"),
   Mounting("/x", "ping", FALSE, FALSE, 0, 0, 0, "route")}

Request(object, params, id, name, outcome, size) ==
  [object |-> object, version |-> TRUE, params |-> params, id |-> id, method |-> name,
   outcome |-> outcome, size |-> size]
Asking(name, outcome, size) == Request(TRUE, "list", "one", name, outcome, size)
Notifying(name, outcome, size) == Request(TRUE, "list", "none", name, outcome, size)
Posted(kind, items) == [kind |-> kind, target |-> "/rpc", items |-> items]
MCDocuments ==
  {Posted("one", <<Asking("add", "value", 2)>>),
   Posted("batch", <<Asking("add", "value", 6), Asking("sub", "badparams", 2)>>),
   Posted("batch", <<Asking("add", "value", 2), Notifying("add", "egress", 2)>>),
   Posted("batch", <<Request(FALSE, "none", "none", "add", "value", 2), Asking("sub", "typed", 3)>>),
   Posted("batch", <<Asking("none", "value", 2), Asking("add", "bindfault", 2)>>), Posted("batch", <<>>), Posted("broken", <<>>),
   Posted("batch", <<Asking("sub", "noreader", 2), Notifying("sub", "noreader", 2)>>),
   Posted("one", <<Asking("add", "stuck", 2)>>), Posted("one", <<Notifying("sub", "mute", 2)>>)}

Param(name, ordinal, present, isnull, nullable) ==
  [name |-> name, ordinal |-> ordinal, present |-> present, isnull |-> isnull, nullable |-> nullable]
Calling(entries, codes) == [entries |-> entries, codes |-> codes, egress |-> TRUE, fault |-> "none"]
Swapped == Calling(<<Param("b", 1, TRUE, FALSE, FALSE), Param("a", 0, TRUE, FALSE, FALSE)>>, <<>>)
Gap     == Calling(<<Param("a", 0, FALSE, FALSE, FALSE), Param("b", 1, TRUE, FALSE, FALSE)>>, <<>>)
Short   == Calling(<<Param("a", 0, TRUE, TRUE, TRUE), Param("b", 1, FALSE, FALSE, FALSE)>>, <<7>>)
Named   == Calling(<<Param("a", -1, FALSE, FALSE, FALSE), Param("b", -1, TRUE, FALSE, TRUE)>>, <<7>>)
Twice   == Calling(<<Param("a", -1, TRUE, FALSE, FALSE), Param("a", -1, TRUE, FALSE, TRUE)>>, <<7>>)
Mixed   == Calling(<<Param("a", -1, TRUE, FALSE, FALSE), Param("b", 0, TRUE, FALSE, TRUE)>>, <<7>>)
Void    == Calling(<<>>, <<>>)

Answering(id, results, value, code, data) ==
  [http |-> 200, json |-> "ok", id |-> id, results |-> results, errors |-> 1 - results,
   value |-> value, code |-> code, data |-> data]
Ok(id) == Answering(id, 1, TRUE, 0, "none")
Ask(kind, id, deadline, entries, response) ==
  [kind |-> kind, id |-> id, deadline |-> deadline, plan |-> entries, answer |-> response,
   storage |-> TRUE, initFails |-> FALSE, fault |-> "none", cancels |-> TRUE]
Both(a, b) == [c \in Callers |-> IF c = "c1" THEN a ELSE b]
Refused == [Ask("sync", 1, 0, Named, Ok(1)) EXCEPT !.storage = FALSE]
MCScripts ==
  {Both(Ask("async", 1, 2, Swapped, Ok(1)), Ask("async", i, 1, Short, a)) :
      i \in {1, 2}, a \in {Ok(2), Answering(2, 0, FALSE, 7, "value")}}
  \cup {Both(Refused, Ask("async", 2, 1, Short, Answering(2, 0, FALSE, c, "none"))) : c \in {7, 8}}
  \cup {Both(Ask("sync", 1, 2, p, a), Refused) :
      p \in {Swapped, Named, Gap, Twice, Mixed},
      a \in {Ok(1), Ok(2), Answering(1, 1, FALSE, 0, "none"), Answering(1, 0, FALSE, 7, "value")}}
  \cup {Both(Ask("sync", 1, 2, Named, Ok(1)), Ask("async", 1, 0, Void, [Ok(1) EXCEPT !.json = "deep"])),
        Both([Ask("async", 1, 0, Swapped, Ok(1)) EXCEPT !.initFails = TRUE], Refused)}

Token(kind, chars) == [kind |-> kind, text |-> chars]
MCTokens ==
  {Token(k, t) : k \in {"begin", "end"}, t \in {"array", "map"}}
  \cup {Token("string", <<c>>) : c \in {"{", "\"", "\\", "bad"}}
  \cup {Token("literal", <<"n">>), Token("bytes", <<"x">>)}
Dotted(service, name) == [qualified |-> service # <<>>, service |-> service, name |-> name]
MCMethods ==
  {Dotted(<<>>, <<"\"">>), Dotted(<<"r", "p", "c">>, <<"a">>), Dotted(<<>>, <<"r", "p", "c", ".">>),
   Dotted(<<"r">>, <<"p", "c">>), Dotted(<<"a">>, <<"{", "{">>), Dotted(<<"a", "b">>, <<"c", "d", "e">>),
   Dotted(<<>>, <<"bad">>), Dotted(<<"r">>, <<"p">>), Dotted(<<>>, <<"ctl">>),
   [Dotted(<<>>, <<"a">>) EXCEPT !.qualified = TRUE]}
=============================================================================
