----------------------------- MODULE StockPhases -----------------------------
(***************************************************************************)
(* The handlers and the phases pjabberd is configured with: conf/handlers.py*)
(* names the handlers, conf/phases.py lists them per phase, and pjs/handlers*)
(* says how each can end and what it schedules.  Handlers are named by their*)
(* keys in conf/handlers.py.                                                *)
(***************************************************************************)
EXTENDS Integers, Sequences, TLC

(* The handlers that subclass ThreadedHandler.                              *)
StockThreaded ==
  {"sasl-auth", "sasl-response", "iq-auth-set", "iq-roster-get",
   "iq-roster-update", "roster-push", "new-s2s-conn", "s2s-message",
   "c2s-presence", "c2s-subscription", "s2s-subscription"}

StockHandlers == StockThreaded \cup
  {"write", "simple-reply", "in-stream-init", "out-stream-init",
   "in-stream-reinit", "stream-end", "cleanup-conn", "features-init",
   "features-auth", "features-postauth", "iq-not-implemented", "sasl-error",
   "iq-bind", "iq-session", "iq-register", "iq-auth-get", "c2s-message",
   "s2s-presence", "s2s-probe", "route-server", "route-client"}

(* An execution that schedules the handlers of ns and ends with out; no     *)
(* stock handler passes an error handler to setNextHandler.                 *)
Does(ns, out) == [next |-> ns, nextErrors |-> <<>>, stop |-> FALSE, out |-> out]

Returns  == Does(<<>>, "value")
Nothing  == Does(<<>>, "none")
Raises   == Does(<<>>, "raise")

(* An already closing stream stops its chain.                               *)
Stops == [Nothing EXCEPT !.stop = TRUE]

StreamEffects ==
  [h \in {"in-stream-init", "in-stream-reinit", "out-stream-init", "features-init",
          "features-auth", "features-postauth", "new-s2s-conn", "stream-end",
          "cleanup-conn"} |->
    CASE h = "in-stream-init"   -> {Nothing}
      [] h = "in-stream-reinit" -> {Nothing, Does(<<"features-postauth", "write">>, "none")}
      [] h = "new-s2s-conn"     -> {Nothing}   \* its callback drops what act() raised
      [] h = "stream-end"       -> {Stops, Nothing, Does(<<"c2s-presence">>, "none")}
      [] h = "cleanup-conn"     -> {Nothing, Raises}
      [] OTHER                  -> {Returns}]

AuthEffects ==
  [h \in {"sasl-auth", "sasl-response", "sasl-error", "iq-auth-get", "iq-auth-set"} |->
    CASE h = "iq-auth-get"                   -> {Returns}
      [] h \in {"sasl-error", "iq-auth-set"} -> {Returns, Raises}
      [] OTHER                               -> {Returns, Nothing, Raises}]

IqEffects ==
  [h \in {"iq-bind", "iq-session", "iq-register", "iq-roster-get", "iq-roster-update",
          "roster-push", "iq-not-implemented"} |->
    CASE h = "iq-session" -> {Returns}
      [] h \in {"iq-register", "iq-not-implemented"} -> {Returns, Nothing}
      [] h = "iq-roster-update" ->
           {Nothing, Raises, Does(<<"roster-push">>, "value"),
            Does(<<"route-server", "roster-push">>, "value")}
      [] OTHER -> {Returns, Nothing, Raises}]

(* Subscriptions push the roster before they route.                         *)
PresenceEffects ==
  [h \in {"c2s-presence", "s2s-presence", "s2s-probe", "c2s-subscription",
          "s2s-subscription"} |->
    CASE h = "c2s-presence" ->
           {Nothing, Raises, Does(<<"route-server">>, "value"),
            Does(<<"route-client">>, "value"),
            Does(<<"route-client", "route-server">>, "value")}
      [] h = "s2s-presence" -> {Does(<<"route-client">>, "value")}
      [] h = "s2s-probe" -> {Nothing, Does(<<"route-server">>, "value")}
      [] h = "c2s-subscription" ->
           {Nothing, Raises, Does(<<"route-server">>, "value"),
            Does(<<"roster-push", "route-server">>, "value")}
      [] h = "s2s-subscription" ->
           {Nothing, Raises, Does(<<"route-client">>, "value"),
            Does(<<"route-server">>, "value"),
            Does(<<"roster-push", "route-client">>, "value"),
            Does(<<"roster-push", "route-client", "route-server">>, "value"),
            Does(<<"roster-push", "route-client", "route-server", "route-server">>,
                 "value")}]

RoutingEffects ==
  [h \in {"c2s-message", "s2s-message", "route-server", "route-client", "write",
          "simple-reply"} |->
    CASE h = "c2s-message" -> {Nothing, Does(<<"route-server">>, "value")}
      [] h = "s2s-message" -> {Nothing, Raises, Does(<<"route-client">>, "value")}
      [] h = "route-server" -> {Nothing, Raises, Does(<<"new-s2s-conn">>, "none")}
      [] h = "simple-reply" -> {Returns}
      [] OTHER -> {Nothing, Raises}]

StockEffects ==
  [h \in StockHandlers |->
    CASE h \in DOMAIN StreamEffects   -> StreamEffects[h]
      [] h \in DOMAIN AuthEffects     -> AuthEffects[h]
      [] h \in DOMAIN IqEffects       -> IqEffects[h]
      [] h \in DOMAIN PresenceEffects -> PresenceEffects[h]
      [] OTHER                        -> RoutingEffects[h]]

-----------------------------------------------------------------------------
(* A phase: the elements its xpath expression matches, its priority and its *)
(* handlers.                                                                *)
Phase(hs, es) == [handlers |-> hs, errorHandlers |-> es]

Xpath(el, type, child) == [el |-> el, type |-> type, child |-> child]

(* No element; "*" stands for anything, "+" for any type that is given.     *)
NoXpath     == Xpath("", "*", "*")
Element(el) == Xpath(el, "*", "*")

Stock(xpath, priority, hs, es) ==
  [xpath |-> xpath, priority |-> priority, dispatches |-> TRUE, phase |-> Phase(hs, es)]

(* Without a list of handlers dispatch() returns.                           *)
Unhandled(xpath) ==
  [xpath |-> xpath, priority |-> 0, dispatches |-> FALSE, phase |-> Phase(<<>>, <<>>)]

CorePhases ==
  ("default"          :> Unhandled(NoXpath)) @@
  ("in-stream-init"   :> Stock(NoXpath, 0, <<"in-stream-init", "features-init", "write">>, <<>>)) @@
  ("in-stream-reinit" :> Stock(NoXpath, 0, <<"in-stream-reinit">>, <<>>)) @@
  ("out-stream-init"  :> Stock(NoXpath, 0, <<"out-stream-init", "write">>, <<>>)) @@
  ("stream-end"       :> Stock(NoXpath, 0, <<"stream-end", "cleanup-conn">>, <<>>)) @@
  ("close-stream"     :> Stock(NoXpath, 0, <<>>, <<>>)) @@
  ("features"         :> Unhandled(Element("features"))) @@
  ("sasl-auth"     :> Stock(Element("auth"), 0, <<"sasl-auth", "write">>, <<"sasl-error">>)) @@
  ("sasl-response" :> Stock(Element("response"), 0, <<"sasl-response", "write">>, <<"sasl-error">>)) @@
  ("sasl-abort"    :> Stock(Element("abort"), 0, <<>>, <<"sasl-error">>)) @@
  ("db-result"     :> Unhandled(Element("result"))) @@
  ("db-verify"     :> Unhandled(Element("verify"))) @@
  ("test"          :> Stock(NoXpath, 0, <<"simple-reply", "write">>, <<>>))

C2SStanzaPhases ==
  LET Iq(type, child, h) == Stock(Xpath("iq", type, child), 0, <<h, "write">>, <<>>)
  IN
  ("default"          :> Unhandled(NoXpath)) @@
  ("iq-auth-get"      :> Iq("get", "auth", "iq-auth-get")) @@
  ("iq-auth-set"      :> Iq("set", "auth", "iq-auth-set")) @@
  ("iq-bind"          :> Iq("set", "bind", "iq-bind")) @@
  ("iq-session"       :> Iq("set", "session", "iq-session")) @@
  ("iq-roster-get"    :> Iq("get", "roster", "iq-roster-get")) @@
  ("iq-roster-update" :> Iq("set", "roster", "iq-roster-update")) @@
  ("iq-register"      :> Iq("set", "register", "iq-register")) @@
  ("iq-disco-items"   :> Iq("get", "items", "iq-not-implemented")) @@
  ("iq-disco-info"    :> Iq("get", "info", "iq-not-implemented")) @@
  ("unknown-iq"   :> Stock(Element("iq"), -1, <<"iq-not-implemented", "write">>, <<>>)) @@
  ("message"      :> Stock(Element("message"), 0, <<"c2s-message">>, <<>>)) @@
  ("c2s-presence" :> Stock(Element("presence"), 0, <<"c2s-presence", "write">>, <<>>)) @@
  ("c2s-presence-unavailable" :>
     Stock(Xpath("presence", "unavailable", "*"), 1, <<"c2s-presence">>, <<>>)) @@
  ("subscription" :> Stock(Xpath("presence", "+", "*"), 1, <<"c2s-subscription">>, <<>>))

S2SStanzaPhases ==
  LET Presence(type, priority, hs) == Stock(Xpath("presence", type, "*"), priority, hs, <<>>)
  IN
  ("default"                  :> Unhandled(NoXpath)) @@
  ("subscription"             :> Presence("+", 1, <<"s2s-subscription">>)) @@
  ("s2s-presence"             :> Presence("*", 0, <<"s2s-presence", "write">>)) @@
  ("s2s-presence-unavailable" :> Presence("unavailable", 2, <<"s2s-presence", "write">>)) @@
  ("s2s-presence-probe"       :> Presence("probe", 2, <<"s2s-probe">>)) @@
  ("message"                  :> Stock(Element("message"), 0, <<"s2s-message">>, <<>>))

StockPhaseSet ==
  UNION {{phases[n].phase : n \in DOMAIN phases} :
         phases \in {CorePhases, C2SStanzaPhases, S2SStanzaPhases}}
=============================================================================
