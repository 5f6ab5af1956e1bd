------------------------------- MODULE Intake -------------------------------
(***************************************************************************)
(* What the daemon decides before it stores anything: which configuration  *)
(* it starts with (pipeline.Build), and what a request comes to: decoding  *)
(* by either transport, validate, the router, and Receiver.Ingest up to    *)
(* its first Append.  All of it is a function of the configuration and the *)
(* request, and module Delivery uses it.                                   *)
(***************************************************************************)
EXTENDS Integers, SequencesExt

CONSTANTS
  Events, Providers,
  Names      \* event names

-----------------------------------------------------------------------------
(* Configuration. *)

\* token: the environment variable that token_env names is set.
Sections == [type : {"", "stdout", "metronome", "orb"}, token : BOOLEAN]

\* The part of a Config that is not about times and sizes.
ConfigFiles ==
  [grpc : BOOLEAN, onFull : {"", "reject", "drop_best_effort"},
   providers : UNION {[P -> Sections] : P \in SUBSET Providers},
   default : Seq(Providers), rules : Seq([name : Names, route : Seq(Providers)])]

\* The built-in configuration of a daemon that is given no file.
NoConfig == [grpc |-> FALSE, onFull |-> "", providers |-> <<>>,
             default |-> <<>>, rules |-> <<>>]

Known(c) == DOMAIN c.providers

applyDefaults(c) ==
  LET Section(p) == [type  |-> IF c.providers[p].type = "" THEN "stdout"
                               ELSE c.providers[p].type,
                     token |-> c.providers[p].token]
  IN  [c EXCEPT !.onFull = IF @ = "" THEN "reject" ELSE @,
                !.providers = [p \in Known(c) |-> Section(p)]]

validateRouting(c) ==
  /\ Range(c.default) \subseteq Known(c)
  /\ \A k \in DOMAIN c.rules : Range(c.rules[k].route) \subseteq Known(c)

\* buildAdapter returns an adapter and no error.
buildAdapter(section) ==
  section.type = "stdout" \/ (section.type = "metronome" /\ section.token)

\* Build goes through with c, as far as c is concerned.
Builds(c) ==
  /\ c.onFull = "reject" /\ validateRouting(c)
  /\ \A p \in Known(c) : buildAdapter(c.providers[p])

-----------------------------------------------------------------------------
(* Requests. *)

Transports == {"http", "grpc"}

\* ancient: before the year 0, which a gRPC timestamp can say and JSON cannot.
Stamps == {"absent", "past", "ancient", "future"}

\* complete: the ID, the customer and the name are there.  future: further ahead
\* than maxFutureTimestamp.
WireEvents == [event : Events, complete : BOOLEAN, stamp : Stamps,
               name : Names, route : Seq(Providers)]

WireRequests == [via : Transports, body : Seq(WireEvents)]

\* A timestamp that is missing becomes the zero time.
toEvents(body) ==
  [k \in DOMAIN body |->
     [body[k] EXCEPT !.stamp = IF @ = "absent" THEN "zero" ELSE @]]

\* The same from JSON, where one bad field makes all of the body unreadable.
Decodes(body) == \A k \in DOMAIN body : body[k].stamp # "ancient"

decodeEvents(body) ==
  [k \in DOMAIN body |->
     [body[k] EXCEPT !.stamp = IF @ = "absent" THEN "zero" ELSE @]]

validate(e) == e.complete /\ e.stamp \notin {"zero", "future"}

\* StaticRouter.Route: the first rule for the name, even if it has no route.
Route(c, e) ==
  LET k == SelectInSeq(c.rules, LAMBDA rule : rule.name = e.name)
  IN  IF k = 0 THEN c.default ELSE c.rules[k].route

Targets(c, e) == IF e.route # <<>> THEN e.route ELSE Route(c, e)

\* Mutated: providers are not compared with the configuration.
Routable_Anywhere(c, e) == Targets(c, e) # <<>>

Routable(c, e) ==
  Targets(c, e) # <<>> /\ Range(Targets(c, e)) \subseteq Known(c)

Decoded(r) ==
  IF r.via = "grpc" THEN toEvents(r.body) ELSE decodeEvents(r.body)

\* Receiver.Ingest gets past its checks, which look at every event of the
\* request before the first is stored.  Otherwise: 400, InvalidArgument.
Admissible(c, r) ==
  /\ r.via = "http" => Decodes(r.body)
  /\ r.body # <<>>
  /\ \A k \in DOMAIN r.body :
       validate(Decoded(r)[k]) /\ Routable(c, Decoded(r)[k])

\* What Ingest then hands to its Sink.  WAL.Append cannot encode every event.
Handed(c, r) ==
  [k \in DOMAIN r.body |->
     [event |-> r.body[k].event, route |-> Targets(c, r.body[k]),
      encodes |-> r.body[k].stamp # "ancient"]]
=============================================================================
