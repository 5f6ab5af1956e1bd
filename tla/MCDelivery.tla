----------------------------- MODULE MCDelivery -----------------------------
(* Small instances of the whole daemon for TLC. *)
EXTENDS Delivery

CONSTANTS e1, e2, p1, p2, h1, h2

(* Configurations. *)

Section(type) == [type |-> type, token |-> type = "metronome"]

\* Two providers; "usage" has a rule, other events go to p2.
Full == [grpc |-> TRUE, onFull |-> "",
         providers |-> [p \in Providers |-> Section(IF p = p1 THEN "" ELSE "metronome")],
         default |-> <<p2>>,
         rules |-> <<[name |-> "usage", route |-> <<p1, p2>>]>>]

\* p1 has been removed.
Reduced == [Full EXCEPT !.providers = [p \in {p2} |-> Section("stdout")],
                        !.rules = <<>>]

\* The daemon starts with none of these.
Refused == {[Full EXCEPT !.onFull = "drop_best_effort"],
            [Full EXCEPT !.providers[p2].type = "orb"],
            [Full EXCEPT !.providers[p2].token = FALSE],
            [Reduced EXCEPT !.rules = Full.rules]}

\* One provider, and none.
Solo == [Full EXCEPT !.providers = [p \in {p1} |-> Section("metronome")],
                     !.default = <<p1>>, !.rules = <<>>]
Bare == [Solo EXCEPT !.providers = <<>>, !.default = <<>>]

SameConfig == {Full}
SoloConfigs == {Solo, Bare}
AnyConfig == {Full, Reduced} \cup Refused

(* Requests. *)

Ev(e, name, route) ==
  [event |-> e, complete |-> TRUE, stamp |-> "past", name |-> name, route |-> route]
Post(body) == [via |-> "http", body |-> body]
Call(body) == [via |-> "grpc", body |-> body]

Both == <<p1, p2>>
Good == <<Ev(e1, "usage", Both), Ev(e2, "login", <<>>)>>
Unencodable == <<Ev(e2, "login", <<>>), [Ev(e1, "usage", Both) EXCEPT !.stamp = "ancient"]>>
One == <<Ev(e1, "usage", <<>>)>>
Bad == {<<>>, [One EXCEPT ![1].stamp = "absent"], [One EXCEPT ![1].stamp = "future"],
        [One EXCEPT ![1].complete = FALSE]}

Pair == {Post(Good), Post(Unencodable), Call(Unencodable)}
Single == {Post(<<Ev(e1, "login", <<p1>>)>>)}
Dual == {Call(One)} \cup {Call(b) : b \in Bad}

\* Two events for p1, and one of them again, which is now for p2.
Queueful == <<Ev(e1, "login", <<p1>>), Ev(e2, "login", <<p1>>)>>
Crowd == {Call(Queueful)}
Rerouted == {Post(Queueful), Post(<<Ev(e1, "login", <<>>)>>)}

FaultEnv == {"crash", "full", "put"}
ReplayEnv == Mishaps
CrashReplayEnv == {"crash", "replay"}
ReplayOnly == {"replay"}
NoEnv == {}

Symmetry == Permutations(Handlers)
=============================================================================
