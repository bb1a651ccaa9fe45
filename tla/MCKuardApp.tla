----------------------------- MODULE MCKuardApp -----------------------------
(* Instances of KuardApp for TLC. *)
EXTENDS KuardApp, TLC

CONSTANTS r1, r2

Scenario(p1, p2, debug, killed, tls) ==
  [page |-> r1 :> p1 @@ r2 :> p2, valid |-> TRUE, debug |-> debug, exits |-> FALSE,
   killed |-> killed, tls |-> tls]

SomeScenarios == {
  Scenario("memory", "memory", FALSE, FALSE, "none"),
  Scenario("root", "root", TRUE, FALSE, "good"),
  Scenario("root", "dns", FALSE, TRUE, "half"),
  Scenario("memory", "none", FALSE, TRUE, "good"),
  Scenario("dns", "none", TRUE, FALSE, "none"),
  Scenario("root", "none", FALSE, FALSE, "bad"),
  [Scenario("root", "none", FALSE, FALSE, "none") EXCEPT !.exits = TRUE],
  [Scenario("root", "none", TRUE, FALSE, "none") EXCEPT !.valid = FALSE]}
=============================================================================
