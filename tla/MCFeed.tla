------------------------------- MODULE MCFeed -------------------------------
(* Instances of Feed for TLC. *)
EXTENDS Feed

CONSTANTS c1, c2

(* Odds: an event, one without an id or a fixture, a block that does not parse,
   an event without a fixture.  Scores: one event. *)
Kinds == [odds |-> <<"event", "anonymous", "junk", "event">>, scores |-> <<"event">>]
NoFixture == {<<"odds", 2>>, <<"odds", 4>>}
=============================================================================
