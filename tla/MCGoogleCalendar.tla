-------------------------- MODULE MCGoogleCalendar --------------------------
(* Instances of GoogleCalendar for TLC. *)
EXTENDS GoogleCalendar

\* An honest expires_in, and an answer without one.
MCAnswers == {[expiresIn |-> 4, lifetime |-> 4], [expiresIn |-> 0, lifetime |-> 3]}
=============================================================================
