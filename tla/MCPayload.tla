------------------------------- MODULE MCPayload -------------------------------
(* A small instance of Payload for TLC. *)
EXTENDS Payload

\* No body, {}, and objects with numbers that are floats, between two floats, or rounded
\* to the first float of the next binade.
MCBodies == {<<>>, <<{}>>, <<{7}>>, <<{-16, 3}>>, <<{17}>>, <<{-31}>>}

\* Absent, negative, ordinary, and the two sides of the largest Duration.
MCTimeouts == {-1, 0, 3, 51, 52}
=============================================================================
