------------------------------- MODULE MCStartup -------------------------------
(* A small instance of Startup for TLC. *)
EXTENDS Startup

\* Not allowed, ordinary, and too much for a Duration or a channel.
MCInts == {-1, 0, 1, 64}
=============================================================================
