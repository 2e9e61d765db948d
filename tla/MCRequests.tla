----------------------------- MODULE MCRequests -----------------------------
(***************************************************************************)
(* A small instance of Requests for TLC: two users, a movie, and a series  *)
(* with one episode, which has aired: whether it is in scope depends on    *)
(* who asked.                                                              *)
(***************************************************************************)
EXTENDS Requests

CONSTANTS e1

MCEpisodes == [t \in Series |-> {e1}]
=============================================================================
