---------------------------- MODULE MCSessionApi ----------------------------
(***************************************************************************)
(* One session and two clients for SessionApi.                             *)
(***************************************************************************)
EXTENDS SessionApi

CONSTANTS t1

\* No token contains another.
Unrelated == [t \in Tokens |-> {t}]
=============================================================================
