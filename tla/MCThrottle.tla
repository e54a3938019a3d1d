----------------------------- MODULE MCThrottle ------------------------------
(***************************************************************************)
(* ThrottleParts with a counter of several tokens, and with the deployed    *)
(* one of one token; all three clients (client.py) on two origins.          *)
(***************************************************************************)
EXTENDS ThrottleParts

AllClients == {"activity", "webfinger", "nodeinfo"}
=============================================================================
