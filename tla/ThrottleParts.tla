---------------------------- MODULE ThrottleParts ---------------------------
(***************************************************************************)
(* The counter and the clients that take tokens, as three parts of one      *)
(* specification, of which the first state chooses the one that moves: a    *)
(* counter whose clock goes forward, one of one token whose clock is set    *)
(* back, and the clients of three counters.                                 *)
(***************************************************************************)
EXTENDS FixedWindowCounter

CONSTANTS Clients, PageWindows, MaxRecursions, MaxFollowed, MaxRequests

VARIABLES part, token, beat, task, requests,
          dozing   \* asleep, of the counter whose clock is set back

SetBack == INSTANCE FixedWindowCounter WITH
               Tokens <- 1, StepsBack <- TRUE, Peeks <- FALSE, asleep <- dozing
Calls == INSTANCE Requests

ASSUME CallsAssumption == Calls!RequestsAssumption

callVars == <<token, beat, task, requests>>
allVars == <<vars, dozing, callVars, part>>

AllInit == Init /\ SetBack!Init /\ Calls!Init /\ part \in {"forward", "back", "calls"}

AllNext ==
    /\ UNCHANGED part
    /\ \/ part = "forward" /\ Next /\ UNCHANGED <<dozing, callVars>>
       \/ part = "back" /\ SetBack!Next /\ UNCHANGED <<asleep, callVars>>
       \/ part = "calls" /\ Calls!Next /\ UNCHANGED <<vars, dozing>>

AllSpec == AllInit /\ [][AllNext]_allVars /\ (part = "calls" => Calls!Fairness)

\* One token and a clock that is set back: a window that the clock comes to again
\* sees no second request, unless the clock was set back during a grant.
LimitSetBack == part = "back" => SetBack!OneButForTorn

\* A GET that a client sends has the tokens of the origin it goes to, and no token
\* pays for two (activity_pub_client.py, _get_with_headers).
EachGetIsPaid == Calls!EachGetIsPaid

\* Every call of a client ends, though it waits at several counters and is redirected.
CallsEnd == Calls!CallsEnd
=============================================================================
