------------------------------ MODULE Requests ------------------------------
(***************************************************************************)
(* activity_pub_client.py, webfinger_client.py and nodeinfo_client.py: the  *)
(* tasks of a process send GETs, and take a token of the origin from each   *)
(* of the counters they share before they do (throttle.py: one token per    *)
(* window).  FixedWindowCounter is the counter itself; here a token is      *)
(* there or not, and a new window brings it back.                           *)
(***************************************************************************)
EXTENDS Integers

CONSTANTS
    Tasks, Origins,
    Clients,         \* which of "activity", "webfinger", "nodeinfo" are used
    PageWindows,     \* general windows to a window of the paged counter
    MaxRecursions,   \* MAX_RECURSIONS
    MaxFollowed,     \* bound on redirects that httpx follows by itself
    MaxRequests      \* bound on requests

RequestsAssumption ==
    /\ Clients \subseteq {"activity", "webfinger", "nodeinfo"}
    /\ PageWindows \in Nat \ {0}
    /\ MaxRecursions \in Nat /\ MaxFollowed \in Nat /\ MaxRequests \in Nat

VARIABLES
    token,     \* counter -> origins that have a token left
    beat,      \* windows since the paged counter's last one began
    task,      \* task -> its request
    requests

vars == <<token, beat, task, requests>>

Counters == {"paged", "general", "burst"}
Idle == [at |-> "idle"]

Init ==
    /\ token = [c \in Counters |-> Origins]
    /\ beat = 0
    /\ task = [t \in Tasks |-> Idle]
    /\ requests = 0

\* A GET asks for its tokens in this order.
First(paged) == IF paged THEN "paged" ELSE "general"

\* paid: the tokens taken for the GET to come; left: recursions or follow-ups it
\* may make yet; followed: httpx sends the GET, for a redirect; document: it asks
\* for the nodeinfo document.
Start(t) ==
    /\ task[t] = Idle /\ requests < MaxRequests
    /\ \E client \in Clients, o \in Origins, paged \in BOOLEAN :
          /\ paged => client = "activity"
          /\ task' = [task EXCEPT ![t] =
                [client |-> client, at |-> First(paged), origin |-> o, paged |-> paged, paid |-> {},
                 left |-> IF client = "activity" THEN MaxRecursions ELSE MaxFollowed,
                 followed |-> FALSE, document |-> FALSE]]
    /\ requests' = requests + 1
    /\ UNCHANGED <<token, beat>>

Waiting(t) == task[t].at \in Counters

\* acquire: a token of the current window, or sleep and look again.
Take(t) ==
    LET r == task[t]
    IN  /\ Waiting(t) /\ r.origin \in token[r.at]
        /\ token' = [token EXCEPT ![r.at] = @ \ {r.origin}]
        /\ task' = [task EXCEPT ![t].paid = @ \union {<<r.at, r.origin>>},
                                ![t].at = CASE r.at = "paged" -> "general"
                                            [] r.at = "general" -> "burst"
                                            [] r.at = "burst" -> "get"]
        /\ UNCHANGED <<beat, requests>>

Tick ==
    /\ beat' = (beat + 1) % PageWindows
    /\ token' = [c \in Counters |-> IF c = "paged" /\ beat' # 0 THEN token[c] ELSE Origins]
    /\ UNCHANGED <<task, requests>>

\* Mutant: the next GET of a chain does not ask for tokens.
Unpaid(r, o, paged) ==
    [r EXCEPT !.origin = o, !.paged = paged, !.at = "get", !.left = @ - 1]

\* Mutant: the count of recursions is not handed down.
Uncounted(r, o, paged) ==
    [r EXCEPT !.origin = o, !.paged = paged, !.at = First(paged), !.paid = {}]

\* _get_with_headers calls itself with the new URL.
Recursion(r, o, paged) ==
    [r EXCEPT !.origin = o, !.paged = paged, !.at = First(paged), !.paid = {}, !.left = @ - 1]

\* A document, an error or what is not JSON: the call returns or raises.
Answer(t) ==
    /\ task[t].at = "get"
    /\ task' = [task EXCEPT ![t] = Idle]
    /\ UNCHANGED <<token, beat, requests>>

Redirect(t) ==
    /\ task[t].at = "get" /\ task[t].client = "activity" /\ task[t].left > 0
    /\ \E o \in Origins, paged \in BOOLEAN :
          task' = [task EXCEPT ![t] = Recursion(@, o, paged)]
    /\ UNCHANGED <<token, beat, requests>>

\* The other clients leave redirects to httpx, which sends the next GET at once, to
\* whatever origin: no token is asked for.
Followed(r, o) == [r EXCEPT !.origin = o, !.paid = {}, !.left = @ - 1, !.followed = TRUE]

Follow(t) ==
    /\ task[t].at = "get" /\ task[t].client # "activity" /\ task[t].left > 0
    /\ \E o \in Origins : task' = [task EXCEPT ![t] = Followed(@, o)]
    /\ UNCHANGED <<token, beat, requests>>

\* The discovery document of nodeinfo links to the document, of any origin.
Link(t) ==
    /\ task[t].at = "get" /\ task[t].client = "nodeinfo" /\ ~ task[t].document
    /\ \E o \in Origins :
          task' = [task EXCEPT ![t] = [@ EXCEPT !.origin = o, !.at = "general", !.paid = {},
                                                !.left = MaxFollowed, !.followed = FALSE,
                                                !.document = TRUE]]
    /\ UNCHANGED <<token, beat, requests>>

\* What comes of a GET.
Ends(t) == Answer(t) \/ Redirect(t) \/ Follow(t) \/ Link(t)

Next ==
    \/ Tick
    \/ \E t \in Tasks : Start(t) \/ Take(t) \/ Ends(t)

\* A GET ends by an answer or by its timeout; a task that sleeps looks again.
Fairness ==
    /\ WF_vars(Tick)
    /\ \A t \in Tasks : WF_vars(Take(t)) /\ WF_vars(Ends(t))

Spec == Init /\ [][Next]_vars /\ Fairness

-----------------------------------------------------------------------------
(***************************************************************************)
(* tests/test_activity_pub_client.py: "The acquire happens per actual GET - *)
(* inside the redirect loop - keyed by origin".  A GET that a client is     *)
(* about to send, a redirect that it follows itself included, has the       *)
(* tokens of the origin it goes to, the paged one too if its own URL is     *)
(* paged, and none was used for a GET before it.  The GETs that httpx adds  *)
(* (webfinger_client.py:48, nodeinfo_client.py:194) have no tokens at all.  *)
(***************************************************************************)
EachGetIsPaid ==
    \A t \in Tasks : task[t].at = "get" /\ ~ task[t].followed =>
        task[t].paid = {<<c, task[t].origin>> : c \in Counters \ (IF task[t].paged THEN {} ELSE {"paged"})}

(***************************************************************************)
(* Every call ends, though a paged request waits at one counter with the    *)
(* token of another, though tasks take tokens from each other, and though   *)
(* servers redirect in circles.                                             *)
(***************************************************************************)
CallsEnd == \A t \in Tasks : task[t] # Idle ~> task[t] = Idle
=============================================================================
