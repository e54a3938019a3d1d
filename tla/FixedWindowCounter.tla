------------------------- MODULE FixedWindowCounter -------------------------
(***************************************************************************)
(* pub_crawler/fixed_window_counter.py: at most Tokens requests to an       *)
(* origin in each window of the wall clock.  One counter is shared by all   *)
(* tasks of a process; acquire gives up the event loop only while it        *)
(* sleeps.  The counter compares times with window starts alone, so time is *)
(* the number of the current window.                                        *)
(***************************************************************************)
EXTENDS Integers

CONSTANTS
    Origins,
    Tasks,       \* tasks that call acquire
    NoOrigin,    \* a task that is not in acquire
    Tokens,      \* tokens per window
    Horizon,     \* bound on the number of windows
    StepsBack,   \* the wall clock may be set back
    MaxTorn,     \* bound on grants during which it is
    Peeks        \* next_available is called too

ASSUME CounterAssumption ==
    /\ NoOrigin \notin Origins
    /\ Tokens \in Nat \ {0}
    /\ Horizon \in Nat
    /\ StepsBack \in BOOLEAN
    /\ MaxTorn \in Nat
    /\ Peeks \in BOOLEAN

VARIABLES
    window,   \* the window the clock is in
    bucket,   \* origin -> tokens left, as of the last call for it
    last,     \* origin -> window of the last token spent, -1 for none
    origin,   \* task -> the origin it acquires a token for
    asleep,   \* task -> it sleeps until the window is over
    granted,  \* origin -> window -> tokens spent in it (history)
    torn      \* origin -> grants with the clock set back to an earlier window
              \* between its two readings (history)

vars == <<window, bucket, last, origin, asleep, granted, torn>>

Windows == 0 .. Horizon

TypeOK ==
    /\ window \in Windows
    /\ bucket \in [Origins -> 0 .. Tokens]
    /\ last \in [Origins -> {-1} \union Windows]
    /\ origin \in [Tasks -> Origins \union {NoOrigin}]
    /\ asleep \in [Tasks -> BOOLEAN]
    /\ granted \in [Origins -> [Windows -> Nat]]
    /\ torn \in [Origins -> Nat]

Init ==
    /\ window = 0
    /\ bucket = [o \in Origins |-> 0]
    /\ last = [o \in Origins |-> -1]
    /\ origin = [t \in Tasks |-> NoOrigin]
    /\ asleep = [t \in Tasks |-> FALSE]
    /\ granted = [o \in Origins |-> [k \in Windows |-> 0]]
    /\ torn = [o \in Origins |-> 0]

\* Mutant: <= for <, a bucket is refilled in the window it was spent in.
RefillsTwice(o) == IF last[o] <= window THEN Tokens ELSE bucket[o]

\* Mutant: a bucket is refilled one window late.
RefillsLate(o) == IF last[o] + 1 < window THEN Tokens ELSE bucket[o]

\* _ensure_origin: a full bucket unless a token was spent in this window.
Ensured(o) == IF last[o] < window THEN Tokens ELSE bucket[o]

Acquire(t, o) ==
    /\ origin[t] = NoOrigin
    /\ origin' = [origin EXCEPT ![t] = o]
    /\ UNCHANGED <<window, bucket, last, asleep, granted, torn>>

\* A later reading of the clock: windows may end before it, and earlier ones
\* come back if the clock is set back.
Reads(reading) == reading >= window \/ StepsBack

Torn(o, stamp) == [torn EXCEPT ![o] = IF stamp < window THEN @ + 1 ELSE @]

\* Mutant: the token is not stamped.
GrantUnstamped(t, stamp) ==
    LET o == origin[t]
    IN  /\ o # NoOrigin /\ ~asleep[t]
        /\ Reads(stamp)
        /\ Torn(o, stamp)[o] <= MaxTorn
        /\ Ensured(o) > 0
        /\ bucket' = [bucket EXCEPT ![o] = Ensured(o) - 1]
        /\ window' = stamp
        /\ granted' = [granted EXCEPT ![o][stamp] = @ + 1]
        /\ torn' = Torn(o, stamp)
        /\ origin' = [origin EXCEPT ![t] = NoOrigin]
        /\ UNCHANGED <<last, asleep>>

\* The clock is read once to look at the bucket and again to stamp the token.
Grant(t, stamp) ==
    LET o == origin[t]
    IN  /\ o # NoOrigin /\ ~asleep[t]
        /\ Reads(stamp)
        /\ Torn(o, stamp)[o] <= MaxTorn
        /\ Ensured(o) > 0
        /\ bucket' = [bucket EXCEPT ![o] = Ensured(o) - 1]
        /\ last' = [last EXCEPT ![o] = stamp]
        /\ window' = stamp
        /\ granted' = [granted EXCEPT ![o][stamp] = @ + 1]
        /\ torn' = Torn(o, stamp)
        /\ origin' = [origin EXCEPT ![t] = NoOrigin]
        /\ UNCHANGED asleep

\* The clock is read again to time the sleep: to the end of the window it is in
\* by then.
Refuse(t, reading) ==
    /\ origin[t] # NoOrigin /\ ~asleep[t]
    /\ Ensured(origin[t]) = 0
    /\ Reads(reading)
    /\ window' = reading
    /\ asleep' = [asleep EXCEPT ![t] = TRUE]
    /\ UNCHANGED <<bucket, last, origin, granted, torn>>

\* The sleep is timed by another clock than the one that is read after it; it
\* may be over early or late, and the loop looks again.
Wake(t) ==
    /\ asleep[t]
    /\ asleep' = [asleep EXCEPT ![t] = FALSE]
    /\ UNCHANGED <<window, bucket, last, origin, granted, torn>>

\* next_available fills the bucket of a new window and spends nothing.
NextAvailable(o) ==
    /\ Peeks
    /\ bucket' = [bucket EXCEPT ![o] = Ensured(o)]
    /\ UNCHANGED <<window, last, origin, asleep, granted, torn>>

Tick ==
    /\ window < Horizon
    /\ window' = window + 1
    /\ UNCHANGED <<bucket, last, origin, asleep, granted, torn>>

StepBack ==
    /\ StepsBack
    /\ window > 0
    /\ window' = window - 1
    /\ UNCHANGED <<bucket, last, origin, asleep, granted, torn>>

Next ==
    \/ \E t \in Tasks : \/ \E o \in Origins : Acquire(t, o)
                        \/ \E stamp \in Windows : Grant(t, stamp)
                        \/ \E reading \in Windows : Refuse(t, reading)
                        \/ Wake(t)
    \/ \E o \in Origins : NextAvailable(o)
    \/ Tick
    \/ StepBack

Spec == Init /\ [][Next]_vars

\* No window of no origin sees more than Tokens requests, whatever tasks wait
\* for it and wherever their clock readings fall.
WithinLimit == \A o \in Origins : \A k \in Windows : granted[o][k] <= Tokens

\* With one token per window, wherever the clock is set: two requests in a window
\* only if the clock was set back during a grant, and one more for each time it was.
OneButForTorn == \A o \in Origins : \A k \in Windows : granted[o][k] <= 1 + torn[o]

\* A task goes to sleep only when the window that it looked at has had a request
\* of its origin.  It may sleep through the window after it, used or not, if that
\* one began before the sleep was timed; then it looks again.
NoIdleWait ==
    [][\A t \in Tasks : asleep'[t] /\ ~asleep[t] => granted[origin[t]][window] > 0]_vars

-----------------------------------------------------------------------------
\* What makes the two inductive while the clock goes forward: the last stamp is
\* not in the future, windows after it are untouched and its own is not, and in
\* the current window spent and remaining tokens make up the limit at most.
StampPast == \A o \in Origins : last[o] <= window

LaterUntouched == \A o \in Origins : \A k \in Windows : k > last[o] => granted[o][k] = 0

StampSpent == \A o \in Origins : last[o] # -1 => granted[o][last[o]] > 0

Budget == \A o \in Origins : last[o] = window => granted[o][window] + bucket[o] <= Tokens

IInv == TypeOK /\ StampPast /\ LaterUntouched /\ StampSpent /\ Budget /\ WithinLimit

\* What makes OneButForTorn inductive with no peeking: a stamped bucket is empty,
\* and a window after the last stamp was come to only by a torn grant.
SingleIInv ==
    /\ TypeOK /\ OneButForTorn
    /\ \A o \in Origins : last[o] # -1 => bucket[o] = 0
    /\ \A o \in Origins : \A k \in Windows : k > last[o] => granted[o][k] <= torn[o]
=============================================================================
