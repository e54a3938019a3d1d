---------------------- MODULE FixedWindowCounter_proofs ----------------------
(***************************************************************************)
(* The limit holds for every number of origins, tasks, windows and tokens,  *)
(* as long as the clock goes forward; with one token per window, the        *)
(* deployed setting, what a clock that is set back can add to it is bounded *)
(* by the grants that it was set back in.                                   *)
(***************************************************************************)
EXTENDS FixedWindowCounter, TLAPS

\* What a look at the bucket returns is a number of tokens, and one that fits
\* the budget of the window.
LEMMA EnsuredType ==
    ASSUME TypeOK, NEW o \in Origins
    PROVE  Ensured(o) \in 0 .. Tokens
BY CounterAssumption DEF TypeOK, Windows, Ensured

\* Times are integers.
LEMMA Numbers ==
    ASSUME TypeOK
    PROVE  /\ window \in Nat
           /\ \A o \in Origins : last[o] \in Int /\ (last[o] = -1 \/ last[o] \in Windows)
BY CounterAssumption DEF TypeOK, Windows

\* The variables keep their types: in particular no bucket goes below zero or
\* above the limit.
LEMMA TypeStep ==
    ASSUME TypeOK, [Next]_vars
    PROVE  TypeOK'
<1> USE CounterAssumption
<1>1. ASSUME UNCHANGED vars PROVE TypeOK'
  BY <1>1 DEF vars, TypeOK, Windows
<1>2. ASSUME NEW t \in Tasks, NEW o \in Origins, Acquire(t, o) PROVE TypeOK'
  BY <1>2 DEF TypeOK, Windows, Acquire
<1>3. ASSUME NEW t \in Tasks, NEW stamp \in Windows, Grant(t, stamp) PROVE TypeOK'
  <2> DEFINE o == origin[t]
  <2>1. o \in Origins
    BY <1>3 DEF TypeOK, Grant
  <2>2. Ensured(o) - 1 \in 0 .. Tokens
    BY <1>3, <2>1, EnsuredType DEF Grant
  <2>3. granted[o] \in [Windows -> Nat]
    BY <2>1 DEF TypeOK
  <2>4. granted' \in [Origins -> [Windows -> Nat]]
    BY <1>3, <2>1, <2>3 DEF TypeOK, Grant
  <2>5. torn' \in [Origins -> Nat]
    BY <1>3, <2>1 DEF TypeOK, Grant, Torn
  <2> QED
    BY <1>3, <2>1, <2>2, <2>4, <2>5 DEF TypeOK, Grant
<1>4. ASSUME NEW t \in Tasks, NEW reading \in Windows, Refuse(t, reading) PROVE TypeOK'
  BY <1>4 DEF TypeOK, Windows, Refuse
<1>5. ASSUME NEW t \in Tasks, Wake(t) PROVE TypeOK'
  BY <1>5 DEF TypeOK, Windows, Wake
<1>6. ASSUME NEW o \in Origins, NextAvailable(o) PROVE TypeOK'
  BY <1>6, EnsuredType DEF TypeOK, Windows, NextAvailable
<1>7. ASSUME Tick PROVE TypeOK'
  BY <1>7 DEF TypeOK, Windows, Tick
<1>8. ASSUME StepBack PROVE TypeOK'
  BY <1>8 DEF TypeOK, Windows, StepBack
<1> QED
  BY <1>1, <1>2, <1>3, <1>4, <1>5, <1>6, <1>7, <1>8 DEF Next

-----------------------------------------------------------------------------
\* While the clock goes forward the invariant survives every step.  Granting a
\* token is the step that could break it: the token may carry the stamp of the
\* window after the one in which the bucket was looked at.
LEMMA SteadyStep ==
    ASSUME ~StepsBack, IInv, [Next]_vars
    PROVE  IInv'
<1> USE CounterAssumption DEF IInv
<1>0. TypeOK'
  BY TypeStep
<1> DEFINE Rest == StampPast /\ LaterUntouched /\ StampSpent /\ Budget /\ WithinLimit
<1>a. ASSUME UNCHANGED <<window, bucket, last, granted>> PROVE Rest'
  BY <1>a DEF StampPast, LaterUntouched, StampSpent, Budget, WithinLimit, Windows
<1>1. ASSUME UNCHANGED vars PROVE Rest'
  BY <1>1, <1>a DEF vars
<1>2. ASSUME NEW t \in Tasks, NEW o \in Origins, Acquire(t, o) PROVE Rest'
  BY <1>2, <1>a DEF Acquire
<1>3. ASSUME NEW t \in Tasks, NEW stamp \in Windows, Grant(t, stamp) PROVE Rest'
  <2> DEFINE o == origin[t]
  <2>1. /\ o \in Origins
        /\ window \in Windows /\ stamp >= window
        /\ last[o] \in {-1} \union Windows /\ last[o] <= window
        /\ bucket[o] \in 0 .. Tokens
        /\ granted[o] \in [Windows -> Nat]
    BY <1>3 DEF TypeOK, Grant, Reads, StampPast
  <2>2. /\ window' = stamp
        /\ last' = [last EXCEPT ![o] = stamp]
        /\ bucket' = [bucket EXCEPT ![o] = Ensured(o) - 1]
        /\ granted' = [granted EXCEPT ![o][stamp] = @ + 1]
        /\ Ensured(o) > 0
    BY <1>3 DEF Grant
  <2>3. granted[o][stamp] + Ensured(o) <= Tokens
    <3>1. CASE last[o] = window /\ stamp = window
      <4>1. ~(last[o] < window) /\ Ensured(o) = bucket[o]
        BY <2>1, <3>1 DEF Ensured, Windows
      <4> QED
        BY <2>1, <3>1, <4>1 DEF Budget
    <3>2. CASE last[o] < stamp
      <4>1. granted[o][stamp] = 0
        BY <2>1, <3>2 DEF LaterUntouched
      <4>2. Ensured(o) \in 0 .. Tokens
        BY <2>1, EnsuredType
      <4> QED
        BY <4>1, <4>2
    <3>3. last[o] \in Int /\ window \in Nat /\ stamp \in Nat
      BY <2>1, Numbers DEF Windows
    <3> QED
      BY <2>1, <3>1, <3>2, <3>3
  <2>4. /\ last'[o] = stamp /\ bucket'[o] = Ensured(o) - 1
        /\ granted'[o][stamp] = granted[o][stamp] + 1
        /\ \A k \in Windows \ {stamp} : granted'[o][k] = granted[o][k]
    BY <2>1, <2>2 DEF TypeOK
  <2>5. \A q \in Origins \ {o} : /\ last'[q] = last[q] /\ bucket'[q] = bucket[q]
                                 /\ granted'[q] = granted[q]
    BY <2>1, <2>2 DEF TypeOK
  <2>6. \A q \in Origins : /\ last[q] \in {-1} \union Windows
                           /\ bucket[q] \in 0 .. Tokens
                           /\ \A k \in Windows : granted[q][k] \in Nat
    BY DEF TypeOK
  <2>7. Ensured(o) \in 0 .. Tokens
    BY <2>1, EnsuredType
  <2>8. stamp >= window /\ stamp \in Nat /\ window \in Nat
    BY <2>1 DEF Windows
  <2>9. StampPast'
    BY <2>2, <2>4, <2>5, <2>6, <2>8 DEF StampPast, Windows
  <2>10. LaterUntouched'
    <3> SUFFICES ASSUME NEW q \in Origins, NEW k \in Windows, k > last'[q]
                 PROVE  granted'[q][k] = 0
      BY DEF LaterUntouched, Windows
    <3>1. CASE q = o
      <4>1. k \in Int /\ last[o] \in Int
        BY <2>1, Numbers DEF Windows
      <4>2. k > last[o] /\ k # stamp
        BY <3>1, <4>1, <2>1, <2>4, <2>8
      <4> QED
        BY <4>2, <3>1, <2>1, <2>4 DEF LaterUntouched
    <3>2. CASE q # o
      BY <3>2, <2>5 DEF LaterUntouched
    <3> QED
      BY <3>1, <3>2
  <2>11. StampSpent'
    <3> SUFFICES ASSUME NEW q \in Origins, last'[q] # -1
                 PROVE  granted'[q][last'[q]] > 0
      BY DEF StampSpent
    <3>1. CASE q = o
      BY <3>1, <2>4, <2>6
    <3>2. CASE q # o
      BY <3>2, <2>5 DEF StampSpent
    <3> QED
      BY <3>1, <3>2
  <2>12. Budget'
    <3> SUFFICES ASSUME NEW q \in Origins, last'[q] = stamp
                 PROVE  granted'[q][stamp] + bucket'[q] <= Tokens
      BY <2>2 DEF Budget
    <3>1. CASE q = o
      BY <3>1, <2>3, <2>4, <2>6, <2>7
    <3>2. CASE q # o
      <4>1. last[q] = window /\ stamp = window
        BY <3>2, <2>1, <2>5, <2>6, <2>8 DEF StampPast
      <4> QED
        BY <4>1, <3>2, <2>5 DEF Budget
    <3> QED
      BY <3>1, <3>2
  <2>13. WithinLimit'
    <3> SUFFICES ASSUME NEW q \in Origins, NEW k \in Windows
                 PROVE  granted'[q][k] <= Tokens
      BY DEF WithinLimit, Windows
    <3>1. CASE q = o /\ k = stamp
      BY <3>1, <2>2, <2>3, <2>4, <2>6, <2>7
    <3>2. CASE ~(q = o /\ k = stamp)
      BY <3>2, <2>4, <2>5 DEF WithinLimit
    <3> QED
      BY <3>1, <3>2
  <2> QED
    BY <2>9, <2>10, <2>11, <2>12, <2>13
<1>b. ASSUME window' \in Nat, window' > window, UNCHANGED <<bucket, last, granted>> PROVE Rest'
  <2>1. \A q \in Origins : last[q] \in Int /\ last[q] < window'
    <3>1. \A q \in Origins : last[q] \in Int /\ last[q] <= window
      BY Numbers DEF StampPast
    <3> QED
      BY <1>b, <3>1, Numbers
  <2>2. StampPast'
    BY <1>b, <2>1 DEF StampPast
  <2>3. Budget'
    <3>1. \A q \in Origins : last'[q] # window'
      BY <1>b, <2>1
    <3> QED
      BY <3>1 DEF Budget
  <2>4. LaterUntouched' /\ StampSpent' /\ WithinLimit'
    BY <1>b DEF LaterUntouched, StampSpent, WithinLimit, Windows
  <2> QED
    BY <2>2, <2>3, <2>4
<1>4. ASSUME NEW t \in Tasks, NEW reading \in Windows, Refuse(t, reading) PROVE Rest'
  <2>1. window' = reading /\ reading >= window /\ UNCHANGED <<bucket, last, granted>>
    BY <1>4 DEF Refuse, Reads
  <2>2. window \in Nat /\ reading \in Nat
    BY DEF TypeOK, Windows
  <2>3. CASE reading = window
    BY <2>1, <2>3, <1>a
  <2>4. CASE reading > window
    BY <2>1, <2>2, <2>4, <1>b
  <2> QED
    BY <2>1, <2>2, <2>3, <2>4
<1>5. ASSUME NEW t \in Tasks, Wake(t) PROVE Rest'
  BY <1>5, <1>a DEF Wake
<1>6. ASSUME NEW o \in Origins, NextAvailable(o) PROVE Rest'
  <2>1. UNCHANGED <<window, last, granted>>
    BY <1>6 DEF NextAvailable
  <2>2. \A q \in Origins : last[q] = window => bucket'[q] = bucket[q]
    <3> SUFFICES ASSUME NEW q \in Origins, last[q] = window
                 PROVE  bucket'[q] = bucket[q]
      OBVIOUS
    <3>1. ~(last[q] < window)
      BY DEF TypeOK, Windows
    <3> QED
      BY <1>6, <3>1 DEF NextAvailable, TypeOK, Ensured
  <2>3. Budget'
    BY <2>1, <2>2 DEF Budget
  <2> QED
    BY <2>1, <2>3 DEF StampPast, LaterUntouched, StampSpent, WithinLimit, Windows
<1>7. ASSUME Tick PROVE Rest'
  <2>1. window' = window + 1 /\ UNCHANGED <<bucket, last, granted>>
    BY <1>7 DEF Tick
  <2> QED
    BY <2>1, <1>b, Numbers
<1>8. ASSUME StepBack PROVE Rest'
  BY <1>8 DEF StepBack
<1>9. Rest'
  BY <1>1, <1>2, <1>3, <1>4, <1>5, <1>6, <1>7, <1>8 DEF Next
<1> QED
  BY <1>0, <1>9

\* A process starts with empty buckets that count as full.
LEMMA InitInv == Init => IInv /\ SingleIInv
BY CounterAssumption
   DEF Init, IInv, SingleIInv, TypeOK, Windows, StampPast, LaterUntouched,
       StampSpent, Budget, WithinLimit, OneButForTorn

\* A bucket never holds more than the limit or less than nothing, and every
\* stamp is a window, for any clock and any calls of acquire and next_available.
THEOREM TypeCorrect == Spec => []TypeOK
<1>1. Init => TypeOK
  BY InitInv DEF IInv
<1>2. TypeOK /\ [Next]_vars => TypeOK'
  BY TypeStep
<1> QED
  BY <1>1, <1>2, PTL DEF Spec

\* While the clock goes forward no window of no origin sees more requests than
\* the counter's limit, even if next_available is called in between.
THEOREM LimitHolds == ~StepsBack /\ Spec => []WithinLimit
<1>1. ~StepsBack /\ IInv /\ [Next]_vars => IInv'
  BY SteadyStep
<1>2. IInv => WithinLimit
  BY DEF IInv
<1>3. ASSUME ~StepsBack PROVE Spec => []WithinLimit
  <2>1. IInv /\ [Next]_vars => IInv'
    BY <1>1, <1>3
  <2> QED
    BY <2>1, <1>2, InitInv, PTL DEF Spec
<1> QED
  BY <1>3

\* And a task goes to sleep only when the window it looked at had a request, for any
\* windows that begin before its sleep is timed.
THEOREM NobodyWaitsIdly == ~StepsBack /\ Spec => NoIdleWait
<1> USE CounterAssumption
<1> DEFINE Idle == \A t \in Tasks : asleep'[t] /\ ~asleep[t] => granted[origin[t]][window] > 0
<1>1. ASSUME IInv, [Next]_vars PROVE Idle
  <2> SUFFICES ASSUME NEW u \in Tasks, asleep'[u], ~asleep[u]
               PROVE  granted[origin[u]][window] > 0
    OBVIOUS
  <2>1. \E t \in Tasks : Wake(t) \/ \E reading \in Windows : Refuse(t, reading)
    BY <1>1 DEF Next, vars, Acquire, Grant, NextAvailable, Tick, StepBack
  <2>2. PICK reading \in Windows : Refuse(u, reading)
    BY <1>1, <2>1 DEF Refuse, Wake, IInv, TypeOK
  <2>3. origin[u] \in Origins /\ Ensured(origin[u]) = 0
    BY <1>1, <2>2 DEF Refuse, IInv, TypeOK
  <2>4. last[origin[u]] = window /\ window # -1
    <3>1. last[origin[u]] \in Int /\ window \in Nat
      BY <1>1, <2>3, Numbers DEF IInv
    <3>2. ~(last[origin[u]] < window)
      BY <2>3, CounterAssumption DEF Ensured
    <3>3. last[origin[u]] <= window
      BY <1>1, <2>3 DEF IInv, StampPast
    <3> QED
      BY <3>1, <3>2, <3>3
  <2> QED
    BY <1>1, <2>3, <2>4 DEF IInv, StampSpent
<1>2. ASSUME ~StepsBack PROVE Spec => NoIdleWait
  <2>1. IInv /\ [Next]_vars => IInv'
    BY <1>2, SteadyStep
  <2>2. IInv /\ [Next]_vars => [Idle]_vars
    BY <1>1
  <2> QED
    BY <2>1, <2>2, InitInv, PTL DEF Spec, NoIdleWait
<1> QED
  BY <1>2

-----------------------------------------------------------------------------
\* With one token per window a stamped bucket stays empty until a later window: a
\* clock that is set back makes tasks wait, and only a grant that it is set back in
\* leaves a stamp behind the window it looked at.
LEMMA SingleStep ==
    ASSUME Tokens = 1, ~Peeks, SingleIInv, [Next]_vars
    PROVE  SingleIInv'
<1> USE CounterAssumption
<1> DEFINE Empty == \A o \in Origins : last[o] # -1 => bucket[o] = 0
<1> DEFINE Later == \A o \in Origins : \A k \in Windows : k > last[o] => granted[o][k] <= torn[o]
<1> DEFINE Rest == OneButForTorn /\ Empty /\ Later
<1>0. TypeOK' /\ TypeOK /\ Rest
  BY TypeStep DEF SingleIInv
<1>a. ASSUME UNCHANGED <<bucket, last, granted, torn>> PROVE Rest'
  BY <1>a, <1>0 DEF OneButForTorn, Windows
<1>1. ASSUME UNCHANGED vars PROVE Rest'
  BY <1>1, <1>a DEF vars
<1>2. ASSUME NEW t \in Tasks, NEW o \in Origins, Acquire(t, o) PROVE Rest'
  BY <1>2, <1>a DEF Acquire
<1>3. ASSUME NEW t \in Tasks, NEW stamp \in Windows, Grant(t, stamp) PROVE Rest'
  <2> DEFINE o == origin[t]
  <2>1. /\ o \in Origins
        /\ window \in Nat /\ stamp \in Nat
        /\ last[o] \in {-1} \union Windows
        /\ last' = [last EXCEPT ![o] = stamp]
        /\ bucket' = [bucket EXCEPT ![o] = Ensured(o) - 1]
        /\ granted' = [granted EXCEPT ![o][stamp] = @ + 1]
        /\ torn' = [torn EXCEPT ![o] = IF stamp < window THEN @ + 1 ELSE @]
        /\ Ensured(o) > 0
    BY <1>0, <1>3 DEF TypeOK, Grant, Torn, Windows
  <2>2. last[o] < window /\ Ensured(o) = 1
    BY <2>1, <1>0 DEF Ensured, Windows
  <2>3. /\ torn[o] \in Nat /\ last[o] \in Int
        /\ \A k \in Windows : granted[o][k] \in Nat
    BY <2>1, <1>0 DEF TypeOK, Windows
  <2>4. /\ last'[o] = stamp /\ bucket'[o] = 0
        /\ granted'[o][stamp] = granted[o][stamp] + 1
        /\ \A k \in Windows \ {stamp} : granted'[o][k] = granted[o][k]
        /\ torn'[o] = IF stamp < window THEN torn[o] + 1 ELSE torn[o]
    BY <2>1, <2>2, <1>0 DEF TypeOK
  <2>5. \A q \in Origins \ {o} : /\ last'[q] = last[q] /\ bucket'[q] = bucket[q]
                                 /\ granted'[q] = granted[q] /\ torn'[q] = torn[q]
    BY <2>1, <1>0 DEF TypeOK
  <2>6. Later'
    <3> SUFFICES ASSUME NEW q \in Origins, NEW k \in Windows, k > last'[q]
                 PROVE  granted'[q][k] <= torn'[q]
      BY DEF Windows
    <3>1. CASE q = o
      <4>1. k \in Nat /\ k > stamp /\ granted'[o][k] = granted[o][k]
        BY <3>1, <2>1, <2>4 DEF Windows
      <4>2. CASE stamp < window
        <5>1. torn'[o] = torn[o] + 1 /\ granted[o][k] <= 1 + torn[o]
          BY <4>2, <2>1, <2>4, <1>0 DEF OneButForTorn
        <5> QED
          BY <3>1, <4>1, <5>1, <2>3
      <4>3. CASE ~(stamp < window)
        <5>1. k > last[o] /\ torn'[o] = torn[o]
          BY <4>1, <4>3, <2>1, <2>2, <2>3, <2>4
        <5> QED
          BY <3>1, <4>1, <5>1, <2>1, <1>0
      <4> QED
        BY <4>2, <4>3
    <3>2. CASE q # o
      BY <3>2, <2>5, <1>0
    <3> QED
      BY <3>1, <3>2
  <2>7. OneButForTorn'
    <3> SUFFICES ASSUME NEW q \in Origins, NEW k \in Windows
                 PROVE  granted'[q][k] <= 1 + torn'[q]
      BY DEF OneButForTorn, Windows
    <3>1. CASE q = o /\ k = stamp
      <4>1. CASE stamp < window
        <5>1. torn'[o] = torn[o] + 1 /\ granted[o][stamp] <= 1 + torn[o]
          BY <4>1, <2>1, <2>4, <1>0 DEF OneButForTorn
        <5> QED
          BY <3>1, <5>1, <2>3, <2>4
      <4>2. CASE ~(stamp < window)
        <5>1. stamp > last[o] /\ torn'[o] = torn[o]
          BY <4>2, <2>1, <2>2, <2>3, <2>4
        <5>2. granted[o][stamp] <= torn[o]
          BY <5>1, <2>1, <1>0
        <5> QED
          BY <3>1, <5>1, <5>2, <2>3, <2>4
      <4> QED
        BY <4>1, <4>2
    <3>2. CASE q = o /\ k # stamp
      <4>1. granted'[o][k] = granted[o][k] /\ granted[o][k] <= 1 + torn[o]
        BY <3>2, <2>1, <2>4, <1>0 DEF OneButForTorn
      <4>2. torn'[o] = torn[o] \/ torn'[o] = torn[o] + 1
        BY <2>4
      <4> QED
        BY <3>2, <4>1, <4>2, <2>3
    <3>3. CASE q # o
      BY <3>3, <2>5, <1>0 DEF OneButForTorn
    <3> QED
      BY <3>1, <3>2, <3>3
  <2>8. Empty'
    BY <2>4, <2>5, <1>0
  <2> QED
    BY <2>6, <2>7, <2>8
<1>4. ASSUME NEW t \in Tasks, NEW reading \in Windows, Refuse(t, reading) PROVE Rest'
  BY <1>4, <1>a DEF Refuse
<1>5. ASSUME NEW t \in Tasks, Wake(t) PROVE Rest'
  BY <1>5, <1>a DEF Wake
<1>6. ASSUME Tick \/ StepBack PROVE Rest'
  BY <1>6, <1>a DEF Tick, StepBack
<1>7. Rest'
  BY <1>1, <1>2, <1>3, <1>4, <1>5, <1>6 DEF Next, NextAvailable
<1> QED
  BY <1>0, <1>7 DEF SingleIInv

\* The deployed limits are one request per window (throttle.py) and nothing calls
\* next_available while crawling: then, wherever the clock is set and whenever it is
\* read, a window sees one request, and one more for each grant that the clock was
\* set back in.
THEOREM SingleLimitHolds == Tokens = 1 /\ ~Peeks /\ Spec => []OneButForTorn
<1>1. SingleIInv => OneButForTorn
  BY DEF SingleIInv
<1>2. ASSUME Tokens = 1, ~Peeks PROVE Spec => []OneButForTorn
  <2>1. SingleIInv /\ [Next]_vars => SingleIInv'
    BY <1>2, SingleStep
  <2> QED
    BY <2>1, <1>1, InitInv, PTL DEF Spec
<1> QED
  BY <1>2
=============================================================================
