--------------------------- MODULE Throttle_proofs ----------------------------
(***************************************************************************)
(* Theorems of ThrottleParts: every GET of the clients is paid for, and the *)
(* deployed counter keeps its limit wherever the clock is set, but for the  *)
(* grants that it is set back in.  Those of the counter itself are in       *)
(* FixedWindowCounter_proofs.                                               *)
(***************************************************************************)
EXTENDS ThrottleParts, TLAPS

\* What a task paid for before it came to where it is.
PaidBefore(r, c) == {<<d, r.origin>> : d \in
    CASE c = "paged" -> {}
      [] c = "general" -> (IF r.paged THEN {"paged"} ELSE {})
      [] c = "burst" -> (IF r.paged THEN {"paged"} ELSE {}) \union {"general"}
      [] c = "get" -> (IF r.paged THEN {"paged"} ELSE {}) \union {"general", "burst"}}

CallRecords == [client : {"activity", "webfinger", "nodeinfo"}, at : Calls!Counters \union {"get"},
          origin : Origins, paged : BOOLEAN, paid : SUBSET (Calls!Counters \X Origins),
          left : Nat, followed : BOOLEAN, document : BOOLEAN]

Paid(r) == /\ r.at = "paged" => r.paged
           /\ r.paged => r.client = "activity"
           /\ r.followed => r.at = "get" /\ r.client # "activity"
           /\ ~ r.followed => r.paid = PaidBefore(r, r.at)

PaidInv == task \in [Tasks -> {Calls!Idle} \union {r \in CallRecords : Paid(r)}]

LEMMA OneTask ==
  ASSUME PaidInv, NEW t \in Tasks, NEW r \in {Calls!Idle} \union {c \in CallRecords : Paid(c)},
         task' = [task EXCEPT ![t] = r]
  PROVE  PaidInv'
BY DEF PaidInv

LEMMA StartPays ==
  ASSUME Calls!RequestsAssumption, PaidInv, NEW t \in Tasks, Calls!Start(t)
  PROVE  PaidInv'
<1>1. PICK client \in Clients, o \in Origins, paged \in BOOLEAN :
         /\ paged => client = "activity"
         /\ task' = [task EXCEPT ![t] =
               [client |-> client, at |-> Calls!First(paged), origin |-> o, paged |-> paged, paid |-> {},
                left |-> IF client = "activity" THEN MaxRecursions ELSE MaxFollowed,
                followed |-> FALSE, document |-> FALSE]]
  BY DEF Calls!Start
<1> DEFINE r == [client |-> client, at |-> Calls!First(paged), origin |-> o, paged |-> paged, paid |-> {},
                 left |-> IF client = "activity" THEN MaxRecursions ELSE MaxFollowed,
                 followed |-> FALSE, document |-> FALSE]
<1>2. r \in CallRecords
  BY DEF CallRecords, Calls!First, Calls!Counters, Calls!RequestsAssumption
<1>3. Paid(r)
  BY <1>1 DEF Paid, PaidBefore, Calls!First
<1> HIDE DEF r
<1>4. QED
  BY <1>1, <1>2, <1>3, OneTask DEF r

LEMMA TakePays ==
  ASSUME PaidInv, NEW t \in Tasks, Calls!Take(t)
  PROVE  PaidInv'
<1> DEFINE r == task[t]
           to == CASE r.at = "paged" -> "general"
                   [] r.at = "general" -> "burst"
                   [] r.at = "burst" -> "get"
           s == [r EXCEPT !.paid = @ \union {<<r.at, r.origin>>}, !.at = to]
<1>1. r \in CallRecords /\ Paid(r) /\ r.at \in {"paged", "general", "burst"}
  BY DEF Calls!Take, Calls!Waiting, Calls!Counters, Calls!Idle, PaidInv
<1>2. task' = [task EXCEPT ![t] = s]
  BY <1>1 DEF Calls!Take, PaidInv
<1>3. s.at = to /\ s.origin = r.origin /\ s.paged = r.paged
      /\ s.paid = r.paid \union {<<r.at, r.origin>>}
  BY <1>1 DEF CallRecords
<1>4. to \in {"general", "burst", "get"}
  BY <1>1
<1>5. s \in CallRecords
  <2>1. <<r.at, r.origin>> \in Calls!Counters \X Origins
    BY <1>1 DEF CallRecords, Calls!Counters
  <2>2. r.paid \union {<<r.at, r.origin>>} \in SUBSET (Calls!Counters \X Origins)
    BY <1>1, <2>1 DEF CallRecords
  <2>3. to \in Calls!Counters \union {"get"}
    BY <1>4 DEF Calls!Counters
  <2> HIDE DEF to
  <2>4. QED
    BY <1>1, <2>2, <2>3 DEF CallRecords
<1>6. Paid(s)
  BY <1>1, <1>3 DEF Paid, PaidBefore
<1> HIDE DEF r, s
<1>7. QED
  BY <1>2, <1>5, <1>6, OneTask

\* A redirect and a link start anew.
LEMMA AgainPays ==
  ASSUME Calls!RequestsAssumption, PaidInv, NEW t \in Tasks, Calls!Redirect(t) \/ Calls!Link(t)
  PROVE  PaidInv'
<1>1. task[t].at = "get" /\ task[t] \in CallRecords /\ Paid(task[t])
  <2>1. task[t].at = "get"
    BY DEF Calls!Redirect, Calls!Link
  <2>2. QED
    BY <2>1 DEF Calls!Idle, PaidInv
<1>2. CASE Calls!Redirect(t)
  <2>1. PICK o \in Origins, paged \in BOOLEAN : task' = [task EXCEPT ![t] = Calls!Recursion(@, o, paged)]
    BY <1>2 DEF Calls!Redirect
  <2> DEFINE r == Calls!Recursion(task[t], o, paged)
  <2>2. /\ r.at = Calls!First(paged) /\ r.origin = o /\ r.paged = paged /\ r.paid = {}
        /\ r.client = "activity" /\ ~ r.followed /\ r \in CallRecords
    <3>1. task[t].left > 0 /\ task[t].client = "activity" /\ task[t].left \in Nat
      BY <1>1, <1>2 DEF Calls!Redirect, CallRecords
    <3>2. Calls!First(paged) \in Calls!Counters \union {"get"}
      BY DEF Calls!First, Calls!Counters
    <3>3. r = [task[t] EXCEPT !.origin = o, !.paged = paged, !.at = Calls!First(paged), !.paid = {},
                              !.left = task[t].left - 1]
      BY <1>1 DEF Calls!Recursion, CallRecords
    <3>4. task[t].left - 1 \in Nat
      BY <3>1
    <3>5. /\ r.at = Calls!First(paged) /\ r.origin = o /\ r.paged = paged /\ r.paid = {}
          /\ r.client = "activity" /\ ~ r.followed
      BY <1>1, <3>1, <3>3 DEF CallRecords, Paid
    <3>6. r \in CallRecords
      BY <1>1, <3>2, <3>3, <3>4 DEF CallRecords
    <3>7. QED
      BY <3>5, <3>6
  <2>5. Paid(r)
    BY <2>2 DEF Paid, PaidBefore, Calls!First
  <2>3. task' = [task EXCEPT ![t] = r]
    BY <2>1 DEF PaidInv
  <2> HIDE DEF r
  <2>4. QED
    BY <2>2, <2>3, <2>5, OneTask
<1>3. CASE Calls!Link(t)
  <2>1. PICK o \in Origins :
           task' = [task EXCEPT ![t] = [@ EXCEPT !.origin = o, !.at = "general", !.paid = {},
                                                 !.left = MaxFollowed, !.followed = FALSE,
                                                 !.document = TRUE]]
    BY <1>3 DEF Calls!Link
  <2> DEFINE r == [task[t] EXCEPT !.origin = o, !.at = "general", !.paid = {},
                                  !.left = MaxFollowed, !.followed = FALSE, !.document = TRUE]
  <2>2. /\ r.at = "general" /\ r.origin = o /\ ~ r.paged /\ r.paid = {} /\ ~ r.followed
        /\ r \in CallRecords
    <3>1. ~ task[t].paged
      BY <1>1, <1>3 DEF Calls!Link, Paid, CallRecords
    <3>2. QED
      BY <1>1, <3>1 DEF Calls!Counters, Calls!RequestsAssumption, CallRecords
  <2>3. Paid(r)
    BY <2>2 DEF Paid, PaidBefore
  <2>4. task' = [task EXCEPT ![t] = r]
    BY <2>1 DEF PaidInv
  <2> HIDE DEF r
  <2>5. QED
    BY <2>2, <2>3, <2>4, OneTask
<1>4. QED
  BY <1>2, <1>3

LEMMA PaidStep ==
  ASSUME Calls!RequestsAssumption, PaidInv, [Calls!Next]_(Calls!vars)
  PROVE  PaidInv'
<1>1. CASE UNCHANGED Calls!vars
  BY <1>1 DEF Calls!vars, PaidInv
<1>2. CASE Calls!Tick
  BY <1>2 DEF Calls!Tick, PaidInv
<1>3. ASSUME NEW t \in Tasks, Calls!Start(t) \/ Calls!Take(t) \/ Calls!Redirect(t) \/ Calls!Link(t)
      PROVE  PaidInv'
  BY <1>3, StartPays, TakePays, AgainPays
<1>4. ASSUME NEW t \in Tasks, Calls!Answer(t)
      PROVE  PaidInv'
  BY <1>4, OneTask DEF Calls!Answer
<1>5. ASSUME NEW t \in Tasks, Calls!Follow(t)
      PROVE  PaidInv'
  <2>1. /\ task[t].at = "get" /\ task[t].left > 0 /\ task[t].client # "activity"
        /\ \E o \in Origins : task' = [task EXCEPT ![t] = Calls!Followed(@, o)]
    BY <1>5 DEF Calls!Follow
  <2>2. PICK o \in Origins : task' = [task EXCEPT ![t] = Calls!Followed(@, o)]
    BY <2>1
  <2> DEFINE r == Calls!Followed(task[t], o)
  <2>3. task[t] \in CallRecords /\ Paid(task[t])
    BY <2>1 DEF Calls!Idle, PaidInv
  <2>4. task[t].left - 1 \in Nat
    BY <2>1, <2>3 DEF CallRecords
  <2>5. r \in CallRecords /\ r.at = "get" /\ r.followed /\ r.paged = task[t].paged
        /\ r.client = task[t].client
    BY <2>1, <2>3, <2>4 DEF CallRecords, Calls!Followed
  <2>6. Paid(r)
    BY <2>1, <2>3, <2>5 DEF Paid
  <2>7. task' = [task EXCEPT ![t] = r]
    BY <2>2 DEF PaidInv
  <2> HIDE DEF r
  <2>8. QED
    BY <2>5, <2>6, <2>7, OneTask
<1>6. QED
  BY <1>1, <1>2, <1>3, <1>4, <1>5 DEF Calls!Next, Calls!Ends

LEMMA PaidInit == Calls!Init => PaidInv
BY DEF Calls!Init, PaidInv

\* tests/test_activity_pub_client.py: "The acquire happens per actual GET - inside
\* the redirect loop - keyed by origin".  For any tasks, origins and chains of
\* redirects: a GET that a client is about to send has paid each counter it needs.
\* Nothing is said of the GETs that httpx adds when it follows a redirect itself.
THEOREM GetsArePaid == AllSpec => []EachGetIsPaid
<1>1. AllInit => PaidInv
  BY PaidInit DEF AllInit
<1>2. PaidInv /\ [AllNext]_allVars => PaidInv'
  <2>1. [AllNext]_allVars => [Calls!Next]_(Calls!vars)
    BY DEF AllNext, allVars, callVars, Calls!vars
  <2>2. QED
    BY <2>1, PaidStep, CallsAssumption
<1>3. PaidInv => EachGetIsPaid
  <2>1. ASSUME PaidInv, NEW t \in Tasks, task[t].at = "get" /\ ~ task[t].followed
        PROVE  task[t].paid =
                   {<<c, task[t].origin>> : c \in Calls!Counters \ (IF task[t].paged THEN {} ELSE {"paged"})}
    <3>1. Paid(task[t])
      BY <2>1 DEF Calls!Idle, PaidInv
    <3>2. Calls!Counters \ (IF task[t].paged THEN {} ELSE {"paged"})
            = (IF task[t].paged THEN {"paged"} ELSE {}) \union {"general", "burst"}
      BY DEF Calls!Counters
    <3>3. QED
      BY <2>1, <3>1, <3>2 DEF Paid, PaidBefore
  <2>2. QED
    BY <2>1 DEF EachGetIsPaid, Calls!EachGetIsPaid
<1>4. QED
  BY <1>1, <1>2, <1>3, PTL DEF AllSpec

-----------------------------------------------------------------------------
(* The counter of one token. *)

Back == INSTANCE FixedWindowCounter_proofs WITH
            Tokens <- 1, StepsBack <- TRUE, Peeks <- FALSE, asleep <- dozing

\* What the instance of the theorems is about is the counter of the part.
LEMMA SameCounter ==
  /\ SetBack!Init <=> Back!Init
  /\ [SetBack!Next]_(SetBack!vars) => [Back!Next]_(Back!vars)
  /\ Back!OneButForTorn <=> SetBack!OneButForTorn
<1>1. SetBack!Windows = Back!Windows
  BY DEF SetBack!Windows, Back!Windows
<1>2. \A o \in Origins : SetBack!Ensured(o) = Back!Ensured(o)
  BY DEF SetBack!Ensured, Back!Ensured
<1>3. SetBack!Init <=> Back!Init
  BY <1>1 DEF SetBack!Init, Back!Init
<1>4. SetBack!Next => Back!Next
  <2>1. ASSUME NEW t \in Tasks, NEW o \in Origins, SetBack!Acquire(t, o)
        PROVE  Back!Acquire(t, o)
    BY <2>1 DEF SetBack!Acquire, Back!Acquire
  <2>2. ASSUME NEW t \in Tasks, NEW stamp \in SetBack!Windows, SetBack!Grant(t, stamp)
        PROVE  stamp \in Back!Windows /\ Back!Grant(t, stamp)
    BY <2>2 DEF SetBack!Grant, Back!Grant, SetBack!Ensured, Back!Ensured, SetBack!Windows, Back!Windows,
                SetBack!Reads, Back!Reads, SetBack!Torn, Back!Torn
  <2>3. ASSUME NEW t \in Tasks, NEW reading \in SetBack!Windows, SetBack!Refuse(t, reading)
        PROVE  reading \in Back!Windows /\ Back!Refuse(t, reading)
    BY <2>3 DEF SetBack!Refuse, Back!Refuse, SetBack!Ensured, Back!Ensured, SetBack!Windows,
                Back!Windows, SetBack!Reads, Back!Reads
  <2>4. ASSUME NEW t \in Tasks, SetBack!Wake(t)
        PROVE  Back!Wake(t)
    BY <2>4 DEF SetBack!Wake, Back!Wake
  <2>5. SetBack!Tick => Back!Tick
    BY DEF SetBack!Tick, Back!Tick
  <2>6. SetBack!StepBack => Back!StepBack
    BY DEF SetBack!StepBack, Back!StepBack
  <2>7. ASSUME NEW o \in Origins PROVE ~ SetBack!NextAvailable(o)
    BY DEF SetBack!NextAvailable
  <2>8. QED
    BY <2>1, <2>2, <2>3, <2>4, <2>5, <2>6, <2>7 DEF SetBack!Next, Back!Next
<1>5. UNCHANGED SetBack!vars => UNCHANGED Back!vars
  BY DEF SetBack!vars, Back!vars
<1>6. Back!OneButForTorn <=> SetBack!OneButForTorn
  BY <1>1 DEF SetBack!OneButForTorn, Back!OneButForTorn
<1>7. QED
  BY <1>3, <1>4, <1>5, <1>6

\* One token per window, the deployed setting: though the clock comes to a window again,
\* no window sees two requests but for the grants that the clock was set back in.
THEOREM LimitHoldsSetBack == AllSpec => []LimitSetBack
<1> DEFINE Moves == part = "back"
<1>1. AllInit => Back!Init
  BY SameCounter DEF AllInit
<1>2. Moves /\ [AllNext]_allVars => [Back!Next]_(Back!vars) /\ Moves'
  <2>1. part = "back" /\ [AllNext]_allVars => [SetBack!Next]_(SetBack!vars)
    BY DEF AllNext, allVars, vars, callVars, SetBack!vars
  <2>2. QED
    BY <2>1, SameCounter DEF AllNext, allVars
<1>3. ~ Moves /\ [AllNext]_allVars => ~ Moves'
  BY DEF AllNext, allVars
<1>4. Back!Spec => []Back!OneButForTorn
  BY CounterAssumption, Back!SingleLimitHolds DEF Back!CounterAssumption
<1>5. ~ Moves => LimitSetBack
  BY DEF LimitSetBack
<1>6. Back!OneButForTorn => LimitSetBack
  BY SameCounter DEF LimitSetBack
<1> HIDE DEF Moves
<1>7. QED
  BY <1>1, <1>2, <1>3, <1>4, <1>5, <1>6, PTL DEF AllSpec, Back!Spec
=============================================================================
