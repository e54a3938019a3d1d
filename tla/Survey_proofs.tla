---------------------------- MODULE Survey_proofs ----------------------------
(***************************************************************************)
(* Theorems of SurveyParts.  Of HostSurvey, for any hosts, workers and      *)
(* number of runs, and any kills and errors: what a run of                  *)
(* bin/survey_hosts.py leaves in the host table when no other run is at     *)
(* work beside it.  Of the migrations, for any pods and kills, and of the   *)
(* bulk statements, for any callers and keys.                               *)
(***************************************************************************)
EXTENDS SurveyParts, FiniteSetTheorems, WellFoundedInduction, TLAPS

-----------------------------------------------------------------------------
(* The queue of a run and the workers that hold a host. *)

\* The queue has no host twice.
Once(q) == \A i, j \in 1 .. Len(q) : q[i] = q[j] => i = j

InQueue(h, q) == \E i \in 1 .. Len(q) : q[i] = h

BusyIn(f) == {w \in Workers : f[w].at # "idle"}

InHand(h, f) == \E w \in BusyIn(f) : f[w].host = h

Stamp(r) == [run : {r}, time : 0 .. MaxTime]

Hands(D, r) ==
    {Idle} \union [at : {"ask"}, host : D, stamp : Stamp(r)]
           \union [at : {"delete", "set"}, host : D, stamp : Stamp(r), present : Present]

\* What run r has to survey, d, is to be put, u, on the queue q, in the hands f, or
\* done; n jobs are unfinished.
RunOK(D, r, q, f, u, d, n) ==
    /\ u \subseteq d /\ d \subseteq D
    /\ q \in Seq(d) /\ Len(q) <= QueueSize /\ Once(q)
    /\ f \in [Workers -> Hands(d, r)]
    /\ \A h \in u : ~ InQueue(h, q) /\ ~ InHand(h, f)
    /\ \A w \in BusyIn(f) : ~ InQueue(f[w].host, q)
    /\ \A v, w \in BusyIn(f) : f[v].host = f[w].host => v = w
    /\ n = Len(q) + Cardinality(BusyIn(f))

LEMMA AppendFacts ==
  ASSUME NEW S, NEW q \in Seq(S), NEW x \in S
  PROVE  /\ Append(q, x) \in Seq(S) /\ Len(q) \in Nat /\ Len(Append(q, x)) = Len(q) + 1
         /\ \A i \in 1 .. Len(q) : Append(q, x)[i] = q[i]
         /\ Append(q, x)[Len(q) + 1] = x
OBVIOUS

LEMMA TailFacts ==
  ASSUME NEW S, NEW q \in Seq(S), q # <<>>
  PROVE  /\ Len(q) \in Nat \ {0} /\ Head(q) = q[1] /\ Head(q) \in S
         /\ Tail(q) \in Seq(S) /\ Len(Tail(q)) = Len(q) - 1
         /\ \A i \in 1 .. Len(q) - 1 : Tail(q)[i] = q[i + 1]
OBVIOUS

\* Workers take a host up and put it down.
LEMMA BusyMore ==
  ASSUME SurveyAssumption, NEW f, NEW g, NEW w \in Workers, f[w].at = "idle", g[w].at # "idle",
         \A v \in Workers : v # w => g[v] = f[v]
  PROVE  /\ BusyIn(g) = BusyIn(f) \union {w}
         /\ Cardinality(BusyIn(g)) = Cardinality(BusyIn(f)) + 1 /\ Cardinality(BusyIn(f)) \in Nat
<1>1. BusyIn(g) = BusyIn(f) \union {w} /\ w \notin BusyIn(f)
  BY DEF BusyIn
<1>2. IsFiniteSet(BusyIn(f))
  BY FS_Subset DEF BusyIn, SurveyAssumption
<1>3. QED
  BY <1>1, <1>2, FS_AddElement, FS_CardinalityType

LEMMA BusyLess ==
  ASSUME SurveyAssumption, NEW f, NEW g, NEW w \in Workers, f[w].at # "idle", g[w].at = "idle",
         \A v \in Workers : v # w => g[v] = f[v]
  PROVE  /\ BusyIn(g) = BusyIn(f) \ {w}
         /\ Cardinality(BusyIn(g)) = Cardinality(BusyIn(f)) - 1 /\ Cardinality(BusyIn(f)) \in Nat
<1>1. BusyIn(g) = BusyIn(f) \ {w} /\ w \in BusyIn(f)
  BY DEF BusyIn
<1>2. IsFiniteSet(BusyIn(f))
  BY FS_Subset DEF BusyIn, SurveyAssumption
<1>3. QED
  BY <1>1, <1>2, FS_RemoveElement, FS_CardinalityType

LEMMA NoneBusy ==
  ASSUME SurveyAssumption, NEW f
  PROVE  /\ Cardinality(BusyIn(f)) \in Nat
         /\ Cardinality(BusyIn(f)) = 0 <=> BusyIn(f) = {}
<1>1. IsFiniteSet(BusyIn(f))
  BY FS_Subset DEF BusyIn, SurveyAssumption
<1>2. QED
  BY <1>1, FS_EmptySet, FS_CardinalityType

\* A put, a get, a change of what a worker is at, a job done.
LEMMA RunPut ==
  ASSUME SurveyAssumption, NEW D, NEW r, NEW q, NEW f, NEW u, NEW d, NEW n,
         RunOK(D, r, q, f, u, d, n), NEW h \in u, Len(q) < QueueSize, QueueSize \in Nat
  PROVE  RunOK(D, r, Append(q, h), f, u \ {h}, d, n + 1)
<1> DEFINE p == Append(q, h)
<1>1. /\ h \in d /\ p \in Seq(d) /\ Len(q) \in Nat /\ Len(p) = Len(q) + 1
      /\ \A i \in 1 .. Len(q) : p[i] = q[i]
      /\ p[Len(q) + 1] = h
  BY AppendFacts DEF RunOK
<1>2. \A i \in 1 .. Len(p) : i \in 1 .. Len(q) \/ i = Len(q) + 1
  BY <1>1
<1> HIDE DEF p
<1>3. ~ InQueue(h, q) /\ ~ InHand(h, f)
  BY DEF RunOK
<1>4. Once(p)
  BY <1>1, <1>2, <1>3 DEF RunOK, Once, InQueue
<1>5. \A x : x # h => (InQueue(x, p) => InQueue(x, q))
  BY <1>1, <1>2 DEF InQueue
<1>6. \A x \in u \ {h} : ~ InQueue(x, p) /\ ~ InHand(x, f)
  BY <1>5 DEF RunOK
<1>7. \A w \in BusyIn(f) : ~ InQueue(f[w].host, p)
  BY <1>3, <1>5 DEF RunOK, InHand
<1>8. n + 1 = Len(p) + Cardinality(BusyIn(f))
  BY <1>1, NoneBusy DEF RunOK
<1>9. QED
  BY <1>1, <1>4, <1>6, <1>7, <1>8 DEF RunOK, p

LEMMA RunGet ==
  ASSUME NEW D, NEW r, NEW q, NEW f, NEW u, NEW d, NEW n,
         RunOK(D, r, q, f, u, d, n), q # <<>>, NEW w \in Workers, f[w].at = "idle", QueueSize \in Nat,
         NEW g \in [Workers -> Hands(d, r)], \A v \in Workers : v # w => g[v] = f[v],
         g[w].at # "idle", g[w].host = Head(q),
         BusyIn(g) = BusyIn(f) \union {w}, Cardinality(BusyIn(f)) \in Nat,
         Cardinality(BusyIn(g)) = Cardinality(BusyIn(f)) + 1
  PROVE  RunOK(D, r, Tail(q), g, u, d, n)
<1> DEFINE p == Tail(q)
           h == Head(q)
<1>1. /\ Len(q) \in Nat \ {0} /\ h = q[1] /\ h \in d
      /\ p \in Seq(d) /\ Len(p) = Len(q) - 1
      /\ \A i \in 1 .. Len(q) - 1 : p[i] = q[i + 1]
  BY TailFacts DEF RunOK
<1>2. f \in [Workers -> Hands(d, r)]
  BY DEF RunOK
<1>3. g[w].at # "idle" /\ g[w].host = h
  OBVIOUS
<1> HIDE DEF p, h
<1>6. w \notin BusyIn(f)
  BY DEF BusyIn
<1>7. \A i \in 1 .. Len(p) : i \in 1 .. Len(q) /\ i + 1 \in 1 .. Len(q) /\ p[i] = q[i + 1] /\ i + 1 # 1
  BY <1>1
<1>8. Once(p)
  BY <1>1, <1>7 DEF RunOK, Once
<1>9. \A x : InQueue(x, p) => InQueue(x, q)
  BY <1>7 DEF InQueue
<1>10. ~ InQueue(h, p) /\ InQueue(h, q)
  BY <1>1, <1>7 DEF InQueue, RunOK, Once
<1>11. \A x \in u : ~ InQueue(x, p) /\ ~ InHand(x, g)
  <2>1. ASSUME NEW x \in u PROVE ~ InQueue(x, p) /\ ~ InHand(x, g)
    <3>1. ~ InQueue(x, q) /\ ~ InHand(x, f) /\ x # h
      BY <1>10 DEF RunOK
    <3>2. QED
      BY <1>3, <1>6, <1>9, <3>1 DEF InHand, BusyIn
  <2>2. QED
    BY <2>1
<1>12. \A v \in BusyIn(g) : v # w => v \in BusyIn(f) /\ g[v] = f[v] /\ f[v].host # h
                                    /\ ~ InQueue(g[v].host, p)
  BY <1>3, <1>6, <1>9, <1>10 DEF RunOK, BusyIn
<1>13. \A v \in BusyIn(g) : ~ InQueue(g[v].host, p)
  BY <1>3, <1>10, <1>12
<1>14. \A v, x \in BusyIn(g) : g[v].host = g[x].host => v = x
  BY <1>3, <1>12 DEF RunOK
<1>15. n = Len(p) + Cardinality(BusyIn(g)) /\ Len(p) <= QueueSize
  BY <1>1, <1>6 DEF RunOK
<1>16. QED
  BY <1>1, <1>8, <1>11, <1>13, <1>14, <1>15 DEF RunOK, p

LEMMA RunGoesOn ==
  ASSUME NEW D, NEW r, NEW q, NEW f, NEW u, NEW d, NEW n, NEW g,
         RunOK(D, r, q, f, u, d, n), NEW w \in Workers, f[w].at # "idle",
         g \in [Workers -> Hands(d, r)], g[w].at # "idle", g[w].host = f[w].host,
         \A v \in Workers : v # w => g[v] = f[v]
  PROVE  RunOK(D, r, q, g, u, d, n)
<1>1. BusyIn(g) = BusyIn(f) /\ \A v \in BusyIn(f) : g[v].host = f[v].host
  BY DEF BusyIn
<1>2. \A x : InHand(x, g) => InHand(x, f)
  BY <1>1 DEF InHand
<1>3. QED
  BY <1>1, <1>2 DEF RunOK

LEMMA RunDone ==
  ASSUME SurveyAssumption, NEW D, NEW r, NEW q, NEW f, NEW u, NEW d, NEW n, NEW g,
         RunOK(D, r, q, f, u, d, n), NEW w \in Workers, f[w].at # "idle",
         g \in [Workers -> Hands(d, r)], g[w].at = "idle", \A v \in Workers : v # w => g[v] = f[v]
  PROVE  RunOK(D, r, q, g, u, d, n - 1)
<1>1. f \in [Workers -> Hands(d, r)] /\ q \in Seq(d) /\ Len(q) \in Nat
  BY DEF RunOK
<1>2. g \in [Workers -> Hands(d, r)] /\ \A v \in Workers : v # w => g[v] = f[v]
  OBVIOUS
<1>3. /\ BusyIn(g) = BusyIn(f) \ {w}
      /\ Cardinality(BusyIn(g)) = Cardinality(BusyIn(f)) - 1 /\ Cardinality(BusyIn(f)) \in Nat
  BY BusyLess
<1>4. \A v \in BusyIn(g) : v \in BusyIn(f) /\ g[v] = f[v]
  BY <1>2, <1>3 DEF BusyIn
<1>5. \A x : InHand(x, g) => InHand(x, f)
  BY <1>4 DEF InHand
<1>6. n - 1 = Len(q) + Cardinality(BusyIn(g))
  BY <1>1, <1>3 DEF RunOK
<1>7. \A x \in u : ~ InQueue(x, q) /\ ~ InHand(x, g)
  BY <1>5 DEF RunOK
<1>8. \A v \in BusyIn(g) : ~ InQueue(g[v].host, q)
  BY <1>4 DEF RunOK
<1>9. \A v, x \in BusyIn(g) : g[v].host = g[x].host => v = x
  BY <1>4 DEF RunOK
<1>10. QED
  BY <1>1, <1>2, <1>6, <1>7, <1>8, <1>9 DEF RunOK

LEMMA RunWider ==
  ASSUME NEW D, NEW E, NEW r, NEW q, NEW f, NEW u, NEW d, NEW n,
         RunOK(D, r, q, f, u, d, n), D \subseteq E
  PROVE  RunOK(E, r, q, f, u, d, n)
BY DEF RunOK

-----------------------------------------------------------------------------
(* Types. *)

AnyHand == {Idle} \union [at : {"ask"}, host : Hosts, stamp : Stamps]
                  \union [at : {"delete", "set"}, host : Hosts, stamp : Stamps, present : Present]

Typed ==
    /\ DOMAIN table \subseteq Hosts /\ table \in [DOMAIN table -> [Names -> Stamps]]
    /\ labels \subseteq Hosts /\ now \in 1 .. MaxTime
    /\ phase \in [RunIds -> {"new", "seed", "scan", "put", "done", "dead"}]
    /\ cutoff \in [RunIds -> Int]
    /\ seeding \in [RunIds -> SUBSET Hosts] /\ due \in [RunIds -> SUBSET Hosts]
    /\ unput \in [RunIds -> SUBSET Hosts] /\ unsaved \in [RunIds -> SUBSET Hosts]
    /\ queue \in [RunIds -> Seq(Hosts)] /\ unfinished \in [RunIds -> Nat]
    /\ worker \in [RunIds -> [Workers -> AnyHand]]

RunsOK ==
    \A r \in RunIds :
        RunOK(DOMAIN table, r, queue[r], worker[r], unput[r], due[r], unfinished[r])

\* A run has nothing to survey until its scan.
ScanFirst == \A r \in RunIds : phase[r] \in {"new", "seed", "scan"} => due[r] = {}

TypeInv == Typed /\ RunsOK /\ ScanFirst

\* Only run r's part of the pool moves.
OnlyRun(r) ==
    /\ DOMAIN table \subseteq DOMAIN table'
    /\ \A s \in RunIds : s # r => /\ queue'[s] = queue[s] /\ worker'[s] = worker[s]
                                  /\ unput'[s] = unput[s] /\ due'[s] = due[s]
                                  /\ unfinished'[s] = unfinished[s]

LEMMA RunsStep ==
  ASSUME RunsOK, NEW r \in RunIds, OnlyRun(r),
         RunOK(DOMAIN table', r, queue'[r], worker'[r], unput'[r], due'[r], unfinished'[r])
  PROVE  RunsOK'
<1>1. ASSUME NEW s \in RunIds, s # r
      PROVE  RunOK(DOMAIN table', s, queue'[s], worker'[s], unput'[s], due'[s], unfinished'[s])
  <2>1. RunOK(DOMAIN table, s, queue[s], worker[s], unput[s], due[s], unfinished[s])
    BY DEF RunsOK
  <2>2. RunOK(DOMAIN table', s, queue[s], worker[s], unput[s], due[s], unfinished[s])
    BY <2>1, RunWider DEF OnlyRun
  <2>3. QED
    BY <1>1, <2>2 DEF OnlyRun
<1>2. QED
  BY <1>1 DEF RunsOK

LEMMA Constants ==
  ASSUME SurveyAssumption
  PROVE  /\ Runs \in Nat \ {0} /\ MaxAge \in Nat /\ MaxTime \in Nat /\ MaxTime >= 2
         /\ QueueSize \in Nat /\ NoRow \in Stamps /\ "idle" \notin {"ask", "delete", "set"}
         /\ \A r \in RunIds : Stamp(r) \subseteq Stamps
<1>1. Cardinality(Workers) \in Nat
  BY FS_CardinalityType DEF SurveyAssumption
<1>2. QueueSize \in Nat
  BY <1>1 DEF QueueSize
<1>3. QED
  BY <1>2 DEF SurveyAssumption, NoRow, Stamps, Stamp, RunIds

\* Runs and their tables stay as they are.
LEMMA PoolStays ==
  ASSUME TypeInv, UNCHANGED <<table, queue, worker, unfinished, due, unput>>
  PROVE  RunsOK'
BY DEF TypeInv, RunsOK

LEMMA MainStep ==
  ASSUME SurveyAssumption, TypeInv, NEW r \in RunIds, Start(r) \/ Seed(r) \/ Scan(r) \/ Put(r) \/ Join(r)
  PROVE  TypeInv'
<1>1. Typed /\ RunsOK /\ ScanFirst
      /\ RunOK(DOMAIN table, r, queue[r], worker[r], unput[r], due[r], unfinished[r])
  BY DEF TypeInv, RunsOK
<1>2. CASE Start(r)
  <2>1. RunsOK'
    BY <1>2, PoolStays DEF Start, rows, pool
  <2>2. Typed'
    BY <1>1, <1>2 DEF Typed, Start, rows, pool
  <2>3. ScanFirst'
    BY <1>1, <1>2 DEF ScanFirst, Start, Typed
  <2>4. QED
    BY <2>1, <2>2, <2>3 DEF TypeInv
<1>3. CASE Seed(r)
  <2>1. /\ DOMAIN table \subseteq DOMAIN table' /\ DOMAIN table' \subseteq Hosts
        /\ table' \in [DOMAIN table' -> [Names -> Stamps]]
    <3>1. CASE table' = table
      BY <1>1, <3>1 DEF Typed
    <3>2. ASSUME NEW batch \in SUBSET seeding[r],
                 table' = [h \in DOMAIN table \union batch |-> IF h \in DOMAIN table THEN table[h] ELSE NoRows]
          PROVE  /\ DOMAIN table \subseteq DOMAIN table' /\ DOMAIN table' \subseteq Hosts
                 /\ table' \in [DOMAIN table' -> [Names -> Stamps]]
      <4>1. NoRows \in [Names -> Stamps]
        BY Constants DEF NoRows
      <4>2. batch \subseteq Hosts
        BY <1>1, <3>2 DEF Typed
      <4>3. QED
        BY <1>1, <3>2, <4>1, <4>2 DEF Typed
    <3>3. QED
      BY <1>3, <3>1, <3>2 DEF Seed
  <2>2. OnlyRun(r)
    BY <1>3, <2>1 DEF Seed, OnlyRun, pool
  <2>3. RunOK(DOMAIN table', r, queue'[r], worker'[r], unput'[r], due'[r], unfinished'[r])
    BY <1>1, <1>3, <2>1, RunWider DEF Seed, pool
  <2>4. RunsOK'
    BY <1>1, <2>2, <2>3, RunsStep
  <2>5. seeding' \in [RunIds -> SUBSET Hosts]
    <3>1. seeding \in [RunIds -> SUBSET Hosts]
      BY <1>1 DEF Typed
    <3>2. seeding' = seeding \/ \E batch : seeding' = [seeding EXCEPT ![r] = @ \ batch]
      BY <1>3 DEF Seed
    <3>3. QED
      BY <3>1, <3>2
  <2>6. Typed'
    BY <1>1, <1>3, <2>1, <2>5 DEF Typed, Seed, pool
  <2>7. ScanFirst'
    BY <1>1, <1>3 DEF ScanFirst, Seed, Typed
  <2>8. QED
    BY <2>4, <2>6, <2>7 DEF TypeInv
<1>4. CASE Scan(r)
  <2>1. PICK picked \in SUBSET DOMAIN table :
           due' = [due EXCEPT ![r] = picked] /\ unput' = [unput EXCEPT ![r] = picked]
    BY <1>4 DEF Scan
  <2>2. /\ due'[r] = picked /\ unput'[r] = picked
        /\ \A s \in RunIds : s # r => due'[s] = due[s] /\ unput'[s] = unput[s]
        /\ due' \in [RunIds -> SUBSET Hosts] /\ unput' \in [RunIds -> SUBSET Hosts]
    BY <1>1, <2>1 DEF Typed
  <2>3. table' = table /\ queue' = queue /\ worker' = worker /\ unfinished' = unfinished
        /\ phase[r] = "scan" /\ phase' = [phase EXCEPT ![r] = "put"]
    BY <1>4 DEF Scan, rows, pool
  <2>4. OnlyRun(r)
    BY <2>2, <2>3 DEF OnlyRun
  <2>5. due[r] = {}
    BY <1>1, <2>3 DEF ScanFirst
  <2>6. queue[r] \in Seq({}) /\ worker[r] \in [Workers -> Hands({}, r)]
    BY <1>1, <2>5 DEF RunOK
  <2>7. queue[r] = <<>> /\ \A w \in Workers : worker[r][w] = Idle
    BY <2>6 DEF Hands
  <2>8. BusyIn(worker[r]) = {}
    BY <2>7 DEF BusyIn, Idle
  <2>9. worker[r] \in [Workers -> Hands(picked, r)]
    BY <2>6, <2>7 DEF Hands
  <2>10. RunOK(DOMAIN table, r, queue[r], worker[r], picked, picked, unfinished[r])
    <3>1. \A h : ~ InQueue(h, queue[r]) /\ ~ InHand(h, worker[r])
      BY <2>7, <2>8 DEF InQueue, InHand
    <3>2. queue[r] \in Seq(picked)
      BY <2>7
    <3>3. QED
      BY <1>1, <2>8, <2>9, <3>1, <3>2 DEF RunOK
  <2>11. RunsOK'
    BY <1>1, <2>2, <2>3, <2>4, <2>10, RunsStep
  <2>12. now - MaxAge \in Int
    BY <1>1, Constants DEF Typed
  <2>13. Typed'
    BY <1>1, <1>4, <2>2, <2>12 DEF Typed, Scan, rows, pool
  <2>14. ScanFirst'
    BY <1>1, <2>2, <2>3 DEF ScanFirst, Typed
  <2>15. QED
    BY <2>11, <2>13, <2>14 DEF TypeInv
<1>5. CASE Put(r)
  <2>1. PICK h \in unput[r] : /\ queue' = [queue EXCEPT ![r] = Append(queue[r], h)]
                              /\ unput' = [unput EXCEPT ![r] = @ \ {h}]
    BY <1>5 DEF Put
  <2>2. /\ Len(queue[r]) < QueueSize /\ unfinished' = [unfinished EXCEPT ![r] = @ + 1]
        /\ table' = table /\ worker' = worker /\ due' = due /\ phase' = phase
    BY <1>5 DEF Put, rows
  <2>3. RunOK(DOMAIN table, r, Append(queue[r], h), worker[r], unput[r] \ {h}, due[r], unfinished[r] + 1)
    BY <1>1, <2>1, <2>2, Constants, RunPut
  <2>4. OnlyRun(r)
    BY <1>1, <2>1, <2>2 DEF OnlyRun, Typed
  <2>5. /\ queue'[r] = Append(queue[r], h) /\ unput'[r] = unput[r] \ {h}
        /\ unfinished'[r] = unfinished[r] + 1
    BY <1>1, <2>1, <2>2 DEF Typed
  <2>6. RunsOK'
    BY <1>1, <2>2, <2>3, <2>4, <2>5, RunsStep
  <2>7. Append(queue[r], h) \in Seq(Hosts)
    BY <1>1, <2>1 DEF Typed
  <2>8. Typed'
    BY <1>1, <1>5, <2>1, <2>2, <2>7 DEF Typed, Put, rows
  <2>9. ScanFirst'
    BY <1>1, <2>2 DEF ScanFirst
  <2>10. QED
    BY <2>6, <2>8, <2>9 DEF TypeInv
<1>6. CASE Join(r)
  <2>1. /\ unput[r] = {} /\ unfinished[r] = 0 /\ phase' = [phase EXCEPT ![r] = "done"]
        /\ worker' = [worker EXCEPT ![r] = [w \in Workers |-> Idle]]
        /\ UNCHANGED <<table, queue, unput, due, unfinished>>
    BY <1>6 DEF Join, rows, run
  <2>2. queue[r] \in Seq(due[r]) /\ Len(queue[r]) \in Nat
        /\ BusyIn(worker[r]) = {} /\ Cardinality(BusyIn(worker[r])) = 0
    <3>1. queue[r] \in Seq(due[r]) /\ Len(queue[r]) \in Nat
          /\ 0 = Len(queue[r]) + Cardinality(BusyIn(worker[r]))
      BY <1>1, <2>1 DEF RunOK
    <3>2. QED
      BY <3>1, NoneBusy
  <2>3. worker'[r] = [w \in Workers |-> Idle] /\ \A s \in RunIds : s # r => worker'[s] = worker[s]
    BY <1>1, <2>1 DEF Typed
  <2>4. BusyIn(worker'[r]) = {}
    BY <2>3 DEF BusyIn, Idle
  <2>5. worker'[r] \in [Workers -> Hands(due[r], r)] /\ worker'[r] \in [Workers -> AnyHand]
    BY <2>3 DEF Hands, AnyHand
  <2>6. RunOK(DOMAIN table, r, queue[r], worker'[r], unput[r], due[r], unfinished[r])
    <3>1. \A h : ~ InHand(h, worker'[r])
      BY <2>4 DEF InHand
    <3>2. QED
      BY <1>1, <2>2, <2>4, <2>5, <3>1 DEF RunOK
  <2>7. OnlyRun(r)
    BY <2>1, <2>3 DEF OnlyRun
  <2>8. RunsOK'
    BY <1>1, <2>1, <2>6, <2>7, RunsStep
  <2>9. worker' \in [RunIds -> [Workers -> AnyHand]]
    BY <1>1, <2>1, <2>5, <2>3 DEF Typed
  <2>10. Typed'
    BY <1>1, <1>6, <2>1, <2>9 DEF Typed, Join, rows, run
  <2>11. ScanFirst'
    BY <1>1, <2>1 DEF ScanFirst, Typed
  <2>12. QED
    BY <2>8, <2>10, <2>11 DEF TypeInv
<1>7. QED
  BY <1>2, <1>3, <1>4, <1>5, <1>6

\* What a busy worker has in hand.
LEMMA HandFacts ==
  ASSUME SurveyAssumption, TypeInv, NEW r \in RunIds, NEW w \in Workers, worker[r][w].at # "idle"
  PROVE  /\ worker[r][w].host \in due[r] /\ worker[r][w].host \in DOMAIN table
         /\ worker[r][w].stamp \in Stamp(r)
         /\ worker[r][w].at \in {"delete", "set"} => worker[r][w].present \in Present
         /\ worker[r][w] \in Hands(due[r], r)
<1>1. worker[r] \in [Workers -> Hands(due[r], r)] /\ due[r] \subseteq DOMAIN table
  BY DEF TypeInv, RunsOK, RunOK
<1>2. QED
  BY <1>1 DEF Hands, Idle

LEMMA HandsAreHands ==
  ASSUME SurveyAssumption, NEW D \in SUBSET Hosts, NEW r \in RunIds
  PROVE  Hands(D, r) \subseteq AnyHand
<1>1. Stamp(r) \subseteq Stamps
  BY Constants
<1>2. [at : {"ask"}, host : D, stamp : Stamp(r)] \subseteq [at : {"ask"}, host : Hosts, stamp : Stamps]
  BY <1>1
<1>3. [at : {"delete", "set"}, host : D, stamp : Stamp(r), present : Present]
        \subseteq [at : {"delete", "set"}, host : Hosts, stamp : Stamps, present : Present]
  BY <1>1
<1>4. QED
  BY <1>2, <1>3 DEF Hands, AnyHand

\* A worker of r moves from hand to hand; the queue is as it was.
LEMMA HandMoves ==
  ASSUME SurveyAssumption, TypeInv, NEW r \in RunIds, NEW w \in Workers, NEW hand,
         worker[r][w].at # "idle", hand \in Hands(due[r], r), hand.at # "idle",
         hand.host = worker[r][w].host, worker' = [worker EXCEPT ![r][w] = hand],
         DOMAIN table' = DOMAIN table, UNCHANGED <<queue, unput, due, unfinished>>
  PROVE  RunsOK' /\ worker' \in [RunIds -> [Workers -> AnyHand]]
<1>1. /\ worker \in [RunIds -> [Workers -> AnyHand]] /\ due[r] \in SUBSET Hosts
      /\ RunOK(DOMAIN table, r, queue[r], worker[r], unput[r], due[r], unfinished[r])
      /\ worker[r] \in [Workers -> Hands(due[r], r)] /\ RunsOK
  BY DEF TypeInv, Typed, RunsOK, RunOK
<1>2. /\ worker'[r] = [worker[r] EXCEPT ![w] = hand]
      /\ \A s \in RunIds : s # r => worker'[s] = worker[s]
  BY <1>1
<1>3. /\ worker'[r][w] = hand /\ \A v \in Workers : v # w => worker'[r][v] = worker[r][v]
      /\ worker'[r] \in [Workers -> Hands(due[r], r)]
  BY <1>1, <1>2
<1>4. RunOK(DOMAIN table, r, queue[r], worker'[r], unput[r], due[r], unfinished[r])
  <2> DEFINE f == worker[r]
             g == worker'[r]
  <2>1. RunOK(DOMAIN table, r, queue[r], f, unput[r], due[r], unfinished[r])
    BY <1>1
  <2>2. /\ f[w].at # "idle" /\ g[w].at # "idle" /\ g[w].host = f[w].host
        /\ g \in [Workers -> Hands(due[r], r)] /\ \A v \in Workers : v # w => g[v] = f[v]
    BY <1>3
  <2> HIDE DEF f, g
  <2>3. RunOK(DOMAIN table, r, queue[r], g, unput[r], due[r], unfinished[r])
    BY <2>1, <2>2, RunGoesOn
  <2>4. QED
    BY <2>3 DEF g
<1>5. OnlyRun(r)
  BY <1>2 DEF OnlyRun
<1>6. RunsOK'
  BY <1>1, <1>4, <1>5, RunsStep
<1>7. hand \in AnyHand
  BY <1>1, HandsAreHands
<1>8. QED
  BY <1>1, <1>6, <1>7

\* A worker of r puts down what it has, and marks it done.
LEMMA HandDone ==
  ASSUME SurveyAssumption, TypeInv, NEW r \in RunIds, NEW w \in Workers,
         worker[r][w].at # "idle", worker' = [worker EXCEPT ![r][w] = Idle],
         unfinished' = [unfinished EXCEPT ![r] = @ - 1],
         DOMAIN table' = DOMAIN table, UNCHANGED <<queue, unput, due>>
  PROVE  /\ RunsOK' /\ worker' \in [RunIds -> [Workers -> AnyHand]]
         /\ unfinished' \in [RunIds -> Nat]
<1>1. /\ worker \in [RunIds -> [Workers -> AnyHand]] /\ unfinished \in [RunIds -> Nat]
      /\ RunOK(DOMAIN table, r, queue[r], worker[r], unput[r], due[r], unfinished[r]) /\ RunsOK
  BY DEF TypeInv, Typed, RunsOK
<1>2. /\ worker'[r] = [worker[r] EXCEPT ![w] = Idle] /\ unfinished'[r] = unfinished[r] - 1
      /\ \A s \in RunIds : s # r => worker'[s] = worker[s] /\ unfinished'[s] = unfinished[s]
  BY <1>1
<1>3. RunOK(DOMAIN table, r, queue[r], worker'[r], unput[r], due[r], unfinished[r] - 1)
  <2> DEFINE g == worker'[r]
  <2>1. Idle \in Hands(due[r], r) /\ Idle.at = "idle" /\ worker[r] \in [Workers -> Hands(due[r], r)]
    BY <1>1 DEF RunOK, Hands, Idle
  <2>2. /\ g \in [Workers -> Hands(due[r], r)] /\ g[w].at = "idle"
        /\ \A v \in Workers : v # w => g[v] = worker[r][v]
    BY <1>2, <2>1
  <2> HIDE DEF g
  <2>3. RunOK(DOMAIN table, r, queue[r], g, unput[r], due[r], unfinished[r] - 1)
    BY <1>1, <2>2, RunDone
  <2>4. QED
    BY <2>3 DEF g
<1>4. OnlyRun(r)
  BY <1>2 DEF OnlyRun
<1>5. RunsOK'
  BY <1>1, <1>2, <1>3, <1>4, RunsStep
<1>6. Idle \in AnyHand
  BY DEF AnyHand
<1>7. unfinished[r] - 1 \in Nat
  <2> DEFINE q == queue[r]
             n == unfinished[r] - 1
             g == worker'[r]
             d == due[r]
  <2>0. RunOK(DOMAIN table, r, q, g, unput[r], d, n)
    BY <1>3
  <2> HIDE DEF q, n, g, d
  <2>1. q \in Seq(d) /\ Len(q) \in Nat /\ n = Len(q) + Cardinality(BusyIn(g))
    BY <2>0 DEF RunOK
  <2>2. QED
    BY <2>1, NoneBusy DEF n
<1>8. QED
  BY <1>1, <1>5, <1>6, <1>7

LEMMA WorkStep ==
  ASSUME SurveyAssumption, TypeInv, NEW r \in RunIds, NEW w \in Workers,
         Get(r, w) \/ Survey(r, w) \/ Delete(r, w) \/ Set(r, w) \/ Raise(r, w)
  PROVE  TypeInv' /\ DOMAIN table' = DOMAIN table
<1> DEFINE job == worker[r][w]
<1>1. Typed /\ RunsOK /\ ScanFirst
      /\ RunOK(DOMAIN table, r, queue[r], worker[r], unput[r], due[r], unfinished[r])
      /\ due[r] \in SUBSET Hosts
  BY DEF TypeInv, RunsOK, Typed
<1>2. ASSUME RunsOK', worker' \in [RunIds -> [Workers -> AnyHand]], unfinished' \in [RunIds -> Nat],
             table' \in [DOMAIN table -> [Names -> Stamps]], queue' \in [RunIds -> Seq(Hosts)],
             unsaved' \in [RunIds -> SUBSET Hosts],
             UNCHANGED <<labels, now, phase, run>>
      PROVE  TypeInv' /\ DOMAIN table' = DOMAIN table
  <2>1. DOMAIN table' = DOMAIN table
    BY <1>2
  <2>2. Typed'
    BY <1>1, <1>2, <2>1 DEF Typed, run
  <2>3. ScanFirst'
    BY <1>1, <1>2 DEF ScanFirst, run
  <2>4. QED
    BY <1>2, <2>1, <2>2, <2>3 DEF TypeInv
<1>3. CASE Get(r, w)
  <2> DEFINE hand == [at |-> "ask", host |-> Head(queue[r]), stamp |-> [run |-> r, time |-> now]]
  <2>1. /\ job.at = "idle" /\ queue[r] # <<>> /\ worker' = [worker EXCEPT ![r][w] = hand]
        /\ queue' = [queue EXCEPT ![r] = Tail(@)]
        /\ UNCHANGED <<table, unfinished, due, unput, unsaved, labels, now, phase, run>>
    BY <1>3 DEF Get, rows, run
  <2>2. /\ queue[r] \in Seq(due[r]) /\ queue[r] \in Seq(Hosts)
        /\ worker[r] \in [Workers -> Hands(due[r], r)]
    BY <1>1 DEF RunOK, Typed
  <2>3. Head(queue[r]) \in due[r] /\ Tail(queue[r]) \in Seq(Hosts)
    BY <2>1, <2>2, TailFacts
  <2>4. now \in 0 .. MaxTime
    BY <1>1, Constants DEF Typed
  <2>5. hand \in Hands(due[r], r) /\ hand.at # "idle" /\ hand.host = Head(queue[r])
    BY <2>3, <2>4 DEF Hands, Stamp
  <2> HIDE DEF hand
  <2>6. /\ worker'[r][w] = hand /\ \A v \in Workers : v # w => worker'[r][v] = worker[r][v]
        /\ worker'[r] \in [Workers -> Hands(due[r], r)]
        /\ \A s \in RunIds : s # r => worker'[s] = worker[s]
        /\ worker' \in [RunIds -> [Workers -> AnyHand]]
    <3>1. hand \in AnyHand
      BY <1>1, <2>5, HandsAreHands
    <3>2. QED
      BY <1>1, <2>1, <2>2, <2>5, <3>1 DEF Typed
  <2>7. /\ BusyIn(worker'[r]) = BusyIn(worker[r]) \union {w}
        /\ Cardinality(BusyIn(worker'[r])) = Cardinality(BusyIn(worker[r])) + 1
        /\ Cardinality(BusyIn(worker[r])) \in Nat
    <3> DEFINE f == worker[r]
               g == worker'[r]
    <3>1. f[w].at = "idle" /\ g[w].at # "idle" /\ \A v \in Workers : v # w => g[v] = f[v]
      BY <2>1, <2>5, <2>6
    <3> HIDE DEF f, g
    <3>2. /\ BusyIn(g) = BusyIn(f) \union {w}
          /\ Cardinality(BusyIn(g)) = Cardinality(BusyIn(f)) + 1 /\ Cardinality(BusyIn(f)) \in Nat
      BY <3>1, BusyMore
    <3>3. QED
      BY <3>2 DEF f, g
  <2>8. queue'[r] = Tail(queue[r]) /\ \A s \in RunIds : s # r => queue'[s] = queue[s]
    BY <1>1, <2>1 DEF Typed
  <2>9. RunOK(DOMAIN table, r, Tail(queue[r]), worker'[r], unput[r], due[r], unfinished[r])
    <3>1. /\ RunOK(DOMAIN table, r, queue[r], worker[r], unput[r], due[r], unfinished[r])
          /\ queue[r] # <<>> /\ worker[r][w].at = "idle" /\ QueueSize \in Nat
      BY <1>1, <2>1, Constants
    <3>2. worker'[r][w].at # "idle" /\ worker'[r][w].host = Head(queue[r])
      BY <2>5, <2>6
    <3> DEFINE g == worker'[r]
    <3>3. /\ g \in [Workers -> Hands(due[r], r)] /\ \A v \in Workers : v # w => g[v] = worker[r][v]
          /\ g[w].at # "idle" /\ g[w].host = Head(queue[r])
          /\ BusyIn(g) = BusyIn(worker[r]) \union {w} /\ Cardinality(BusyIn(worker[r])) \in Nat
          /\ Cardinality(BusyIn(g)) = Cardinality(BusyIn(worker[r])) + 1
      BY <2>6, <2>7, <3>2
    <3> HIDE DEF g
    <3>4. RunOK(DOMAIN table, r, Tail(queue[r]), g, unput[r], due[r], unfinished[r])
      BY <3>1, <3>3, RunGet
    <3>5. QED
      BY <3>4 DEF g
  <2>10. OnlyRun(r)
    BY <2>1, <2>6, <2>8 DEF OnlyRun
  <2>11. RunsOK'
    BY <1>1, <2>1, <2>8, <2>9, <2>10, RunsStep
  <2>12. queue' \in [RunIds -> Seq(Hosts)]
    BY <1>1, <2>1, <2>3 DEF Typed
  <2>13. QED
    BY <1>1, <1>2, <2>1, <2>6, <2>11, <2>12 DEF Typed
<1>4. CASE Survey(r, w)
  <2>1. PICK present \in Present :
           worker' = [worker EXCEPT ![r][w] =
                        [at |-> "delete", host |-> @.host, stamp |-> @.stamp, present |-> present]]
    BY <1>4 DEF Survey
  <2> DEFINE hand == [at |-> "delete", host |-> job.host, stamp |-> job.stamp, present |-> present]
  <2>2. /\ job.at # "idle" /\ UNCHANGED <<table, queue, unput, due, unfinished, unsaved, labels, now, phase, run>>
    BY <1>4 DEF Survey, rows, run
  <2>3. worker' = [worker EXCEPT ![r][w] = hand]
    BY <1>1, <2>1 DEF Typed
  <2>4. hand \in Hands(due[r], r) /\ hand.at # "idle" /\ hand.host = job.host
    BY <2>2, HandFacts DEF Hands
  <2> HIDE DEF hand
  <2>5. RunsOK' /\ worker' \in [RunIds -> [Workers -> AnyHand]]
    BY <2>2, <2>3, <2>4, HandMoves
  <2>6. QED
    BY <1>1, <1>2, <2>2, <2>5 DEF Typed
<1>5. CASE Delete(r, w)
  <2>1. /\ job.at = "delete" /\ worker' = [worker EXCEPT ![r][w].at = "set"]
        /\ table' = [table EXCEPT ![job.host] = Deleted(@, job.present)]
        /\ UNCHANGED <<queue, unput, due, unfinished, unsaved, labels, now, phase, run>>
    BY <1>5 DEF Delete, run
  <2> DEFINE hand == [at |-> "set", host |-> job.host, stamp |-> job.stamp, present |-> job.present]
  <2>2. /\ job.host \in DOMAIN table
        /\ job \in [at : {"delete", "set"}, host : due[r], stamp : Stamp(r), present : Present]
    BY <2>1, HandFacts DEF Hands, Idle
  <2>3. worker' = [worker EXCEPT ![r][w] = hand]
    <3>1. [job EXCEPT !.at = "set"] = hand
      BY <2>2
    <3>2. QED
      BY <1>1, <2>1, <3>1 DEF Typed
  <2>4. hand \in Hands(due[r], r) /\ hand.at # "idle" /\ hand.host = job.host
    BY <2>2 DEF Hands
  <2>5. Deleted(table[job.host], job.present) \in [Names -> Stamps]
    BY <1>1, <2>2, Constants DEF Deleted, Typed
  <2>6. table' \in [DOMAIN table -> [Names -> Stamps]]
    BY <1>1, <2>1, <2>2, <2>5 DEF Typed
  <2> HIDE DEF hand
  <2>7. RunsOK' /\ worker' \in [RunIds -> [Workers -> AnyHand]]
    BY <2>1, <2>3, <2>4, <2>6, HandMoves
  <2>8. QED
    BY <1>1, <1>2, <2>1, <2>6, <2>7 DEF Typed
<1>6. CASE Set(r, w)
  <2>1. /\ job.at = "set" /\ worker' = [worker EXCEPT ![r][w] = Idle]
        /\ table' = [table EXCEPT ![job.host] = SetTo(@, job)]
        /\ unfinished' = [unfinished EXCEPT ![r] = @ - 1]
        /\ UNCHANGED <<queue, unput, due, unsaved, labels, now, phase, run>>
    BY <1>6 DEF Set, run
  <2>2. job.host \in DOMAIN table /\ job.stamp \in Stamps
    BY <2>1, HandFacts, Constants
  <2>3. SetTo(table[job.host], job) \in [Names -> Stamps]
    BY <1>1, <2>2 DEF SetTo, Typed
  <2>4. table' \in [DOMAIN table -> [Names -> Stamps]]
    BY <1>1, <2>1, <2>2, <2>3 DEF Typed
  <2>5. RunsOK' /\ worker' \in [RunIds -> [Workers -> AnyHand]] /\ unfinished' \in [RunIds -> Nat]
    BY <2>1, <2>4, HandDone
  <2>6. QED
    BY <1>1, <1>2, <2>1, <2>4, <2>5 DEF Typed
<1>7. CASE Raise(r, w)
  <2>1. /\ job.at # "idle" /\ worker' = [worker EXCEPT ![r][w] = Idle]
        /\ unfinished' = [unfinished EXCEPT ![r] = @ - 1]
        /\ unsaved' = [unsaved EXCEPT ![r] = @ \union {job.host}]
        /\ UNCHANGED <<table, queue, unput, due, labels, now, phase, run>>
    BY <1>7 DEF Raise, rows, run
  <2>2. job.host \in Hosts
    BY <1>1, <2>1, HandFacts
  <2>3. RunsOK' /\ worker' \in [RunIds -> [Workers -> AnyHand]] /\ unfinished' \in [RunIds -> Nat]
    BY <2>1, HandDone
  <2>4. unsaved' \in [RunIds -> SUBSET Hosts]
    BY <1>1, <2>1, <2>2 DEF Typed
  <2>5. QED
    BY <1>1, <1>2, <2>1, <2>3, <2>4 DEF Typed
<1>8. QED
  BY <1>3, <1>4, <1>5, <1>6, <1>7

LEMMA AroundStep ==
  ASSUME SurveyAssumption, TypeInv, Tick \/ NewLabel \/ (\E r \in RunIds : Kill(r))
  PROVE  TypeInv'
<1>1. Typed /\ ScanFirst
  BY DEF TypeInv
<1>2. RunsOK'
  BY PoolStays DEF Tick, NewLabel, Kill, rows, run, pool
<1>3. CASE Tick
  <2>1. now' \in 1 .. MaxTime
    BY <1>1, <1>3, Constants DEF Tick, Typed
  <2>2. QED
    BY <1>1, <1>2, <1>3, <2>1 DEF TypeInv, Typed, ScanFirst, Tick, rows, run, pool
<1>4. CASE NewLabel
  BY <1>1, <1>2, <1>4 DEF TypeInv, Typed, ScanFirst, NewLabel, run, pool
<1>5. ASSUME NEW r \in RunIds, Kill(r)
      PROVE  TypeInv'
  BY <1>1, <1>2, <1>5 DEF TypeInv, Typed, ScanFirst, Kill, rows, run, pool
<1>6. QED
  BY <1>3, <1>4, <1>5

LEMMA TypeInvInit ==
  ASSUME SurveyAssumption, Init
  PROVE  TypeInv
<1>1. \A p \in SUBSET Names : Saved(p, [run |-> 0, time |-> 1]) \in [Names -> Stamps]
  <2>1. [run |-> 0, time |-> 1] \in Stamps
    BY Constants DEF Stamps
  <2>2. QED
    BY <2>1, Constants DEF Saved
<1>2. NoRows \in [Names -> Stamps]
  BY Constants DEF NoRows
<1>3. labels \in SUBSET Hosts
      /\ table \in [labels -> {NoRows} \union {Saved(p, [run |-> 0, time |-> 1]) : p \in {{"failure"}, Info}}]
  BY DEF Init
<1>4. {"failure"} \in SUBSET Names /\ Info \in SUBSET Names
  BY DEF Names
<1>5. table \in [labels -> [Names -> Stamps]] /\ DOMAIN table = labels
  BY <1>1, <1>2, <1>3, <1>4
<1>6. Idle \in AnyHand /\ <<>> \in Seq(Hosts) /\ 0 \in Nat /\ {} \in SUBSET Hosts /\ 0 \in Int
  BY DEF AnyHand
<1>7. Typed
  BY <1>3, <1>5, <1>6, Constants DEF Init, Typed
<1>8. ScanFirst
  BY DEF Init, ScanFirst
<1>9. ASSUME NEW r \in RunIds
      PROVE  RunOK(DOMAIN table, r, queue[r], worker[r], unput[r], due[r], unfinished[r])
  <2>1. queue[r] = <<>> /\ worker[r] = [w \in Workers |-> Idle] /\ unput[r] = {} /\ due[r] = {}
        /\ unfinished[r] = 0
    BY DEF Init
  <2>2. BusyIn(worker[r]) = {} /\ Cardinality(BusyIn(worker[r])) = 0
    <3>1. BusyIn(worker[r]) = {}
      BY <2>1 DEF BusyIn, Idle
    <3>2. QED
      BY <3>1, NoneBusy
  <2>3. worker[r] \in [Workers -> Hands({}, r)]
    BY <2>1 DEF Hands
  <2>4. Len(<<>>) = 0 /\ <<>> \in Seq({})
    OBVIOUS
  <2>5. QED
    BY <2>1, <2>2, <2>3, <2>4, Constants DEF RunOK, Once
<1>10. QED
  BY <1>7, <1>8, <1>9 DEF TypeInv, RunsOK

LEMMA TypeInvStep ==
  ASSUME SurveyAssumption, TypeInv, [Next]_vars
  PROVE  TypeInv'
<1>1. CASE UNCHANGED vars
  <2>1. UNCHANGED <<table, labels, now, phase, seeding, cutoff, due, unput, queue, worker, unfinished, unsaved>>
    BY <1>1 DEF vars, rows, run, pool
  <2>2. QED
    BY <2>1, PoolStays DEF TypeInv, Typed, ScanFirst
<1>2. CASE Next
  BY <1>2, AroundStep, MainStep, WorkStep DEF Next, Main, Work
<1>3. QED
  BY <1>1, <1>2

\* The table, the pools and the runs keep their types, and a run's counter of unfinished
\* jobs is what is on its queue and in its workers' hands: what queue.join() waits for.
THEOREM SurveyTypeOK ==
  ASSUME SurveyAssumption
  PROVE  Spec => []TypeOK
<1>1. TypeInv => TypeOK
  <2> SUFFICES ASSUME TypeInv PROVE TypeOK
    OBVIOUS
  <2>1. Typed /\ RunsOK
    BY DEF TypeInv
  <2>2. ASSUME NEW r \in RunIds
        PROVE  /\ Len(queue[r]) <= QueueSize
               /\ unput[r] \subseteq due[r] /\ due[r] \subseteq DOMAIN table
               /\ unfinished[r] = Len(queue[r]) + Cardinality({w \in Workers : worker[r][w].at # "idle"})
    BY <2>1 DEF RunsOK, RunOK, BusyIn
  <2>3. QED
    BY <2>1, <2>2 DEF Typed, TypeOK
<1>2. Init => TypeInv
  BY TypeInvInit
<1>3. TypeInv /\ [Next]_vars => TypeInv'
  BY TypeInvStep
<1>4. QED
  BY <1>1, <1>2, <1>3, PTL DEF Spec

-----------------------------------------------------------------------------
(* Runs that do not overlap: what a run finds is what one before it left.   *)

\* A run starts when those before it are over.
InTurn == \A r, s \in RunIds : r < s /\ phase[s] # "new" => phase[r] \in {"done", "dead"}

\* Between the two commands of a save: what the survey does not say is gone.
Cleared ==
    \A r \in RunIds, w \in Workers : AtWork(r) /\ worker[r][w].at = "set" =>
        \A n \in Names \ (worker[r][w].present \union {"last_fetch_date"}) :
            table[worker[r][w].host][n] = NoRow

Date(t, h) == t[h]["last_fetch_date"]

\* Run r or one after it saved h.
Since(t, h, r) == Date(t, h).run \in r .. Runs

\* A host a run has found is due until it is saved, by that run or one after it.
StaysDue ==
    \A r \in RunIds : \A h \in due[r] : Since(table, h, r) \/ IsDue(table[h], cutoff[r])

\* Run r has h before it.
Left(h, q, f, u) == h \in u \/ InQueue(h, q) \/ InHand(h, f)

WorkLeft ==
    \A r \in RunIds : phase[r] \in {"put", "done"} =>
        \A h \in due[r] :
            \/ Since(table, h, r) \/ h \in unsaved[r]
            \/ phase[r] = "put" /\ Left(h, queue[r], worker[r], unput[r])

SurveyInv == TypeInv /\ InTurn /\ OneSurvey /\ Cleared /\ StaysDue /\ WorkLeft

LEMMA InTurnStep ==
  ASSUME SurveyAssumption, ~ Overlap, TypeInv, InTurn, [Next]_vars
  PROVE  InTurn'
<1>1. \A r, s \in RunIds : r \in Int /\ s \in Int
  BY DEF RunIds
<1>2. phase \in [RunIds -> {"new", "seed", "scan", "put", "done", "dead"}]
  BY DEF TypeInv, Typed
<1>3. CASE phase' = phase
  BY <1>3 DEF InTurn
<1>4. ASSUME NEW r \in RunIds, AtWork(r), NEW p, p # "new", phase' = [phase EXCEPT ![r] = p]
      PROVE  InTurn'
  <2>1. \A s \in RunIds : s < r => phase[s] \in {"done", "dead"}
    BY <1>4 DEF AtWork, InTurn
  <2>2. \A s \in RunIds : r < s => phase[s] = "new"
    BY <1>4 DEF AtWork, InTurn
  <2>3. phase'[r] = p /\ \A s \in RunIds : s # r => phase'[s] = phase[s]
    BY <1>2, <1>4
  <2>4. QED
    BY <1>1, <2>1, <2>2, <2>3 DEF InTurn
<1>5. ASSUME NEW r \in RunIds, Start(r)
      PROVE  InTurn'
  <2>1. phase[r] = "new" /\ \E p : phase' = [phase EXCEPT ![r] = p]
    BY <1>5 DEF Start
  <2>2. \A s \in RunIds : s < r => phase[s] # "new"
    BY <1>5 DEF Start, RunIds, SurveyAssumption
  <2>3. \A s \in RunIds : s < r => phase[s] \in {"done", "dead"}
    BY <1>2, <1>5, <2>2 DEF Start, AtWork
  <2>4. \A s \in RunIds : r < s => phase[s] = "new"
    BY <2>1 DEF InTurn
  <2>5. \A s \in RunIds : s # r => phase'[s] = phase[s]
    BY <1>2, <2>1
  <2>6. QED
    BY <1>1, <2>3, <2>4, <2>5 DEF InTurn
<1>6. ASSUME NEW r \in RunIds, Seed(r) \/ Scan(r) \/ Join(r) \/ Kill(r)
      PROVE  InTurn'
  <2>1. AtWork(r)
    BY <1>6 DEF Seed, Scan, Join, Kill, AtWork
  <2>2. phase' = phase \/ \E p \in {"scan", "put", "done", "dead"} : phase' = [phase EXCEPT ![r] = p]
    BY <1>6 DEF Seed, Scan, Join, Kill
  <2>3. QED
    BY <1>3, <1>4, <2>1, <2>2
<1>7. ASSUME NEW r \in RunIds, NEW w \in Workers, Work(r, w) \/ Raise(r, w)
      PROVE  phase' = phase
  BY <1>7 DEF Work, Get, Survey, Delete, Set, Raise
<1>8. CASE UNCHANGED vars
  BY <1>3, <1>8 DEF vars
<1>9. CASE Next
  <2>1. CASE Tick \/ NewLabel
    BY <1>3, <2>1 DEF Tick, NewLabel
  <2>2. ASSUME NEW r \in RunIds, Put(r)
        PROVE  phase' = phase
    BY <2>2 DEF Put
  <2>3. QED
    BY <1>3, <1>5, <1>6, <1>7, <1>9, <2>1, <2>2 DEF Next, Main
<1>10. QED
  BY <1>8, <1>9

\* A run at work is the last to have started, and the only one.
LEMMA LastAtWork ==
  ASSUME SurveyAssumption, TypeInv, InTurn, NEW r \in RunIds, AtWork(r), NEW s \in RunIds
  PROVE  /\ phase[s] # "new" => s <= r
         /\ AtWork(s) => s = r
<1>1. r \in Int /\ s \in Int
  BY DEF RunIds
<1>2. QED
  BY <1>1 DEF InTurn, AtWork

-----------------------------------------------------------------------------
(* What a step does to the table. *)


LEMMA TableMoves ==
  ASSUME SurveyAssumption, TypeInv, [Next]_vars
  PROVE  \/ /\ DOMAIN table \subseteq DOMAIN table'
            /\ \A h \in DOMAIN table : table'[h] = table[h]
            /\ \A h \in DOMAIN table' \ DOMAIN table : table'[h] = NoRows
         \/ \E r \in RunIds, w \in Workers : Delete(r, w) \/ Set(r, w)
<1>1. table \in [DOMAIN table -> [Names -> Stamps]]
  BY DEF TypeInv, Typed
<1>2. CASE table' = table
  BY <1>2
<1>3. ASSUME NEW r \in RunIds, Main(r)
      PROVE  /\ DOMAIN table \subseteq DOMAIN table'
             /\ \A h \in DOMAIN table : table'[h] = table[h]
             /\ \A h \in DOMAIN table' \ DOMAIN table : table'[h] = NoRows
  <2>1. CASE Seed(r)
    <3>1. CASE table' = table
      BY <3>1
    <3>2. ASSUME NEW batch \in SUBSET seeding[r],
                 table' = [h \in DOMAIN table \union batch |-> IF h \in DOMAIN table THEN table[h] ELSE NoRows]
          PROVE  /\ DOMAIN table \subseteq DOMAIN table'
                 /\ \A h \in DOMAIN table : table'[h] = table[h]
                 /\ \A h \in DOMAIN table' \ DOMAIN table : table'[h] = NoRows
      BY <3>2
    <3>3. QED
      BY <2>1, <3>1, <3>2 DEF Seed
  <2>2. CASE Start(r) \/ Scan(r) \/ Put(r) \/ Join(r)
    BY <2>2 DEF Start, Scan, Put, Join, rows
  <2>3. QED
    BY <1>3, <2>1, <2>2 DEF Main
<1>4. ASSUME NEW r \in RunIds, NEW w \in Workers, Get(r, w) \/ Survey(r, w) \/ Raise(r, w)
      PROVE  table' = table
  BY <1>4 DEF Get, Survey, Raise, rows
<1>5. CASE UNCHANGED vars
  BY <1>2, <1>5 DEF vars, rows
<1>6. CASE Next
  <2>1. ASSUME Tick \/ NewLabel \/ \E r \in RunIds : Kill(r)
        PROVE  table' = table
    BY <2>1 DEF Tick, NewLabel, Kill, rows
  <2>2. QED
    BY <1>2, <1>3, <1>4, <1>6, <2>1 DEF Next, Work
<1>7. QED
  BY <1>5, <1>6

\* The two commands of a save.
LEMMA DeleteFacts ==
  ASSUME SurveyAssumption, TypeInv, NEW r \in RunIds, NEW w \in Workers, Delete(r, w)
  PROVE  LET job == worker[r][w]
         IN  /\ AtWork(r) /\ job.at = "delete" /\ job.host \in DOMAIN table /\ job.present \in Present
             /\ DOMAIN table' = DOMAIN table
             /\ \A h \in DOMAIN table : h # job.host => table'[h] = table[h]
             /\ table'[job.host] = Deleted(table[job.host], job.present)
             /\ worker'[r][w].at = "set" /\ worker'[r][w].host = job.host
             /\ worker'[r][w].present = job.present
             /\ \A v \in Workers : v # w => worker'[r][v] = worker[r][v]
             /\ \A s \in RunIds : s # r => worker'[s] = worker[s]
             /\ UNCHANGED <<phase, cutoff, due, unput, queue, unsaved>>
<1> DEFINE job == worker[r][w]
<1>1. /\ AtWork(r) /\ job.at = "delete" /\ worker' = [worker EXCEPT ![r][w].at = "set"]
      /\ table' = [table EXCEPT ![job.host] = Deleted(@, job.present)]
      /\ UNCHANGED <<phase, cutoff, due, unput, queue, unsaved>>
  BY DEF Delete, run
<1>2. worker \in [RunIds -> [Workers -> AnyHand]] /\ table \in [DOMAIN table -> [Names -> Stamps]]
  BY DEF TypeInv, Typed
<1>3. /\ job.host \in DOMAIN table /\ job.present \in Present
      /\ job \in [at : {"delete", "set"}, host : due[r], stamp : Stamp(r), present : Present]
  BY <1>1, HandFacts DEF Hands, Idle
<1>4. worker'[r][w] = [job EXCEPT !.at = "set"]
      /\ \A v \in Workers : v # w => worker'[r][v] = worker[r][v]
  BY <1>1, <1>2
<1>5. \A s \in RunIds : s # r => worker'[s] = worker[s]
  BY <1>1, <1>2
<1>6. /\ DOMAIN table' = DOMAIN table /\ table'[job.host] = Deleted(table[job.host], job.present)
      /\ \A h \in DOMAIN table : h # job.host => table'[h] = table[h]
  BY <1>1, <1>2, <1>3
<1>7. worker'[r][w].at = "set" /\ worker'[r][w].host = job.host /\ worker'[r][w].present = job.present
  BY <1>3, <1>4
<1>8. QED
  BY <1>1, <1>3, <1>4, <1>5, <1>6, <1>7

LEMMA SetFacts ==
  ASSUME SurveyAssumption, TypeInv, NEW r \in RunIds, NEW w \in Workers, Set(r, w)
  PROVE  LET job == worker[r][w]
         IN  /\ AtWork(r) /\ job.at = "set" /\ job.host \in DOMAIN table /\ job.stamp \in Stamp(r)
             /\ DOMAIN table' = DOMAIN table
             /\ \A h \in DOMAIN table : h # job.host => table'[h] = table[h]
             /\ table'[job.host] = SetTo(table[job.host], job)
             /\ worker'[r] = [worker[r] EXCEPT ![w] = Idle]
             /\ \A s \in RunIds : s # r => worker'[s] = worker[s]
             /\ UNCHANGED <<phase, cutoff, due, unput, queue, unsaved>>
<1> DEFINE job == worker[r][w]
<1>1. /\ AtWork(r) /\ job.at = "set" /\ worker' = [worker EXCEPT ![r][w] = Idle]
      /\ table' = [table EXCEPT ![job.host] = SetTo(@, job)]
      /\ UNCHANGED <<phase, cutoff, due, unput, queue, unsaved>>
  BY DEF Set, run
<1>2. worker \in [RunIds -> [Workers -> AnyHand]] /\ table \in [DOMAIN table -> [Names -> Stamps]]
  BY DEF TypeInv, Typed
<1>3. job.host \in DOMAIN table /\ job.stamp \in Stamp(r)
  BY <1>1, HandFacts
<1>4. worker'[r] = [worker[r] EXCEPT ![w] = Idle] /\ \A s \in RunIds : s # r => worker'[s] = worker[s]
  BY <1>1, <1>2
<1>5. /\ DOMAIN table' = DOMAIN table /\ table'[job.host] = SetTo(table[job.host], job)
      /\ \A h \in DOMAIN table : h # job.host => table'[h] = table[h]
  BY <1>1, <1>2, <1>3
<1>6. QED
  BY <1>1, <1>3, <1>4, <1>5

\* The date of a row stays, or a run at work is its author now.
LEMMA DatesMove ==
  ASSUME SurveyAssumption, TypeInv, [Next]_vars, NEW h \in DOMAIN table
  PROVE  /\ h \in DOMAIN table'
         /\ \/ Date(table', h) = Date(table, h)
            \/ \E r \in RunIds : AtWork(r) /\ Date(table', h).run = r
<1>1. "last_fetch_date" \in Names
  BY DEF Names
<1>2. CASE h \in DOMAIN table' /\ table'[h] = table[h]
  BY <1>2 DEF Date
<1>3. ASSUME NEW r \in RunIds, NEW w \in Workers, Delete(r, w)
      PROVE  h \in DOMAIN table' /\ Date(table', h) = Date(table, h)
  <2>1. DOMAIN table' = DOMAIN table
        /\ (table'[h] = table[h] \/ table'[h] = Deleted(table[h], worker[r][w].present))
    BY <1>3, DeleteFacts
  <2>2. QED
    BY <1>1, <2>1 DEF Date, Deleted
<1>4. ASSUME NEW r \in RunIds, NEW w \in Workers, Set(r, w)
      PROVE  /\ h \in DOMAIN table' /\ AtWork(r)
             /\ Date(table', h) = Date(table, h) \/ Date(table', h).run = r
  <2>0. /\ DOMAIN table' = DOMAIN table /\ AtWork(r) /\ worker[r][w].stamp \in Stamp(r)
        /\ \A k \in DOMAIN table : k # worker[r][w].host => table'[k] = table[k]
        /\ table'[worker[r][w].host] = SetTo(table[worker[r][w].host], worker[r][w])
    BY <1>4, SetFacts
  <2>1. table'[h] = table[h] \/ table'[h] = SetTo(table[h], worker[r][w])
    BY <2>0
  <2>2. worker[r][w].stamp.run = r
    BY <2>0 DEF Stamp
  <2>3. QED
    BY <1>1, <2>0, <2>1, <2>2 DEF Date, SetTo
<1>5. QED
  BY <1>2, <1>3, <1>4, TableMoves

-----------------------------------------------------------------------------
(* Each part of the invariant. *)

LEMMA OneSurveyStep ==
  ASSUME SurveyAssumption, TypeInv, OneSurvey, Cleared, [Next]_vars
  PROVE  OneSurvey'
<1>1. "last_fetch_date" \in Names
  BY DEF Names
<1>2. CASE /\ DOMAIN table \subseteq DOMAIN table'
           /\ \A h \in DOMAIN table : table'[h] = table[h]
           /\ \A h \in DOMAIN table' \ DOMAIN table : table'[h] = NoRows
  BY <1>1, <1>2 DEF OneSurvey, NoRows
<1>3. ASSUME NEW r \in RunIds, NEW w \in Workers, Delete(r, w)
      PROVE  OneSurvey'
  <2> DEFINE job == worker[r][w]
  <2>1. /\ job.host \in DOMAIN table /\ DOMAIN table' = DOMAIN table
        /\ \A h \in DOMAIN table : h # job.host => table'[h] = table[h]
        /\ table'[job.host] = Deleted(table[job.host], job.present)
    BY <1>3, DeleteFacts
  <2>2. \A n \in Names : table'[job.host][n] \in {NoRow, table'[job.host]["last_fetch_date"]}
    BY <1>1, <2>1 DEF Deleted, OneSurvey
  <2>3. QED
    BY <2>1, <2>2 DEF OneSurvey
<1>4. ASSUME NEW r \in RunIds, NEW w \in Workers, Set(r, w)
      PROVE  OneSurvey'
  <2> DEFINE job == worker[r][w]
  <2>1. /\ AtWork(r) /\ job.at = "set" /\ job.host \in DOMAIN table /\ DOMAIN table' = DOMAIN table
        /\ \A h \in DOMAIN table : h # job.host => table'[h] = table[h]
        /\ table'[job.host] = SetTo(table[job.host], job)
    BY <1>4, SetFacts
  <2>2. \A n \in Names \ (job.present \union {"last_fetch_date"}) : table[job.host][n] = NoRow
    BY <2>1 DEF Cleared
  <2>3. \A n \in Names : table'[job.host][n] \in {NoRow, table'[job.host]["last_fetch_date"]}
    BY <1>1, <2>1, <2>2 DEF SetTo
  <2>4. QED
    BY <2>1, <2>3 DEF OneSurvey
<1>5. QED
  BY <1>2, <1>3, <1>4, TableMoves

\* A worker that is to set has set out to before, or has just deleted.
LEMMA ToSet ==
  ASSUME SurveyAssumption, TypeInv, [Next]_vars, NEW r \in RunIds, NEW w \in Workers,
         AtWork(r)', worker'[r][w].at = "set", ~ Delete(r, w)
  PROVE  AtWork(r) /\ worker'[r][w] = worker[r][w]
<1>1. /\ worker \in [RunIds -> [Workers -> AnyHand]] /\ "set" # "ask" /\ Idle.at # "set"
      /\ phase \in [RunIds -> {"new", "seed", "scan", "put", "done", "dead"}]
  BY DEF TypeInv, Typed, Idle
<1>2. CASE worker' = worker
  <2>1. worker[r][w].at # "idle"
    BY <1>2
  <2>2. due[r] # {}
    BY <2>1, HandFacts
  <2>3. phase[r] \notin {"new", "seed", "scan"}
    BY <2>2 DEF TypeInv, ScanFirst
  <2>4. phase[r] \notin {"done", "dead"}
    <3>1. ASSUME NEW s \in RunIds, Start(s)
          PROVE  phase[s] = "new" /\ \E p : phase' = [phase EXCEPT ![s] = p]
      BY <3>1 DEF Start
    <3>2. ASSUME NEW s \in RunIds, Seed(s) \/ Scan(s) \/ Join(s) \/ Kill(s)
          PROVE  phase' = phase \/ (AtWork(s) /\ \E p : phase' = [phase EXCEPT ![s] = p])
      BY <3>2 DEF Seed, Scan, Join, Kill, AtWork
    <3>3. ASSUME NEW s \in RunIds, NEW v \in Workers, Work(s, v) \/ Raise(s, v)
          PROVE  phase' = phase
      BY <3>3 DEF Work, Get, Survey, Delete, Set, Raise
    <3>4. ASSUME NEW s \in RunIds, Put(s)
          PROVE  phase' = phase
      BY <3>4 DEF Put
    <3>5. ASSUME UNCHANGED vars \/ Tick \/ NewLabel
          PROVE  phase' = phase
      BY <3>5 DEF vars, Tick, NewLabel
    <3>6. phase'[r] = phase[r] \/ phase[r] = "new" \/ AtWork(r)
      <4>1. ASSUME NEW s \in RunIds, NEW p, phase' = [phase EXCEPT ![s] = p], phase[s] = "new" \/ AtWork(s)
            PROVE  phase'[r] = phase[r] \/ phase[r] = "new" \/ AtWork(r)
        BY <1>1, <4>1
      <4>2. ASSUME NEW s \in RunIds, Main(s) \/ Kill(s)
            PROVE  phase'[r] = phase[r] \/ phase[r] = "new" \/ AtWork(r)
        <5>1. CASE Start(s)
          BY <3>1, <4>1, <5>1
        <5>2. CASE Seed(s) \/ Scan(s) \/ Join(s) \/ Kill(s)
          BY <3>2, <4>1, <5>2
        <5>3. CASE Put(s)
          BY <3>4, <5>3
        <5>4. QED
          BY <4>2, <5>1, <5>2, <5>3 DEF Main
      <4>3. QED
        BY <3>3, <3>5, <4>2 DEF Next
    <3>7. QED
      BY <3>6 DEF AtWork
  <2>5. QED
    BY <1>1, <1>2, <2>3, <2>4 DEF AtWork
<1>3. ASSUME NEW s \in RunIds, Join(s)
      PROVE  AtWork(r) /\ worker'[r][w] = worker[r][w]
  <2>1. worker' = [worker EXCEPT ![s] = [v \in Workers |-> Idle]] /\ phase' = [phase EXCEPT ![s] = "done"]
    BY <1>3 DEF Join
  <2>2. s # r
    BY <1>1, <2>1
  <2>3. QED
    BY <1>1, <2>1, <2>2 DEF AtWork
<1>4. ASSUME NEW s \in RunIds, NEW v \in Workers, NEW hand, AtWork(s), phase' = phase,
             worker' = [worker EXCEPT ![s][v] = hand], hand.at # "set"
      PROVE  AtWork(r) /\ worker'[r][w] = worker[r][w]
  <2>1. worker'[s][v] = hand /\ \A x \in Workers : x # v => worker'[s][x] = worker[s][x]
    BY <1>1, <1>4
  <2>2. \A x \in RunIds : x # s => worker'[x] = worker[x]
    BY <1>1, <1>4
  <2>3. r # s \/ w # v
    BY <1>4, <2>1
  <2>4. QED
    BY <1>4, <2>1, <2>2, <2>3 DEF AtWork
<1>5. ASSUME NEW s \in RunIds, NEW v \in Workers, Work(s, v) \/ Raise(s, v)
      PROVE  AtWork(r) /\ worker'[r][w] = worker[r][w]
  <2>1. CASE Delete(s, v)
    <3>1. /\ UNCHANGED phase
          /\ \A x \in Workers : x # v => worker'[s][x] = worker[s][x]
          /\ \A x \in RunIds : x # s => worker'[x] = worker[x]
      BY <2>1, DeleteFacts
    <3>2. r # s \/ w # v
      BY <2>1
    <3>3. QED
      BY <3>1, <3>2 DEF AtWork
  <2>2. CASE Get(s, v) \/ Survey(s, v) \/ Set(s, v) \/ Raise(s, v)
    <3>1. AtWork(s) /\ phase' = phase
      BY <2>2 DEF Get, Survey, Set, Raise
    <3>2. \E hand : hand.at # "set" /\ worker' = [worker EXCEPT ![s][v] = hand]
      <4>1. CASE Get(s, v)
        BY <4>1 DEF Get
      <4>2. CASE Survey(s, v)
        <5>1. PICK present : worker' = [worker EXCEPT ![s][v] =
                [at |-> "delete", host |-> @.host, stamp |-> @.stamp, present |-> present]]
          BY <4>2 DEF Survey
        <5> DEFINE hand == [at |-> "delete", host |-> worker[s][v].host, stamp |-> worker[s][v].stamp,
                            present |-> present]
        <5>2. worker' = [worker EXCEPT ![s][v] = hand] /\ hand.at # "set"
          BY <1>1, <5>1
        <5>3. QED
          BY <5>2
      <4>3. CASE Set(s, v) \/ Raise(s, v)
        BY <1>1, <4>3 DEF Set, Raise
      <4>4. QED
        BY <2>2, <4>1, <4>2, <4>3
    <3>3. QED
      BY <1>4, <3>1, <3>2
  <2>3. QED
    BY <1>5, <2>1, <2>2 DEF Work
<1>6. CASE UNCHANGED vars
  BY <1>2, <1>6 DEF vars, pool
<1>7. CASE Next
  <2>1. ASSUME Tick \/ NewLabel \/ \E s \in RunIds : Kill(s) \/ Start(s) \/ Seed(s) \/ Scan(s) \/ Put(s)
        PROVE  worker' = worker
    BY <2>1 DEF Tick, NewLabel, Kill, Start, Seed, Scan, Put, pool
  <2>2. QED
    BY <1>2, <1>3, <1>5, <1>7, <2>1 DEF Next, Main
<1>8. QED
  BY <1>6, <1>7

LEMMA ClearedStep ==
  ASSUME SurveyAssumption, ~ Overlap, TypeInv, InTurn, Cleared, [Next]_vars
  PROVE  Cleared'
<1> SUFFICES ASSUME NEW r \in RunIds, NEW w \in Workers, AtWork(r)', worker'[r][w].at = "set",
                    NEW n \in Names \ (worker'[r][w].present \union {"last_fetch_date"})
             PROVE  table'[worker'[r][w].host][n] = NoRow
  BY DEF Cleared, AtWork
<1>1. CASE Delete(r, w)
  <2> DEFINE job == worker[r][w]
  <2>1. /\ table'[job.host] = Deleted(table[job.host], job.present)
        /\ worker'[r][w].host = job.host /\ worker'[r][w].present = job.present
    BY <1>1, DeleteFacts
  <2>2. QED
    BY <2>1 DEF Deleted
<1>2. CASE ~ Delete(r, w)
  <2> DEFINE job == worker[r][w]
  <2>1. AtWork(r) /\ worker'[r][w] = job /\ job.at = "set"
    BY <1>2, ToSet
  <2>2. table[job.host][n] = NoRow /\ job.host \in DOMAIN table
    BY <2>1, HandFacts DEF Cleared
  <2>3. ASSUME NEW s \in RunIds, NEW v \in Workers, Delete(s, v) \/ Set(s, v)
        PROVE  table'[job.host] = table[job.host]
    <3>1. /\ AtWork(s) /\ worker[s][v].at \in {"delete", "set"}
          /\ \A h \in DOMAIN table : h # worker[s][v].host => table'[h] = table[h]
      BY <2>3, DeleteFacts, SetFacts
    <3>2. s = r
      BY <2>1, <3>1, LastAtWork
    <3>3. v # w
      <4>1. CASE Delete(s, v)
        BY <1>2, <3>2, <4>1
      <4>2. CASE Set(s, v)
        <5>1. worker \in [RunIds -> [Workers -> AnyHand]]
          BY DEF TypeInv, Typed
        <5>2. worker'[s][v] = Idle
          BY <4>2, <5>1 DEF Set
        <5>3. QED
          BY <3>2, <5>2 DEF Idle
      <4>3. QED
        BY <2>3, <4>1, <4>2
    <3>4. worker[r][v].host # job.host
      <4>1. v \in BusyIn(worker[r]) /\ w \in BusyIn(worker[r])
        BY <2>1, <3>1, <3>2 DEF BusyIn
      <4>2. QED
        BY <3>3, <4>1 DEF TypeInv, RunsOK, RunOK
    <3>5. QED
      BY <2>2, <3>1, <3>2, <3>4
  <2>4. table'[job.host] = table[job.host]
    BY <2>2, <2>3, TableMoves
  <2>5. QED
    BY <2>1, <2>2, <2>4
<1>3. QED
  BY <1>1, <1>2

\* What a run has found is due, or saved by it or one after it, also as others go on.
LEMMA SinceStays ==
  ASSUME SurveyAssumption, TypeInv, InTurn, [Next]_vars, NEW r \in RunIds, NEW h \in due[r]
  PROVE  /\ Since(table, h, r) => Since(table', h, r)
         /\ Date(table', h) = Date(table, h) \/ Since(table', h, r)
<1>1. due[r] \subseteq DOMAIN table /\ phase[r] # "new"
  BY DEF TypeInv, RunsOK, RunOK, ScanFirst
<1>2. CASE Date(table', h) = Date(table, h)
  BY <1>2 DEF Since
<1>3. ASSUME NEW s \in RunIds, AtWork(s), Date(table', h).run = s
      PROVE  Since(table', h, r)
  <2>1. r <= s
    BY <1>1, <1>3, LastAtWork
  <2>2. QED
    BY <1>3, <2>1 DEF Since, RunIds, SurveyAssumption
<1>4. QED
  BY <1>1, <1>2, <1>3, DatesMove

LEMMA StaysDueStep ==
  ASSUME SurveyAssumption, TypeInv, InTurn, StaysDue, [Next]_vars
  PROVE  StaysDue'
<1>1. /\ due \in [RunIds -> SUBSET Hosts] /\ cutoff \in [RunIds -> Int]
  BY DEF TypeInv, Typed
<1>2. ASSUME NEW r \in RunIds, NEW h \in due[r], cutoff'[r] = cutoff[r]
      PROVE  Since(table', h, r) \/ IsDue(table'[h], cutoff'[r])
  <2>1. Since(table, h, r) \/ IsDue(table[h], cutoff[r])
    BY DEF StaysDue
  <2>2. CASE Since(table', h, r)
    BY <2>2
  <2>3. CASE ~ Since(table', h, r)
    <3>1. Date(table', h) = Date(table, h) /\ ~ Since(table, h, r)
      BY <2>3, SinceStays
    <3>2. QED
      BY <1>2, <2>1, <3>1 DEF IsDue, Date
  <2>4. QED
    BY <2>2, <2>3
<1>3. ASSUME NEW s \in RunIds, Scan(s)
      PROVE  StaysDue'
  <2>1. PICK picked \in SUBSET {h \in DOMAIN table : IsDue(table[h], now - MaxAge)} :
                   due' = [due EXCEPT ![s] = picked]
    BY <1>3 DEF Scan
  <2>2. cutoff' = [cutoff EXCEPT ![s] = now - MaxAge] /\ table' = table
    BY <1>3 DEF Scan, rows
  <2>3. \A r \in RunIds : r # s => cutoff'[r] = cutoff[r] /\ due'[r] = due[r]
    BY <1>1, <2>1, <2>2
  <2>4. due'[s] = picked /\ cutoff'[s] = now - MaxAge
    BY <1>1, <2>1, <2>2
  <2>5. QED
    BY <1>2, <2>1, <2>2, <2>3, <2>4 DEF StaysDue
<1>4. ASSUME due' = due, cutoff' = cutoff
      PROVE  StaysDue'
  BY <1>2, <1>4 DEF StaysDue
<1>5. CASE UNCHANGED vars
  BY <1>4, <1>5 DEF vars, run
<1>6. CASE Next
  <2>1. ASSUME Tick \/ NewLabel \/ \E r \in RunIds : Kill(r) \/ Start(r) \/ Seed(r) \/ Put(r) \/ Join(r)
        PROVE  due' = due /\ cutoff' = cutoff
    BY <2>1 DEF Tick, NewLabel, Kill, Start, Seed, Put, Join, run
  <2>2. ASSUME NEW r \in RunIds, NEW w \in Workers, Work(r, w) \/ Raise(r, w)
        PROVE  due' = due /\ cutoff' = cutoff
    BY <2>2 DEF Work, Get, Survey, Delete, Set, Raise, run
  <2>3. QED
    BY <1>3, <1>4, <1>6, <2>1, <2>2 DEF Next, Main
<1>7. QED
  BY <1>5, <1>6

\* What is before a run stays so: a host goes from the list to the queue to a hand.
LEMMA LeftPut ==
  ASSUME NEW S, NEW q \in Seq(S), NEW f, NEW u, NEW x \in S, NEW h, Left(h, q, f, u)
  PROVE  Left(h, Append(q, x), f, u \ {x})
<1> DEFINE p == Append(q, x)
<1>1. /\ Len(q) \in Nat /\ Len(p) = Len(q) + 1 /\ p[Len(q) + 1] = x
      /\ \A i \in 1 .. Len(q) : p[i] = q[i]
  BY AppendFacts
<1> HIDE DEF p
<1>2. InQueue(h, q) => InQueue(h, p)
  BY <1>1 DEF InQueue
<1>3. InQueue(x, p)
  BY <1>1 DEF InQueue
<1>4. QED
  BY <1>2, <1>3 DEF Left, p

LEMMA LeftGet ==
  ASSUME NEW S, NEW q \in Seq(S), q # <<>>, NEW f, NEW g, NEW u, NEW w \in Workers, f[w].at = "idle",
         g[w].at # "idle", g[w].host = Head(q), \A v \in Workers : v # w => g[v] = f[v],
         NEW h, Left(h, q, f, u)
  PROVE  Left(h, Tail(q), g, u)
<1> DEFINE p == Tail(q)
           x == Head(q)
<1>1. /\ Len(q) \in Nat \ {0} /\ x = q[1] /\ Len(p) = Len(q) - 1
      /\ \A i \in 1 .. Len(q) - 1 : p[i] = q[i + 1]
  BY TailFacts
<1>2. g[w].host = x
  OBVIOUS
<1> HIDE DEF p, x
<1>3. InHand(x, g)
  BY <1>2 DEF InHand, BusyIn
<1>4. InHand(h, f) => InHand(h, g)
  BY DEF InHand, BusyIn
<1>5. ASSUME NEW i \in 1 .. Len(q), q[i] = h
      PROVE  h = x \/ InQueue(h, p)
  <2>1. CASE i = 1
    BY <1>1, <1>5, <2>1
  <2>2. CASE i # 1
    <3>1. i - 1 \in 1 .. Len(p) /\ p[i - 1] = q[(i - 1) + 1] /\ (i - 1) + 1 = i
      BY <1>1, <2>2
    <3>2. QED
      BY <1>5, <3>1 DEF InQueue
  <2>3. QED
    BY <2>1, <2>2
<1>6. QED
  BY <1>3, <1>4, <1>5 DEF Left, InQueue, p

LEMMA LeftStays ==
  ASSUME NEW q, NEW f, NEW g, NEW u, NEW w \in Workers, f[w].at # "idle",
         g[w].at # "idle" /\ g[w].host = f[w].host, \A v \in Workers : v # w => g[v] = f[v],
         NEW h, Left(h, q, f, u)
  PROVE  Left(h, q, g, u)
BY DEF Left, InHand, BusyIn

LEMMA LeftDone ==
  ASSUME NEW q, NEW f, NEW g, NEW u, NEW w \in Workers,
         \A v \in Workers : v # w => g[v] = f[v],
         NEW h, Left(h, q, f, u), h # f[w].host
  PROVE  Left(h, q, g, u)
BY DEF Left, InHand, BusyIn

LEMMA WorkLeftStep ==
  ASSUME SurveyAssumption, TypeInv, InTurn, WorkLeft, [Next]_vars
  PROVE  WorkLeft'
<1>1. /\ phase \in [RunIds -> {"new", "seed", "scan", "put", "done", "dead"}]
      /\ due \in [RunIds -> SUBSET Hosts] /\ unput \in [RunIds -> SUBSET Hosts]
      /\ unsaved \in [RunIds -> SUBSET Hosts] /\ queue \in [RunIds -> Seq(Hosts)]
      /\ unfinished \in [RunIds -> Nat] /\ worker \in [RunIds -> [Workers -> AnyHand]]
  BY DEF TypeInv, Typed
\* It is enough to look at what has not been saved, of the run that moves.
<1> DEFINE LeftOf(r, h) == Left(h, queue[r], worker[r], unput[r])
<1>2. ASSUME NEW r \in RunIds, NEW h \in due[r], phase[r] \in {"put", "done"},
             h \notin unsaved[r], ~ Since(table', h, r)
      PROVE  phase[r] = "put" /\ LeftOf(r, h)
  BY <1>2, SinceStays DEF WorkLeft
<1>3. ASSUME NEW s \in RunIds,
             \A r \in RunIds : r # s => /\ phase'[r] = phase[r] /\ due'[r] = due[r] /\ unsaved'[r] = unsaved[r]
                                        /\ queue'[r] = queue[r] /\ worker'[r] = worker[r]
                                        /\ unput'[r] = unput[r],
             ASSUME phase'[s] \in {"put", "done"}, NEW h \in due'[s], h \notin unsaved'[s],
                    ~ Since(table', h, s)
             PROVE  phase'[s] = "put" /\ Left(h, queue'[s], worker'[s], unput'[s])
      PROVE  WorkLeft'
  <2>1. ASSUME NEW r \in RunIds, phase'[r] \in {"put", "done"}, NEW h \in due'[r], h \notin unsaved'[r],
               ~ Since(table', h, r)
        PROVE  phase'[r] = "put" /\ Left(h, queue'[r], worker'[r], unput'[r])
    <3>1. CASE r = s
      BY <1>3, <2>1, <3>1
    <3>2. CASE r # s
      BY <1>2, <1>3, <2>1, <3>2
    <3>3. QED
      BY <3>1, <3>2
  <2>2. QED
    BY <2>1 DEF WorkLeft
\* The run's own task.
<1>4. ASSUME NEW s \in RunIds, Start(s) \/ Seed(s) \/ Kill(s)
      PROVE  WorkLeft'
  <2>1. /\ UNCHANGED <<due, unput, pool>> /\ phase[s] \notin {"done"}
        /\ phase' = phase \/ \E p \in {"seed", "scan", "dead"} : phase' = [phase EXCEPT ![s] = p]
    BY <1>4 DEF Start, Seed, Kill, AtWork, run
  <2>2. phase'[s] = phase[s] \/ phase'[s] \notin {"put", "done"}
    BY <1>1, <2>1
  <2>3. \A r \in RunIds : r # s => phase'[r] = phase[r]
    BY <1>1, <2>1
  <2>4. ASSUME phase'[s] \in {"put", "done"}, NEW h \in due'[s], h \notin unsaved'[s],
               ~ Since(table', h, s)
        PROVE  phase'[s] = "put" /\ Left(h, queue'[s], worker'[s], unput'[s])
    BY <1>2, <2>1, <2>2, <2>4 DEF pool, LeftOf
  <2>5. QED
    BY <1>3, <2>1, <2>3, <2>4 DEF pool
<1>5. ASSUME NEW s \in RunIds, Scan(s)
      PROVE  WorkLeft'
  <2>1. PICK picked \in SUBSET DOMAIN table :
           due' = [due EXCEPT ![s] = picked] /\ unput' = [unput EXCEPT ![s] = picked]
    BY <1>5 DEF Scan
  <2>2. phase' = [phase EXCEPT ![s] = "put"] /\ UNCHANGED pool
    BY <1>5 DEF Scan
  <2>3. /\ phase'[s] = "put" /\ due'[s] = unput'[s]
        /\ \A r \in RunIds : r # s => /\ phase'[r] = phase[r] /\ due'[r] = due[r] /\ unput'[r] = unput[r]
    BY <1>1, <2>1, <2>2
  <2>4. QED
    BY <1>3, <2>2, <2>3 DEF Left, pool
<1>6. ASSUME NEW s \in RunIds, Put(s)
      PROVE  WorkLeft'
  <2>1. PICK x \in unput[s] : /\ queue' = [queue EXCEPT ![s] = Append(queue[s], x)]
                              /\ unput' = [unput EXCEPT ![s] = unput[s] \ {x}]
    BY <1>6 DEF Put
  <2>2. UNCHANGED <<phase, due, worker, unsaved>>
    BY <1>6 DEF Put
  <2>3. /\ queue'[s] = Append(queue[s], x) /\ unput'[s] = unput[s] \ {x}
        /\ \A r \in RunIds : r # s => queue'[r] = queue[r] /\ unput'[r] = unput[r]
    BY <1>1, <2>1
  <2>4. ASSUME phase'[s] \in {"put", "done"}, NEW h \in due'[s], h \notin unsaved'[s],
               ~ Since(table', h, s)
        PROVE  phase'[s] = "put" /\ Left(h, queue'[s], worker'[s], unput'[s])
    <3>1. phase[s] = "put" /\ Left(h, queue[s], worker[s], unput[s])
      BY <1>2, <2>2, <2>4 DEF LeftOf
    <3>2. queue[s] \in Seq(Hosts) /\ x \in Hosts
      BY <1>1
    <3>3. Left(h, Append(queue[s], x), worker[s], unput[s] \ {x})
      BY <3>1, <3>2, LeftPut
    <3>4. QED
      BY <2>2, <2>3, <3>1, <3>3
  <2>5. QED
    BY <1>3, <2>2, <2>3, <2>4
<1>7. ASSUME NEW s \in RunIds, Join(s)
      PROVE  WorkLeft'
  <2>1. /\ unput[s] = {} /\ unfinished[s] = 0 /\ phase[s] = "put" /\ phase' = [phase EXCEPT ![s] = "done"]
        /\ worker' = [worker EXCEPT ![s] = [w \in Workers |-> Idle]]
        /\ UNCHANGED <<due, unput, queue, unsaved>>
    BY <1>7 DEF Join, run
  <2>2. \A h : ~ Left(h, queue[s], worker[s], unput[s])
    <3> DEFINE q == queue[s]
               f == worker[s]
    <3>1. RunOK(DOMAIN table, s, q, f, unput[s], due[s], 0) /\ q \in Seq(Hosts)
      BY <1>1, <2>1 DEF TypeInv, RunsOK
    <3> HIDE DEF q, f
    <3>2. Len(q) \in Nat /\ 0 = Len(q) + Cardinality(BusyIn(f))
      BY <3>1 DEF RunOK
    <3>3. BusyIn(f) = {} /\ Len(q) = 0
      BY <3>2, NoneBusy
    <3>4. QED
      BY <2>1, <3>3 DEF Left, InQueue, InHand, q, f
  <2>3. \A r \in RunIds : r # s => phase'[r] = phase[r] /\ worker'[r] = worker[r]
    BY <1>1, <2>1
  <2>4. ASSUME phase'[s] \in {"put", "done"}, NEW h \in due'[s], h \notin unsaved'[s],
               ~ Since(table', h, s)
        PROVE  phase'[s] = "put" /\ Left(h, queue'[s], worker'[s], unput'[s])
    BY <1>2, <2>1, <2>2, <2>4 DEF LeftOf
  <2>5. QED
    BY <1>3, <2>1, <2>3, <2>4
\* A worker.
<1>8. ASSUME NEW s \in RunIds, NEW w \in Workers, NEW hand, worker' = [worker EXCEPT ![s][w] = hand]
      PROVE  /\ worker'[s][w] = hand /\ \A v \in Workers : v # w => worker'[s][v] = worker[s][v]
             /\ \A r \in RunIds : r # s => worker'[r] = worker[r]
  BY <1>1, <1>8
<1>9. ASSUME NEW s \in RunIds, NEW w \in Workers, Get(s, w)
      PROVE  WorkLeft'
  <2> DEFINE hand == [at |-> "ask", host |-> Head(queue[s]), stamp |-> [run |-> s, time |-> now]]
  <2>1. /\ worker[s][w].at = "idle" /\ queue[s] # <<>> /\ worker' = [worker EXCEPT ![s][w] = hand]
        /\ queue' = [queue EXCEPT ![s] = Tail(queue[s])] /\ UNCHANGED <<phase, due, unput, unsaved>>
    BY <1>9 DEF Get, run
  <2>2. hand.at # "idle" /\ hand.host = Head(queue[s])
    OBVIOUS
  <2> HIDE DEF hand
  <2>3. queue'[s] = Tail(queue[s]) /\ \A r \in RunIds : r # s => queue'[r] = queue[r]
    BY <1>1, <2>1
  <2>4. ASSUME phase'[s] \in {"put", "done"}, NEW h \in due'[s], h \notin unsaved'[s],
               ~ Since(table', h, s)
        PROVE  phase'[s] = "put" /\ Left(h, queue'[s], worker'[s], unput'[s])
    <3> DEFINE q == queue[s]
               f == worker[s]
               g == worker'[s]
    <3>1. phase[s] = "put" /\ Left(h, q, f, unput[s])
      BY <1>2, <2>1, <2>4 DEF LeftOf
    <3>2. /\ q \in Seq(Hosts) /\ q # <<>> /\ f[w].at = "idle" /\ g[w].at # "idle" /\ g[w].host = Head(q)
          /\ \A v \in Workers : v # w => g[v] = f[v]
      BY <1>1, <1>8, <2>1, <2>2
    <3> HIDE DEF q, f, g
    <3>3. Left(h, Tail(q), g, unput[s])
      BY <3>1, <3>2, LeftGet
    <3>4. QED
      BY <2>1, <2>3, <3>1, <3>3 DEF q, g
  <2>5. \A r \in RunIds : r # s => worker'[r] = worker[r]
    BY <1>8, <2>1
  <2>6. QED
    BY <1>3, <2>1, <2>3, <2>4, <2>5
<1>10. ASSUME NEW s \in RunIds, NEW w \in Workers, Survey(s, w) \/ Delete(s, w)
       PROVE  WorkLeft'
  <2>1. worker[s][w].at # "idle" /\ UNCHANGED <<phase, due, unput, queue, unsaved>>
    BY <1>10 DEF Survey, Delete, run
  <2>2. /\ worker'[s][w].at # "idle" /\ worker'[s][w].host = worker[s][w].host
        /\ \A v \in Workers : v # w => worker'[s][v] = worker[s][v]
        /\ \A r \in RunIds : r # s => worker'[r] = worker[r]
    <3>1. CASE Survey(s, w)
      <4>1. PICK present : worker' = [worker EXCEPT ![s][w] =
                [at |-> "delete", host |-> @.host, stamp |-> @.stamp, present |-> present]]
        BY <3>1 DEF Survey
      <4>2. QED
        BY <1>1, <4>1
    <3>2. CASE Delete(s, w)
      BY <3>2, DeleteFacts
    <3>3. QED
      BY <1>10, <3>1, <3>2
  <2>3. ASSUME phase'[s] \in {"put", "done"}, NEW h \in due'[s], h \notin unsaved'[s],
               ~ Since(table', h, s)
        PROVE  phase'[s] = "put" /\ Left(h, queue'[s], worker'[s], unput'[s])
    <3> DEFINE f == worker[s]
               g == worker'[s]
    <3>1. phase[s] = "put" /\ Left(h, queue[s], f, unput[s])
      BY <1>2, <2>1, <2>3 DEF LeftOf
    <3>2. /\ f[w].at # "idle" /\ g[w].at # "idle" /\ g[w].host = f[w].host
          /\ \A v \in Workers : v # w => g[v] = f[v]
      BY <2>1, <2>2
    <3> HIDE DEF f, g
    <3>3. Left(h, queue[s], g, unput[s])
      BY <3>1, <3>2, LeftStays
    <3>4. QED
      BY <2>1, <3>1, <3>3 DEF g
  <2>4. QED
    BY <1>3, <2>1, <2>2, <2>3
<1>11. ASSUME NEW s \in RunIds, NEW w \in Workers, Set(s, w) \/ Raise(s, w)
       PROVE  WorkLeft'
  <2> DEFINE x == worker[s][w].host
  <2>1. /\ worker' = [worker EXCEPT ![s][w] = Idle] /\ UNCHANGED <<phase, due, unput, queue>>
        /\ unsaved' = unsaved \/ unsaved' = [unsaved EXCEPT ![s] = @ \union {x}]
    BY <1>11 DEF Set, Raise, run
  <2>2. Since(table', x, s) \/ x \in unsaved'[s]
    <3>1. CASE Set(s, w)
      <4>1. table'[x] = SetTo(table[x], worker[s][w]) /\ worker[s][w].stamp \in Stamp(s)
        BY <3>1, SetFacts
      <4>2. Date(table', x).run = s
        BY <4>1 DEF SetTo, Date, Names, Stamp
      <4>3. QED
        BY <4>2 DEF Since, RunIds, SurveyAssumption
    <3>2. CASE Raise(s, w)
      BY <1>1, <3>2 DEF Raise
    <3>3. QED
      BY <1>11, <3>1, <3>2
  <2>3. unsaved[s] \subseteq unsaved'[s] /\ \A r \in RunIds : r # s => unsaved'[r] = unsaved[r]
    BY <1>1, <2>1
  <2>4. ASSUME phase'[s] \in {"put", "done"}, NEW h \in due'[s], h \notin unsaved'[s],
               ~ Since(table', h, s)
        PROVE  phase'[s] = "put" /\ Left(h, queue'[s], worker'[s], unput'[s])
    <3> DEFINE f == worker[s]
               g == worker'[s]
    <3>1. phase[s] = "put" /\ Left(h, queue[s], f, unput[s]) /\ h # f[w].host
      BY <1>2, <2>1, <2>2, <2>3, <2>4 DEF LeftOf
    <3>2. \A v \in Workers : v # w => g[v] = f[v]
      BY <1>8, <2>1
    <3> HIDE DEF f, g
    <3>3. Left(h, queue[s], g, unput[s])
      BY <3>1, <3>2, LeftDone
    <3>4. QED
      BY <2>1, <3>1, <3>3 DEF g
  <2>5. \A r \in RunIds : r # s => /\ phase'[r] = phase[r] /\ due'[r] = due[r] /\ unsaved'[r] = unsaved[r]
                                   /\ queue'[r] = queue[r] /\ worker'[r] = worker[r]
                                   /\ unput'[r] = unput[r]
    BY <1>8, <2>1, <2>3
  <2>6. QED
    BY <1>3, <2>4, <2>5
<1>12. ASSUME UNCHANGED <<phase, due, unput, pool>>
       PROVE  WorkLeft'
  <2>1. ASSUME NEW r \in RunIds, phase'[r] \in {"put", "done"}, NEW h \in due'[r], h \notin unsaved'[r],
               ~ Since(table', h, r)
        PROVE  phase'[r] = "put" /\ Left(h, queue'[r], worker'[r], unput'[r])
    <3>1. /\ phase'[r] = phase[r] /\ due'[r] = due[r] /\ unsaved'[r] = unsaved[r]
          /\ queue'[r] = queue[r] /\ worker'[r] = worker[r] /\ unput'[r] = unput[r]
      BY <1>12 DEF pool
    <3>2. phase[r] = "put" /\ LeftOf(r, h)
      BY <1>2, <2>1, <3>1
    <3>3. QED
      BY <3>1, <3>2 DEF LeftOf
  <2>2. QED
    BY <2>1 DEF WorkLeft
<1>13. CASE UNCHANGED vars
  BY <1>12, <1>13 DEF vars, run
<1>14. CASE Next
  <2>1. ASSUME Tick \/ NewLabel
        PROVE  WorkLeft'
    BY <1>12, <2>1 DEF Tick, NewLabel, run
  <2>2. QED
    BY <1>4, <1>5, <1>6, <1>7, <1>9, <1>10, <1>11, <1>14, <2>1 DEF Next, Main, Work
<1>15. QED
  BY <1>13, <1>14

-----------------------------------------------------------------------------
LEMMA SurveyInvInit ==
  ASSUME SurveyAssumption, Init
  PROVE  SurveyInv
<1>1. TypeInv
  BY TypeInvInit
<1>2. InTurn /\ StaysDue /\ WorkLeft
  BY DEF Init, InTurn, StaysDue, WorkLeft
<1>3. Cleared
  BY DEF Init, Cleared, AtWork
<1>4. OneSurvey
  <2> DEFINE stamp == [run |-> 0, time |-> 1]
  <2>1. \A h \in DOMAIN table :
           table[h] = NoRows \/ \E p \in {{"failure"}, Info} : table[h] = Saved(p, stamp)
    BY DEF Init
  <2>2. "last_fetch_date" \in Names
    BY DEF Names
  <2>3. \A p, n : n \in Names => Saved(p, stamp)[n] \in {NoRow, Saved(p, stamp)["last_fetch_date"]}
    BY <2>2 DEF Saved
  <2>4. \A n \in Names : NoRows[n] = NoRow
    BY DEF NoRows
  <2>5. QED
    BY <2>1, <2>2, <2>3, <2>4 DEF OneSurvey
<1>5. QED
  BY <1>1, <1>2, <1>3, <1>4 DEF SurveyInv

\* What a run finds, what it has before it and what the table says, together: the
\* invariant that the theorems below are read from.
THEOREM SurveyInvariant ==
  ASSUME SurveyAssumption, ~ Overlap
  PROVE  Spec => []SurveyInv
<1>1. Init => SurveyInv
  BY SurveyInvInit
<1>2. SurveyInv /\ [Next]_vars => SurveyInv'
  BY TypeInvStep, InTurnStep, OneSurveyStep, ClearedStep, StaysDueStep, WorkLeftStep DEF SurveyInv
<1>3. QED
  BY <1>1, <1>2, PTL DEF Spec

\* save_host deletes the properties a survey does not say before it sets those it says:
\* runs that do not overlap leave a host with the rows of one survey, whatever kills
\* and raising commands cut a save in two.
THEOREM RowsAreOfOneSurvey ==
  ASSUME SurveyAssumption, ~ Overlap
  PROVE  Spec => []OneSurvey
<1>1. SurveyInv => OneSurvey
  BY DEF SurveyInv
<1>2. QED
  BY <1>1, SurveyInvariant, PTL

\* docs/host_survey.md: a killed run loses nothing.  A host that hosts_to_survey found
\* for a run is saved, by this run or by a later one, or would be found again.
THEOREM KilledRunsLoseNothing ==
  ASSUME SurveyAssumption, ~ Overlap
  PROVE  Spec => []UnsavedIsDue
<1>1. SurveyInv => UnsavedIsDue
  <2> SUFFICES ASSUME SurveyInv, NEW r \in RunIds, NEW h \in due[r]
               PROVE  \/ \E s \in r .. Runs : table[h]["last_fetch_date"].run = s
                      \/ IsDue(table[h], cutoff[r])
    BY DEF UnsavedIsDue
  <2>1. Since(table, h, r) \/ IsDue(table[h], cutoff[r])
    BY DEF SurveyInv, StaysDue
  <2>2. QED
    BY <2>1 DEF Since, Date
<1>2. QED
  BY <1>1, SurveyInvariant, PTL

\* queue.join() in survey_all returns when each host of the scan was put, taken and
\* marked done: one whose save did not raise is saved, and no worker is cancelled
\* with a host in its hands.
THEOREM ReturningRunsSavedAll ==
  ASSUME SurveyAssumption, ~ Overlap
  PROVE  Spec => []AllSaved
<1>1. SurveyInv => AllSaved
  <2> SUFFICES ASSUME SurveyInv, NEW r \in RunIds, phase[r] = "done", NEW h \in due[r] \ unsaved[r]
               PROVE  \E s \in r .. Runs : table[h]["last_fetch_date"].run = s
    BY DEF AllSaved
  <2>1. Since(table, h, r)
    BY DEF SurveyInv, WorkLeft
  <2>2. QED
    BY <2>1 DEF Since, Date
<1>2. QED
  BY <1>1, SurveyInvariant, PTL

-----------------------------------------------------------------------------
(* The migrations. *)

Last == Len(Setup!Migrations)

LEMMA MigrationsAre ==
  /\ Last = 8 /\ DOMAIN Setup!Migrations = 1 .. Last
  /\ \A i, k \in 1 .. Last : Setup!Migrations[i] = Setup!Migrations[k] => i = k
BY DEF Last, Setup!Migrations

Steps == [at : {"down", "ensure", "read", "next", "ready"}]
         \union [at : {"define", "record", "commit"}, migration : {Setup!Migrations[i] : i \in 1 .. Last}]

Doing == {"define", "record", "commit"}

LEMMA InitialParts ==
  ASSUME NEW n \in 0 .. Last
  PROVE  /\ \A k \in 0 .. Last - 1 : Setup!Migrations[k + 1] \in Setup!First(n) <=> k < n
         /\ n < Last => Setup!First(n) \union {Setup!Migrations[n + 1]} = Setup!First(n + 1)
         /\ \A k \in 0 .. n : Setup!First(k) \subseteq Setup!First(n)
<1>1. \A k \in 0 .. Last - 1 : k + 1 \in 1 .. Last /\ (k + 1 \in 1 .. n <=> k < n)
  BY MigrationsAre
<1>2. 1 .. n \subseteq 1 .. Last /\ \A k \in 0 .. n : 1 .. k \subseteq 1 .. n
  BY MigrationsAre
<1>3. n < Last => 1 .. n + 1 = (1 .. n) \union {n + 1}
  BY MigrationsAre
<1>4. \A k \in 0 .. Last - 1 : Setup!Migrations[k + 1] \in Setup!First(n) <=> k < n
  BY <1>1, <1>2, MigrationsAre DEF Setup!First
<1>5. n < Last => Setup!First(n) \union {Setup!Migrations[n + 1]} = Setup!First(n + 1)
  BY <1>3 DEF Setup!First
<1>6. \A k \in 0 .. n : Setup!First(k) \subseteq Setup!First(n)
  BY <1>2 DEF Setup!First
<1>7. QED
  BY <1>4, <1>5, <1>6

States == [at : {"down", "ensure", "read", "next", "ready"}]
          \union [at : Doing, migration : {Setup!Migrations[i] : i \in 1 .. Last}]

\* The first k migrations are those a pod knows to be there.
Knows(p, k) ==
    /\ applied[p] = Setup!First(k)
    /\ pod[p].at \in Doing => k < Last /\ pod[p].migration = Setup!Migrations[k + 1]
    /\ pod[p].at = "ready" => k = Last

\* The first n are there; a transaction that is open makes the next.
ThereAre(n) ==
    /\ objects = Setup!First(n)
    /\ \A p \in Pods : /\ \E k \in 0 .. n : Knows(p, k)
                       /\ Setup!InTransaction(p) => n < Last /\ pod[p].migration = Setup!Migrations[n + 1]

MigInv ==
    /\ records = objects
    /\ pod \in [Pods -> States] /\ applied \in [Pods -> SUBSET Setup!Names]
    /\ \E n \in 0 .. Last : ThereAre(n)
    /\ \A p, q \in Pods : Setup!InTransaction(p) /\ Setup!InTransaction(q) => p = q

LEMMA MigInit ==
  ASSUME Setup!Init
  PROVE  MigInv
<1>1. PICK n \in 0 .. Last : objects = Setup!First(n)
  BY DEF Setup!Init, Last
<1>2. pod = [p \in Pods |-> [at |-> "down"]] /\ applied = [p \in Pods |-> {}] /\ records = objects
  BY DEF Setup!Init
<1>3. Setup!First(0) = {} /\ 0 \in 0 .. n
  BY MigrationsAre DEF Setup!First
<1>4. \A p \in Pods : Knows(p, 0) /\ ~ Setup!InTransaction(p)
  BY <1>2, <1>3 DEF Knows, Setup!InTransaction, Doing
<1>5. ThereAre(n)
  BY <1>1, <1>3, <1>4 DEF ThereAre
<1>6. QED
  BY <1>2, <1>4, <1>5 DEF MigInv, States

\* A pod that goes to a state of no migration, others perhaps going down.
LEMMA PodGoes ==
  ASSUME MigInv, UNCHANGED <<objects, records, applied>>, pod' \in [Pods -> States],
         \A p \in Pods : pod'[p] = pod[p] \/ pod'[p].at \notin Doing \union {"ready"}
  PROVE  MigInv'
<1>1. PICK n \in 0 .. Last : ThereAre(n)
  BY DEF MigInv
<1>2. \A p \in Pods, k \in 0 .. n : Knows(p, k) => Knows(p, k)'
  BY DEF Knows
<1>3. \A p \in Pods : Setup!InTransaction(p)' => Setup!InTransaction(p) /\ pod'[p] = pod[p]
  BY DEF Setup!InTransaction, Doing
<1>4. ThereAre(n)'
  BY <1>1, <1>2, <1>3 DEF ThereAre
<1>5. QED
  BY <1>3, <1>4 DEF MigInv

LEMMA PodGoesTo ==
  ASSUME MigInv, UNCHANGED <<objects, records, applied>>, NEW p \in Pods,
         NEW a \in {"down", "ensure", "read", "next"}, Setup!Go(p, a)
  PROVE  MigInv'
<1>1. pod' = [pod EXCEPT ![p] = [at |-> a]] /\ pod \in [Pods -> States]
  BY DEF Setup!Go, MigInv
<1>2. [at |-> a] \in States /\ [at |-> a].at \notin Doing \union {"ready"}
  BY DEF States, Doing
<1> DEFINE r == [at |-> a]
<1> HIDE DEF r
<1>3. r \in States /\ r.at \notin Doing \union {"ready"} /\ pod' = [pod EXCEPT ![p] = r]
  BY <1>1, <1>2 DEF r
<1>4. pod' \in [Pods -> States] /\ \A q \in Pods : pod'[q] = pod[q] \/ pod'[q] = r
  BY <1>1, <1>3
<1>5. QED
  BY <1>3, <1>4, PodGoes

LEMMA MigEnsure ==
  ASSUME MigInv, NEW p \in Pods, Setup!Ensure(p)
  PROVE  MigInv'
<1>1. CASE Setup!Go(p, "read")
  BY <1>1, PodGoesTo DEF Setup!Ensure
<1>2. ASSUME NEW q \in Pods \ {p}, pod' = [pod EXCEPT ![p] = [at |-> "read"], ![q] = Setup!Down]
      PROVE  MigInv'
  <2>1. pod \in [Pods -> States] /\ [at |-> "read"] \in States /\ Setup!Down \in States
    BY DEF MigInv, States, Setup!Down
  <2>2. \A r \in Pods : pod'[r] \in {pod[r], [at |-> "read"], Setup!Down}
    BY <1>2, <2>1
  <2>3. pod' \in [Pods -> States]
    BY <1>2, <2>1
  <2>4. [at |-> "read"].at \notin Doing \union {"ready"} /\ Setup!Down.at \notin Doing \union {"ready"}
    BY DEF Setup!Down, Doing
  <2>5. UNCHANGED <<objects, records, applied>>
    BY DEF Setup!Ensure
  <2>6. QED
    BY <2>2, <2>3, <2>4, <2>5, PodGoes
<1>3. QED
  BY <1>1, <1>2 DEF Setup!Ensure

LEMMA MigRead ==
  ASSUME MigInv, NEW p \in Pods, Setup!Read(p)
  PROVE  MigInv'
<1>1. PICK n \in 0 .. Last : ThereAre(n)
  BY DEF MigInv
<1>2. /\ applied' = [applied EXCEPT ![p] = records] /\ pod' = [pod EXCEPT ![p] = [at |-> "next"]]
      /\ UNCHANGED <<objects, records>> /\ records = Setup!First(n)
  BY <1>1 DEF Setup!Read, Setup!Go, MigInv, ThereAre
<1>3. pod \in [Pods -> States] /\ applied \in [Pods -> SUBSET Setup!Names]
  BY DEF MigInv
<1>4. Setup!First(n) \subseteq Setup!Names
  BY MigrationsAre, InitialParts DEF Setup!Names, Last
<1>5. applied'[p] = Setup!First(n) /\ pod'[p] = [at |-> "next"]
      /\ \A q \in Pods \ {p} : applied'[q] = applied[q] /\ pod'[q] = pod[q]
  BY <1>2, <1>3
<1>6. pod' \in [Pods -> States] /\ applied' \in [Pods -> SUBSET Setup!Names]
  BY <1>2, <1>3, <1>4 DEF States
<1>7. Knows(p, n)' /\ ~ Setup!InTransaction(p)'
  BY <1>5 DEF Knows, Setup!InTransaction, Doing
<1>8. \A q \in Pods \ {p} : (Setup!InTransaction(q)' <=> Setup!InTransaction(q))
                            /\ \A k \in 0 .. n : Knows(q, k) => Knows(q, k)'
  BY <1>5 DEF Knows, Setup!InTransaction
<1>9. n \in 0 .. n
  BY MigrationsAre
<1>10. ThereAre(n)'
  BY <1>1, <1>2, <1>5, <1>7, <1>8, <1>9 DEF ThereAre
<1>11. QED
  BY <1>2, <1>6, <1>7, <1>8, <1>10 DEF MigInv

LEMMA MigBegin ==
  ASSUME MigInv, NEW p \in Pods, Setup!Begin(p)
  PROVE  MigInv'
<1>1. PICK n \in 0 .. Last : ThereAre(n)
  BY DEF MigInv
<1>2. PICK k \in 0 .. n : Knows(p, k)
  BY <1>1 DEF ThereAre
<1>3. pod \in [Pods -> States] /\ UNCHANGED <<objects, records, applied>>
  BY DEF MigInv, Setup!Begin
<1>4. k \in 0 .. Last
  BY MigrationsAre
<1>5. Setup!Todo(p) = k + 1 .. Last
  <2>1. \A i \in 1 .. Last : Setup!Migrations[i] \in Setup!First(k) <=> i <= k
    BY <1>4, MigrationsAre DEF Setup!First
  <2>2. Setup!Todo(p) = {i \in 1 .. Last : ~ (i <= k)}
    BY <1>2, <2>1, MigrationsAre DEF Setup!Todo, Knows
  <2>3. QED
    BY <1>4, <2>2, MigrationsAre
<1> DEFINE r == IF Setup!Todo(p) = {} THEN [at |-> "ready"]
                ELSE [at |-> "define", migration |-> Setup!Migrations[Setup!Min(Setup!Todo(p))]]
<1>6. pod' = [pod EXCEPT ![p] = r]
  BY DEF Setup!Begin
<1>7. \/ k = Last /\ r = [at |-> "ready"]
      \/ k < Last /\ r = [at |-> "define", migration |-> Setup!Migrations[k + 1]]
  <2>1. CASE k = Last
    BY <1>5, <2>1, MigrationsAre
  <2>2. CASE k < Last
    <3>1. Setup!Todo(p) # {} /\ k + 1 \in Setup!Todo(p) /\ \A i \in Setup!Todo(p) : k + 1 <= i
      <4>1. Last \in Nat
        BY MigrationsAre
      <4>2. k + 1 \in k + 1 .. Last
        BY <1>4, <2>2, <4>1
      <4>3. QED
        BY <1>4, <1>5, <4>2
    <3>2. Setup!Min(Setup!Todo(p)) = k + 1
      <4>1. \A i \in Setup!Todo(p) : i \in Int
        BY <1>5
      <4>2. \A x \in Setup!Todo(p) : (\A y \in Setup!Todo(p) : x <= y) => x = k + 1
        BY <3>1, <4>1
      <4>3. QED
        BY <3>1, <4>2 DEF Setup!Min
    <3>3. QED
      BY <2>2, <3>1, <3>2
  <2>3. QED
    BY <1>4, <2>1, <2>2, MigrationsAre
<1>8. r \in States
  BY <1>4, <1>7, MigrationsAre DEF States, Doing
<1> HIDE DEF r
<1>9. pod' \in [Pods -> States] /\ pod'[p] = r /\ \A q \in Pods \ {p} : pod'[q] = pod[q]
  BY <1>3, <1>6, <1>8
<1>10. Knows(p, k)' /\ ~ Setup!InTransaction(p)'
  BY <1>2, <1>3, <1>7, <1>9 DEF Knows, Setup!InTransaction, Doing
<1>11. \A q \in Pods \ {p} : (Setup!InTransaction(q)' <=> Setup!InTransaction(q))
                             /\ \A j \in 0 .. n : Knows(q, j) => Knows(q, j)'
  BY <1>3, <1>9 DEF Knows, Setup!InTransaction
<1>12. ThereAre(n)'
  BY <1>1, <1>3, <1>9, <1>10, <1>11 DEF ThereAre
<1>13. QED
  BY <1>3, <1>9, <1>10, <1>11, <1>12 DEF MigInv

LEMMA MigDefine ==
  ASSUME MigInv, NEW p \in Pods, Setup!Define(p)
  PROVE  MigInv'
<1> DEFINE m == pod[p].migration
           found == m \in objects \/ ~ (Setup!Needs(m) \subseteq objects)
<1>1. PICK n \in 0 .. Last : ThereAre(n)
  BY DEF MigInv
<1>2. PICK k \in 0 .. n : Knows(p, k)
  BY <1>1 DEF ThereAre
<1>3. pod \in [Pods -> States] /\ UNCHANGED <<objects, records, applied>> /\ pod[p].at = "define"
  BY DEF MigInv, Setup!Define
<1>4. pod' = [pod EXCEPT ![p] = IF found THEN Setup!Down ELSE [pod[p] EXCEPT !.at = "record"]]
      /\ \A q \in Pods : Setup!InTransaction(q) => pod[q].migration # m
  BY DEF Setup!Define
<1>5. k \in 0 .. Last - 1 /\ m = Setup!Migrations[k + 1]
  BY <1>2, <1>3, MigrationsAre DEF Knows, Doing
<1>6. CASE found
  <2>1. pod' = [pod EXCEPT ![p] = [at |-> "down"]]
    BY <1>4, <1>6 DEF Setup!Down
  <2>2. QED
    BY <1>3, <2>1, PodGoesTo DEF Setup!Go
<1>7. CASE ~ found
  <2>1. k = n /\ n < Last
    BY <1>1, <1>5, <1>7, MigrationsAre, InitialParts DEF ThereAre
  <2>2. \A q \in Pods : ~ Setup!InTransaction(q)
    BY <1>1, <1>4, <1>5, <2>1 DEF ThereAre
  <2> DEFINE r == [pod[p] EXCEPT !.at = "record"]
  <2>3. r \in States /\ r.at = "record" /\ r.migration = m
    BY <1>3 DEF States, Doing
  <2>4. pod' = [pod EXCEPT ![p] = r]
    BY <1>4, <1>7
  <2> HIDE DEF r, m, found
  <2>5. pod' \in [Pods -> States] /\ pod'[p] = r /\ \A q \in Pods \ {p} : pod'[q] = pod[q]
    BY <1>3, <2>3, <2>4
  <2>6. Knows(p, k)' /\ pod'[p].migration = Setup!Migrations[n + 1]
    BY <1>2, <1>3, <1>5, <2>1, <2>3, <2>5 DEF Knows, Doing
  <2>7. \A q \in Pods \ {p} : ~ Setup!InTransaction(q)' /\ \A j \in 0 .. n : Knows(q, j) => Knows(q, j)'
    BY <1>3, <2>2, <2>5 DEF Knows, Setup!InTransaction
  <2>8. ThereAre(n)'
    BY <1>1, <1>3, <2>1, <2>5, <2>6, <2>7 DEF ThereAre
  <2>9. QED
    BY <1>3, <2>5, <2>7, <2>8 DEF MigInv
<1>8. QED
  BY <1>6, <1>7

LEMMA MigRecord ==
  ASSUME MigInv, NEW p \in Pods, Setup!Record(p)
  PROVE  MigInv'
<1>1. PICK n \in 0 .. Last : ThereAre(n)
  BY DEF MigInv
<1>2. /\ pod \in [Pods -> States] /\ UNCHANGED <<objects, records, applied>> /\ pod[p].at = "record"
      /\ pod' = [pod EXCEPT ![p].at = "commit"]
  BY DEF MigInv, Setup!Record
<1> DEFINE r == [pod[p] EXCEPT !.at = "commit"]
<1>3. r \in States /\ r.at = "commit" /\ r.migration = pod[p].migration
  BY <1>2 DEF States, Doing
<1>4. pod' = [pod EXCEPT ![p] = r]
  BY <1>2
<1> HIDE DEF r
<1>5. pod' \in [Pods -> States] /\ pod'[p] = r /\ \A q \in Pods \ {p} : pod'[q] = pod[q]
  BY <1>2, <1>3, <1>4
<1>6. \A q \in Pods : (Setup!InTransaction(q)' <=> Setup!InTransaction(q))
                      /\ (Setup!InTransaction(q) => pod'[q].migration = pod[q].migration)
                      /\ \A j \in 0 .. n : Knows(q, j) => Knows(q, j)'
  BY <1>2, <1>3, <1>5 DEF Knows, Setup!InTransaction, Doing
<1>7. ThereAre(n)'
  BY <1>1, <1>2, <1>6 DEF ThereAre
<1>8. QED
  BY <1>2, <1>5, <1>6, <1>7 DEF MigInv

LEMMA MigCommit ==
  ASSUME MigInv, NEW p \in Pods, Setup!Commit(p)
  PROVE  MigInv'
<1> DEFINE m == pod[p].migration
<1>1. PICK n \in 0 .. Last : ThereAre(n)
  BY DEF MigInv
<1>2. PICK k \in 0 .. n : Knows(p, k)
  BY <1>1 DEF ThereAre
<1>3. /\ pod \in [Pods -> States] /\ applied \in [Pods -> SUBSET Setup!Names] /\ pod[p].at = "commit"
      /\ objects' = objects \union {m} /\ records' = records \union {m} /\ records = objects
      /\ applied' = [applied EXCEPT ![p] = @ \union {m}]
      /\ pod' = [pod EXCEPT ![p] = [at |-> "next"]]
  BY DEF MigInv, Setup!Commit, Setup!Go
<1>4. k \in 0 .. Last /\ n \in 0 .. Last /\ n < Last /\ k < Last
      /\ m = Setup!Migrations[k + 1] /\ m = Setup!Migrations[n + 1]
  BY <1>1, <1>2, <1>3, MigrationsAre DEF Knows, ThereAre, Setup!InTransaction, Doing
<1>5. k = n
  <2>0. Last \in Nat
    BY MigrationsAre
  <2>1. k + 1 \in 1 .. Last /\ n + 1 \in 1 .. Last
    BY <1>4, <2>0
  <2>2. k + 1 = n + 1
    BY <1>4, <2>1, MigrationsAre
  <2>3. QED
    BY <1>4, <2>2
<1>6. n + 1 \in 0 .. Last /\ Setup!First(n) \union {m} = Setup!First(n + 1)
  BY <1>4, MigrationsAre, InitialParts
<1>7. Setup!First(n + 1) \subseteq Setup!Names
  <2>1. Last \in 0 .. Last /\ Setup!Names = Setup!First(Last)
    BY MigrationsAre DEF Setup!Names, Last
  <2>2. QED
    BY <1>6, <2>1, InitialParts
<1>8. objects' = Setup!First(n + 1) /\ objects' = records' /\ applied[p] = Setup!First(n)
  BY <1>1, <1>2, <1>3, <1>5, <1>6 DEF ThereAre, Knows
<1> HIDE DEF m
<1>9. applied'[p] = Setup!First(n + 1) /\ pod'[p] = [at |-> "next"]
      /\ \A q \in Pods \ {p} : applied'[q] = applied[q] /\ pod'[q] = pod[q]
  BY <1>3, <1>6, <1>8
<1>10. pod' \in [Pods -> States]
  BY <1>3 DEF States
<1>11. applied' \in [Pods -> SUBSET Setup!Names]
  BY <1>3, <1>7, <1>6, <1>8
<1>12. Knows(p, n + 1)' /\ ~ Setup!InTransaction(p)'
  BY <1>9 DEF Knows, Setup!InTransaction, Doing
<1>13. \A q \in Pods \ {p} : ~ Setup!InTransaction(q)' /\ \A j \in 0 .. n : Knows(q, j) => Knows(q, j)'
  BY <1>3, <1>9 DEF Knows, Setup!InTransaction, MigInv
<1>14. n + 1 \in 0 .. n + 1 /\ 0 .. n \subseteq 0 .. n + 1
  BY <1>4
<1>15. ThereAre(n + 1)'
  BY <1>1, <1>8, <1>12, <1>13, <1>14 DEF ThereAre
<1>16. QED
  BY <1>6, <1>8, <1>10, <1>11, <1>12, <1>13, <1>15 DEF MigInv

LEMMA MigStep ==
  ASSUME MigInv, [Setup!Next]_Setup!vars
  PROVE  MigInv'
<1>1. CASE UNCHANGED Setup!vars
  <2>1. UNCHANGED <<objects, records, pod, applied>>
    BY <1>1 DEF Setup!vars
  <2>2. pod' \in [Pods -> States] /\ \A p \in Pods : pod'[p] = pod[p]
    BY <2>1 DEF MigInv
  <2>3. QED
    BY <2>1, <2>2, PodGoes
<1>2. ASSUME NEW p \in Pods, Setup!Start(p) \/ Setup!Kill(p)
      PROVE  MigInv'
  BY <1>2, PodGoesTo DEF Setup!Start, Setup!Kill
<1>3. QED
  BY <1>1, <1>2, MigEnsure, MigRead, MigBegin, MigDefine, MigRecord, MigCommit DEF Setup!Next, Setup!Setup

(***************************************************************************)
(* However many pods start at once and wherever they are killed, what is    *)
(* there is recorded, and an initial part of the migrations; a pod that is  *)
(* ready has them all.  What the argument rests on: a transaction that is   *)
(* open makes the one migration that is next, so no two are open.           *)
(***************************************************************************)
THEOREM MigrationsInOrder == AllSpec => []InOrder
<1>1. Setup!Init => MigInv
  BY MigInit
<1>2. MigInv /\ [Setup!Next]_Setup!vars => MigInv'
  BY MigStep
<1>3. MigInv => Setup!InOrder
  <2> SUFFICES ASSUME MigInv
               PROVE  Setup!InOrder
    OBVIOUS
  <2>1. PICK n \in 0 .. Last : ThereAre(n)
    BY DEF MigInv
  <2>2. ASSUME NEW p \in Pods, pod[p].at = "ready"
        PROVE  objects = Setup!Names
    <3>1. PICK k \in 0 .. n : Knows(p, k)
      BY <2>1 DEF ThereAre
    <3>2. k = Last
      BY <2>2, <3>1 DEF Knows
    <3>3. n = Last
      BY <3>2, MigrationsAre
    <3>4. QED
      BY <2>1, <3>3 DEF ThereAre, Setup!Names, Last
  <2>3. QED
    BY <2>1, <2>2 DEF MigInv, ThereAre, Setup!InOrder, Setup!RecordedIsThere, Last
<1> DEFINE Moves == part = "setup"
<1>4. AllInit /\ Moves => Setup!Init
  BY DEF AllInit
<1>5. Moves /\ [AllNext]_allVars => [Setup!Next]_(Setup!vars) /\ Moves'
  BY DEF AllNext, allVars, setupVars, Setup!vars
<1>6. ~ Moves /\ [AllNext]_allVars => ~ Moves'
  BY DEF AllNext, allVars
<1>7. (~ Moves => InOrder) /\ (Setup!InOrder => InOrder)
  BY DEF InOrder
<1> HIDE DEF Moves
<1>8. QED
  BY <1>1, <1>2, <1>3, <1>4, <1>5, <1>6, <1>7, PTL DEF AllSpec

-----------------------------------------------------------------------------
(* Bulk statements. *)

\* A set of naturals has a least element: induction, as a fact about sets.
LEMMA LeastNatural ==
  ASSUME NEW T \in SUBSET Nat, T # {}
  PROVE  \E m \in T : \A n \in T : m <= n
<1> DEFINE Less == {e \in Nat \X Nat : e[1] < e[2]}
<1>1. IsWellFoundedOn(Less, Nat)
  BY NatLessThanWellFounded DEF OpToRel
<1>2. \A m, n \in T : n < m => <<n, m>> \in Less
  OBVIOUS
<1> HIDE DEF Less
<1>3. PICK m \in T : \A n \in T : ~ (<<n, m>> \in Less)
  BY <1>1, WFMin
<1>4. \A n \in T : ~ (n < m)
  BY <1>2, <1>3
<1>5. \A n \in T : n \in Nat
  OBVIOUS
<1>6. QED
  BY <1>4, <1>5

Issued == [at : {"write", "returned", "raised"}, order : Orders, todo : SUBSET Nat,
          held : SUBSET Keys, sets : BOOLEAN]

\* Of a call's keys each has a row, or is written, or is to be.
KeysCome(t) ==
    LET c == call[t]
    IN  /\ c.at = "write" =>
              /\ c.todo \subseteq DOMAIN c.order
              /\ Bulk!KeysOf(c) \subseteq written \union c.held \union {c.order[i] : i \in c.todo}
        /\ c.at = "returned" => Bulk!KeysOf(c) \subseteq written

BulkInv ==
    /\ call \in [Callers -> {Bulk!Free} \union Issued]
    /\ \A t \in Callers : KeysCome(t)

LEMMA BulkTurn ==
  ASSUME Bulk!BulkAssumption, BulkInv, NEW t \in Callers, Bulk!Writing(t)
  PROVE  /\ call[t] \in Issued /\ call[t].order \in Seq(Keys)
         /\ Bulk!Turn(t) \in call[t].todo /\ Bulk!Turn(t) \in DOMAIN call[t].order
         /\ \A i \in call[t].todo : i \in Nat /\ Bulk!Turn(t) <= i
<1> DEFINE T == call[t].todo
<1>1. call[t] \in Issued /\ call[t].at = "write" /\ T # {}
  BY DEF BulkInv, Bulk!Writing, Bulk!Free
<1>2. call[t].order \in Seq(Keys) /\ T \in SUBSET Nat /\ T \subseteq DOMAIN call[t].order
  BY <1>1 DEF Bulk!BulkAssumption, BulkInv, KeysCome, Issued
<1> HIDE DEF T
<1>3. \E m \in T : \A n \in T : m <= n
  BY <1>1, <1>2, LeastNatural
<1>4. Bulk!Min(T) \in T /\ \A n \in T : Bulk!Min(T) <= n
  BY <1>3 DEF Bulk!Min
<1>5. QED
  BY <1>1, <1>2, <1>4 DEF Bulk!Turn, T

\* A step that changes one call keeps the others.
LEMMA OneCall ==
  ASSUME BulkInv, NEW t \in Callers, NEW c \in Issued, call' = [call EXCEPT ![t] = c],
         written \subseteq written', KeysCome(t)'
  PROVE  BulkInv'
<1>1. call \in [Callers -> {Bulk!Free} \union Issued]
  BY DEF BulkInv
<1>2. call' \in [Callers -> {Bulk!Free} \union Issued] /\ \A u \in Callers \ {t} : call'[u] = call[u]
  BY <1>1
<1>3. \A u \in Callers \ {t} : KeysCome(u)'
  BY <1>2 DEF BulkInv, KeysCome
<1>4. QED
  BY <1>2, <1>3 DEF BulkInv

LEMMA BulkBegin ==
  ASSUME Bulk!BulkAssumption, BulkInv, NEW t \in Callers, Bulk!Begin(t)
  PROVE  BulkInv'
<1>1. PICK order \in Orders, sets \in BOOLEAN :
        call' = [call EXCEPT ![t] =
              [at |-> "write", order |-> order, held |-> {}, sets |-> sets,
               todo |-> {i \in DOMAIN order : sets \/ order[i] \notin written}]]
  BY DEF Bulk!Begin
<1> DEFINE c == [at |-> "write", order |-> order, held |-> {}, sets |-> sets,
                 todo |-> {i \in DOMAIN order : sets \/ order[i] \notin written}]
<1>2. order \in Seq(Keys) /\ written' = written
  BY DEF Bulk!BulkAssumption, Bulk!Begin
<1>3. DOMAIN order \subseteq Nat
  BY <1>2
<1>4. c \in Issued /\ c.at = "write" /\ c.order = order /\ c.held = {}
      /\ c.todo = {i \in DOMAIN order : sets \/ order[i] \notin written}
  BY <1>3 DEF Issued
<1>5. call' = [call EXCEPT ![t] = c]
  BY <1>1
<1> HIDE DEF c
<1>6. call'[t] = c
  BY <1>5 DEF BulkInv
<1>7. KeysCome(t)'
  BY <1>2, <1>4, <1>6 DEF KeysCome, Bulk!KeysOf
<1>8. QED
  BY <1>2, <1>4, <1>5, <1>7, OneCall

\* What writing a row leaves of a call.
LEMMA BulkWritten ==
  ASSUME Bulk!BulkAssumption, BulkInv, NEW t \in Callers, Bulk!Write(t)
  PROVE  \E c \in Issued :
           /\ call' = [call EXCEPT ![t] = c] /\ call'[t] = c
           /\ c.at = "write" /\ c.order = call[t].order /\ c.todo = call[t].todo \ {Bulk!Turn(t)}
           /\ c.held = IF Bulk!Upcoming(t) \in written /\ ~ call[t].sets THEN call[t].held
                       ELSE call[t].held \union {Bulk!Upcoming(t)}
<1> DEFINE h == IF Bulk!Upcoming(t) \in written /\ ~ call[t].sets THEN call[t].held
                ELSE call[t].held \union {Bulk!Upcoming(t)}
           s == call[t].todo \ {Bulk!Turn(t)}
           c == [call[t] EXCEPT !.todo = s, !.held = h]
<1>1. Bulk!Writing(t) /\ call[t].at = "write"
  BY DEF Bulk!Write, Bulk!Writing
<1>2. call[t] \in Issued /\ call[t].order \in Seq(Keys) /\ Bulk!Turn(t) \in DOMAIN call[t].order
  BY <1>1, BulkTurn
<1>3. Bulk!Upcoming(t) \in Keys
  BY <1>2 DEF Bulk!Upcoming
<1>4. h \in SUBSET Keys /\ s \in SUBSET Nat
  BY <1>2, <1>3 DEF Issued
<1>5. call' = [call EXCEPT ![t].todo = s, ![t].held = h]
  BY DEF Bulk!Write
<1> HIDE DEF h, s
<1>6. c \in Issued /\ c.at = "write" /\ c.order = call[t].order /\ c.todo = s /\ c.held = h
  BY <1>1, <1>2, <1>4 DEF Issued
<1>7. call' = [call EXCEPT ![t] = c] /\ call'[t] = c
  BY <1>2, <1>5 DEF BulkInv, Issued
<1> HIDE DEF c
<1>8. QED
  BY <1>6, <1>7 DEF h, s

LEMMA BulkWrite ==
  ASSUME Bulk!BulkAssumption, BulkInv, NEW t \in Callers, Bulk!Write(t)
  PROVE  BulkInv'
<1>1. PICK c \in Issued :
           /\ call' = [call EXCEPT ![t] = c] /\ call'[t] = c
           /\ c.at = "write" /\ c.order = call[t].order /\ c.todo = call[t].todo \ {Bulk!Turn(t)}
           /\ c.held = IF Bulk!Upcoming(t) \in written /\ ~ call[t].sets THEN call[t].held
                       ELSE call[t].held \union {Bulk!Upcoming(t)}
  BY BulkWritten
<1>2. written' = written /\ call[t].at = "write" /\ KeysCome(t) /\ Bulk!Upcoming(t) = call[t].order[Bulk!Turn(t)]
  BY DEF Bulk!Write, Bulk!Writing, BulkInv, Bulk!Upcoming
<1>3. KeysCome(t)'
  BY <1>1, <1>2 DEF KeysCome, Bulk!KeysOf
<1>4. QED
  BY <1>1, <1>2, <1>3, OneCall

LEMMA BulkEnds ==
  ASSUME Bulk!BulkAssumption, BulkInv, NEW t \in Callers, Bulk!Commit(t) \/ Bulk!Deadlock(t)
  PROVE  BulkInv'
<1>1. PICK a \in {"returned", "raised"} :
        /\ call' = [call EXCEPT ![t].at = a, ![t].held = {}]
        /\ written \subseteq written' /\ call[t].at = "write"
        /\ a = "returned" => call[t].todo = {} /\ written' = written \union call[t].held
  BY DEF Bulk!Commit, Bulk!Deadlock, Bulk!WaitsFor, Bulk!Writing
<1>2. call[t] \in Issued /\ KeysCome(t)
  BY <1>1 DEF BulkInv, Bulk!Free
<1> DEFINE c == [call[t] EXCEPT !.at = a, !.held = {}]
<1>3. c \in Issued /\ c.at = a /\ c.order = call[t].order
  BY <1>2 DEF Issued
<1>4. call' = [call EXCEPT ![t] = c] /\ call'[t] = c
  BY <1>1, <1>2 DEF BulkInv, Issued
<1> HIDE DEF c
<1>5. KeysCome(t)'
  <2>1. Bulk!KeysOf(call'[t]) = Bulk!KeysOf(call[t])
    BY <1>3, <1>4 DEF Bulk!KeysOf
  <2>2. call[t].todo = {} => {call[t].order[i] : i \in call[t].todo} = {}
    OBVIOUS
  <2>3. a = "returned" => Bulk!KeysOf(call'[t]) \subseteq written'
    BY <1>1, <1>2, <2>1, <2>2 DEF KeysCome
  <2>4. QED
    BY <1>3, <1>4, <2>3 DEF KeysCome
<1>6. QED
  BY <1>1, <1>3, <1>4, <1>5, OneCall

LEMMA BulkStep ==
  ASSUME Bulk!BulkAssumption, BulkInv, [Bulk!Next]_Bulk!vars
  PROVE  BulkInv'
<1>1. CASE UNCHANGED Bulk!vars
  BY <1>1 DEF Bulk!vars, BulkInv, KeysCome
<1>2. CASE Bulk!Next
  BY <1>2, BulkBegin, BulkWrite, BulkEnds DEF Bulk!Next
<1>3. QED
  BY <1>1, <1>2

LEMMA BulkInit ==
  ASSUME Bulk!Init
  PROVE  BulkInv
<1>1. call = [t \in Callers |-> Bulk!Free] /\ Bulk!Free.at = "free"
  BY DEF Bulk!Init, Bulk!Free
<1>2. QED
  BY <1>1 DEF BulkInv, KeysCome

LEMMA CallsStep == [AllNext]_allVars => [Bulk!Next]_(Bulk!vars)
BY DEF AllNext, allVars, callVars, Bulk!vars

\* A call that returned has a row for each of its keys, whoever wrote it, and in
\* whatever orders the calls come to them.
THEOREM ReturnedHasRows ==
  AllSpec => []ReturnedIsThere
<1>1. AllInit => BulkInv
  <2>1. NoCalls => BulkInv
    BY DEF NoCalls, BulkInv, KeysCome, Bulk!Free
  <2>2. QED
    BY <2>1, BulkInit DEF AllInit
<1>2. BulkInv /\ [AllNext]_allVars => BulkInv'
  BY CallsStep, BulkStep, SurveysAssumption
<1>3. BulkInv => ReturnedIsThere
  BY DEF BulkInv, KeysCome, ReturnedIsThere, Bulk!ReturnedIsThere
<1>4. QED
  BY <1>1, <1>2, <1>3, PTL DEF AllSpec

\* What a call holds stands in its list before what it has to write.
HoldsEarlier ==
    \A t \in Callers : call[t].at = "write" =>
        \A k \in call[t].held, i \in call[t].todo :
            \E h \in DOMAIN call[t].order : h < i /\ call[t].order[h] = k

LEMMA HoldsStep ==
  ASSUME Bulk!BulkAssumption, BulkInv, HoldsEarlier, [Bulk!Next]_Bulk!vars
  PROVE  HoldsEarlier'
<1>1. call \in [Callers -> {Bulk!Free} \union Issued]
  BY DEF BulkInv
<1>2. CASE UNCHANGED Bulk!vars
  BY <1>2 DEF Bulk!vars, HoldsEarlier
<1>3. ASSUME NEW t \in Callers, Bulk!Begin(t)
      PROVE  HoldsEarlier'
  <2>1. PICK order \in Orders, sets \in BOOLEAN :
          call' = [call EXCEPT ![t] =
              [at |-> "write", order |-> order, held |-> {}, sets |-> sets,
               todo |-> {i \in DOMAIN order : sets \/ order[i] \notin written}]]
    BY <1>3 DEF Bulk!Begin
  <2> DEFINE c == [at |-> "write", order |-> order, held |-> {}, sets |-> sets,
                   todo |-> {i \in DOMAIN order : sets \/ order[i] \notin written}]
  <2>2. call' = [call EXCEPT ![t] = c] /\ c.held = {}
    BY <2>1
  <2> HIDE DEF c
  <2>3. call'[t] = c /\ \A u \in Callers \ {t} : call'[u] = call[u]
    BY <1>1, <2>2
  <2>4. QED
    BY <2>2, <2>3 DEF HoldsEarlier
<1>4. ASSUME NEW t \in Callers, Bulk!Write(t)
      PROVE  HoldsEarlier'
  <2>1. PICK c \in Issued :
           /\ call' = [call EXCEPT ![t] = c] /\ call'[t] = c
           /\ c.at = "write" /\ c.order = call[t].order /\ c.todo = call[t].todo \ {Bulk!Turn(t)}
           /\ c.held = IF Bulk!Upcoming(t) \in written /\ ~ call[t].sets THEN call[t].held
                       ELSE call[t].held \union {Bulk!Upcoming(t)}
    BY <1>4, BulkWritten
  <2>2. Bulk!Writing(t) /\ call[t].at = "write"
    BY <1>4 DEF Bulk!Write, Bulk!Writing
  <2>3. /\ Bulk!Turn(t) \in DOMAIN call[t].order /\ Bulk!Turn(t) \in Nat
        /\ \A i \in call[t].todo : i \in Nat /\ Bulk!Turn(t) <= i
    BY <2>2, BulkTurn
  <2>4. \A i \in c.todo : Bulk!Turn(t) < i
    BY <2>1, <2>3
  <2>5. \A k \in c.held : k \in call[t].held \/ k = call[t].order[Bulk!Turn(t)]
    BY <2>1 DEF Bulk!Upcoming
  <2>6. \A k \in c.held, i \in c.todo : \E h \in DOMAIN c.order : h < i /\ c.order[h] = k
    BY <2>1, <2>2, <2>3, <2>4, <2>5 DEF HoldsEarlier
  <2>7. \A u \in Callers \ {t} : call'[u] = call[u]
    BY <1>1, <2>1
  <2>8. QED
    BY <2>1, <2>6, <2>7 DEF HoldsEarlier
<1>5. ASSUME NEW t \in Callers, Bulk!Commit(t) \/ Bulk!Deadlock(t)
      PROVE  HoldsEarlier'
  <2>1. PICK a \in {"returned", "raised"} :
          call' = [call EXCEPT ![t].at = a, ![t].held = {}] /\ call[t].at = "write"
    BY <1>5 DEF Bulk!Commit, Bulk!Deadlock, Bulk!WaitsFor, Bulk!Writing
  <2>2. call[t] \in Issued
    BY <1>1, <2>1 DEF Bulk!Free
  <2>3. call'[t].at = a /\ \A u \in Callers \ {t} : call'[u] = call[u]
    BY <1>1, <2>1, <2>2 DEF Issued
  <2>4. call'[t].at # "write"
    BY <2>3
  <2>5. ASSUME NEW u \in Callers, call'[u].at = "write"
        PROVE  call'[u] = call[u]
    BY <2>3, <2>4, <2>5
  <2>6. QED
    BY <2>5 DEF HoldsEarlier
<1>6. QED
  BY <1>2, <1>3, <1>4, <1>5 DEF Bulk!Next

\* The keys that the calls of a circle come to next cross: each is held by a call of it,
\* which comes to another.
LEMMA CircleCrosses ==
  ASSUME Bulk!BulkAssumption, BulkInv, HoldsEarlier, NEW t \in Callers, Bulk!Deadlock(t)
  PROVE  Bulk!Crossed(t)
<1>1. PICK S \in SUBSET Callers :
        /\ t \in S
        /\ \A u \in S : (\E v \in S : Bulk!WaitsFor(u, v)) /\ (\E v \in S : Bulk!WaitsFor(v, u))
  BY DEF Bulk!Deadlock
<1> DEFINE C == {Bulk!Upcoming(u) : u \in S}
<1>2. \A u \in S : Bulk!Writing(u) /\ call[u].at = "write"
  BY <1>1 DEF Bulk!WaitsFor, Bulk!Writing
<1>3. C \in SUBSET Keys
  <2>1. \A u \in S : Bulk!Upcoming(u) \in Keys
    BY <1>2, BulkTurn DEF Bulk!Upcoming
  <2>2. QED
    BY <2>1
<1>4. ASSUME NEW u \in S, NEW v \in S, Bulk!WaitsFor(u, v)
      PROVE  Bulk!Precedes(v, Bulk!Upcoming(u), Bulk!Upcoming(v))
  <2>1. Bulk!Upcoming(u) \in call[v].held /\ call[v].at = "write"
    BY <1>2, <1>4 DEF Bulk!WaitsFor, Bulk!HeldBy
  <2>2. Bulk!Turn(v) \in call[v].todo /\ Bulk!Turn(v) \in DOMAIN call[v].order
    BY <1>2, BulkTurn
  <2>3. PICK h \in DOMAIN call[v].order : h < Bulk!Turn(v) /\ call[v].order[h] = Bulk!Upcoming(u)
    BY <2>1, <2>2 DEF HoldsEarlier
  <2>4. QED
    BY <2>1, <2>2, <2>3 DEF Bulk!Precedes, Bulk!Upcoming
<1>5. \E x, y \in C : Bulk!Precedes(t, x, y)
  <2>1. PICK v \in S : Bulk!WaitsFor(v, t)
    BY <1>1
  <2>2. QED
    BY <1>1, <1>4, <2>1
<1>6. \A x \in C : \E y \in C, u \in Callers : Bulk!Precedes(u, x, y)
  BY <1>1, <1>4
<1> HIDE DEF C
<1>7. QED
  BY <1>3, <1>5, <1>6 DEF Bulk!Crossed

(***************************************************************************)
(* Among any number of calls, with any lists of keys, one raises only if    *)
(* its list and others that are being written cross.  Calls that come to    *)
(* the keys they share in one order never fail each other, and neither do   *)
(* calls for one key each.                                                  *)
(***************************************************************************)
THEOREM RaisingCallsCross == AllSpec => RaisesOnlyCrossed
<1> DEFINE Inv == BulkInv /\ HoldsEarlier
           Raises == \A t \in Callers :
                         call[t].at = "write" /\ call'[t].at = "raised" => Bulk!Crossed(t)
<1>1. AllInit => Inv
  <2>1. NoCalls => BulkInv /\ HoldsEarlier
    BY DEF NoCalls, BulkInv, KeysCome, HoldsEarlier, Bulk!Free
  <2>2. Bulk!Init => HoldsEarlier
    BY DEF Bulk!Init, Bulk!Free, HoldsEarlier
  <2>3. QED
    BY <2>1, <2>2, BulkInit DEF AllInit
<1>2. Inv /\ [AllNext]_allVars => Inv'
  BY CallsStep, BulkStep, HoldsStep, SurveysAssumption
<1>3. Inv /\ [AllNext]_allVars => [Raises]_(Bulk!vars)
  <2> SUFFICES ASSUME Inv, Bulk!Next, NEW t \in Callers, call[t].at = "write", call'[t].at = "raised"
               PROVE  Bulk!Crossed(t)
    BY CallsStep
  <2>1. call \in [Callers -> {Bulk!Free} \union Issued]
    BY DEF BulkInv
  <2>2. ASSUME NEW u \in Callers, NEW c, call' = [call EXCEPT ![u] = c], c.at # "raised" PROVE FALSE
    BY <2>1, <2>2
  <2>3. ASSUME NEW u \in Callers, Bulk!Begin(u) PROVE FALSE
    <3>1. PICK order \in Orders, sets \in BOOLEAN :
            call' = [call EXCEPT ![u] =
                [at |-> "write", order |-> order, held |-> {}, sets |-> sets,
                 todo |-> {i \in DOMAIN order : sets \/ order[i] \notin written}]]
      BY <2>3 DEF Bulk!Begin
    <3>2. QED
      BY <2>2, <3>1
  <2>4. ASSUME NEW u \in Callers, Bulk!Write(u) PROVE FALSE
    BY <2>2, <2>4, BulkWritten, SurveysAssumption
  <2>5. ASSUME NEW u \in Callers, Bulk!Commit(u) PROVE FALSE
    <3>1. call' = [call EXCEPT ![u].at = "returned", ![u].held = {}] /\ call[u].at = "write"
      BY <2>5 DEF Bulk!Commit
    <3>2. call[u] \in Issued
      BY <2>1, <3>1 DEF Bulk!Free
    <3>3. call'[u].at = "returned" /\ \A v \in Callers \ {u} : call'[v] = call[v]
      BY <2>1, <3>1, <3>2 DEF Issued
    <3>4. QED
      BY <3>3
  <2>6. ASSUME NEW u \in Callers, Bulk!Deadlock(u) PROVE Bulk!Crossed(t)
    <3>1. u = t
      <4>1. call' = [call EXCEPT ![u].at = "raised", ![u].held = {}]
        BY <2>6 DEF Bulk!Deadlock
      <4>2. \A v \in Callers \ {u} : call'[v] = call[v]
        BY <2>1, <4>1
      <4>3. QED
        BY <4>2
    <3>2. QED
      BY <2>6, <3>1, CircleCrosses, SurveysAssumption
  <2>7. QED
    BY <2>3, <2>4, <2>5, <2>6 DEF Bulk!Next
<1> HIDE DEF Inv
<1>4. QED
  BY <1>1, <1>2, <1>3, PTL DEF AllSpec, RaisesOnlyCrossed, Bulk!RaisesOnlyCrossed
=============================================================================
