----------------------------- MODULE SurveyParts -----------------------------
(***************************************************************************)
(* The host survey and what is written by several at once, as parts of one  *)
(* specification.  The first state chooses the part that moves:             *)
(*   resume    runs of the survey, one after the other                      *)
(*   ends      one run                                                      *)
(*   setup     pods that apply the migrations as they start                 *)
(*   calls     statements of several tasks that write rows of many actors,  *)
(*             as pages that list the same actors in different orders       *)
(***************************************************************************)
EXTENDS HostSurvey

CONSTANTS
    Resumed,            \* hosts of the runs one after the other
    Pods, MaxKills,
    Callers, Keys, MaxCalls,
    Orders              \* as the pages of several collections list the keys

VARIABLES part,
          exists, objects, records, pod, applied, kills,
          written, call, calls

setupVars == <<exists, objects, records, pod, applied, kills>>
callVars == <<written, call, calls>>
allVars == <<part, vars, setupVars, callVars>>

Setup == INSTANCE Migrations
Bulk == INSTANCE BulkWrites WITH Tasks <- Callers, rows <- written

ASSUME SurveysAssumption ==
    /\ SurveyAssumption /\ Setup!MigrationsAssumption /\ Bulk!BulkAssumption

\* What the parts that do not move are at: nothing of theirs is enabled that fairness
\* would ask for.
NoSurvey == Init /\ labels = {}
NoSetup ==
    /\ exists = TRUE /\ objects = {} /\ records = {} /\ kills = 0
    /\ pod = [p \in Pods |-> [at |-> "ready"]] /\ applied = <<>>
NoCalls == written = {} /\ calls = 0 /\ call = [t \in Callers |-> Bulk!Free]

AllInit ==
    \/ part = "resume" /\ Init /\ labels \subseteq Resumed /\ NoSetup /\ NoCalls
    \/ part = "ends" /\ Init /\ NoSetup /\ NoCalls
    \/ part = "setup" /\ Setup!Init /\ NoSurvey /\ NoCalls
    \/ part = "calls" /\ Bulk!Init /\ NoSurvey /\ NoSetup

SurveyNext ==
    /\ Next
    /\ part = "resume" => labels' \subseteq Resumed
    /\ part = "ends" => \A r \in RunIds \ {1} : phase'[r] = "new"

AllNext ==
    /\ UNCHANGED part
    /\ \/ part \in {"resume", "ends"} /\ SurveyNext /\ UNCHANGED <<setupVars, callVars>>
       \/ part = "setup" /\ Setup!Next /\ UNCHANGED <<vars, callVars>>
       \/ part = "calls" /\ Bulk!Next /\ UNCHANGED <<vars, setupVars>>

AllSpec == AllInit /\ [][AllNext]_allVars /\ Fairness /\ Setup!Fairness

-----------------------------------------------------------------------------
\* The migrations are applied and recorded in order, and a pod that is ready has all of them.
InOrder == part = "setup" => Setup!InOrder

\* Every pod comes to be ready, though those that start together fail each other.
AllReady == Setup!AllReady

\* A call that returned has a row for each of its keys, whoever wrote it.
ReturnedIsThere == Bulk!ReturnedIsThere

\* A call raises only if its list of keys crosses those of other calls.
RaisesOnlyCrossed == Bulk!RaisesOnlyCrossed
=============================================================================
