----------------------------- MODULE ScriptParts -----------------------------
(***************************************************************************)
(* The scripts that write to the Redis structures, as parts of one          *)
(* specification.  The first state chooses the part that moves, of Parts:   *)
(*   killed      recover_failed that is killed and run again                *)
(*   beside      recover_failed beside a crawler, whose jobs do not fail     *)
(*               between enqueue and unfail                                  *)
(*   race        the same, where they may                                   *)
(*   restart     recover_http_status beside a crawler                       *)
(*   seeding     add_seeds.py and main.py, beside a worker of another pod   *)
(*   rewriting   the fix-ups that rewrite the members of a structure        *)
(*   rebuilding  fixup_seen.py                                              *)
(***************************************************************************)
EXTENDS Recovery

CONSTANTS
    Parts,
    FailedJobs, StatusJobs,                    \* that recovery is about
    Seeds, SeedIds, SeedId, SeedRank,          \* the store of the seeding scripts
    Seeders, Composite, File, Crawlers, Home, NoScript,
    FixupJobs, Nameless, Kinds,                \* the members the fix-ups rewrite
    SeenIds, NoId, MaxRepeats,
    BatchSize, MaxScriptKills, MaxLapses

VARIABLES part,
          reading, drawn, reaper, written, turns, ranOut, again, cut,
          step, left, batch, original,
          fixup, members, executed,
          elsewhere, results, skipped, repeats

seedingVars == <<reading, drawn, reaper, written, turns, ranOut, again, cut>>
fixupVars == <<step, left, batch, original>>
rewritingVars == <<fixup, members, executed>>
rebuildingVars == <<elsewhere, results, skipped, repeats>>
otherVars == <<seedingVars, fixupVars, rewritingVars, rebuildingVars>>
recoveryOnly == <<inflight, failed, graph, hand, script, history, runs, fails>>
allVars == <<part, vars, otherVars>>

Overlap == INSTANCE Seeding WITH
    Jobs <- Seeds, Ids <- SeedIds, JobId <- SeedId, Rank <- SeedRank,
    Scripts <- Seeders, Workers <- Crawlers, MaxKills <- MaxScriptKills,
    script <- reading, hand <- drawn

Rewriting == INSTANCE QueueFixup WITH
    Jobs <- FixupJobs, MaxKills <- MaxScriptKills, at <- step, kind <- fixup

Rebuilding == INSTANCE SeenFixup WITH
    Ids <- SeenIds, MaxKills <- MaxScriptKills, at <- step

ASSUME ScriptsAssumption ==
    /\ RecoveryAssumption /\ Overlap!SeedingAssumption
    /\ SeedId \in [Seeds -> SeedIds] /\ SeedRank \in [Seeds -> Nat]
    /\ Rewriting!FixupAssumption /\ Rebuilding!SeenFixupAssumption

Recovering == part \in {"killed", "beside", "race", "restart"}

\* The script and the jobs of a part.  recover_http_status does not read the failed set.
KindOf == IF part = "restart" THEN "status" ELSE "failed"
JobsOf == IF part = "restart" THEN StatusJobs ELSE FailedJobs

RecoveryInit ==
    /\ Recovering /\ Init
    /\ QueuedJobs \union failed \union bad \subseteq JobsOf
    /\ part = "restart" => failed = {} /\ hosted = stamped

\* What the parts that do not move are at.
NoRecovery == /\ stamped = {} /\ hosted = {} /\ bad = {} /\ requeued = {} /\ pending = {}
              /\ hand = [w \in Workers |-> Nobody] /\ script = Off /\ runs = 0 /\ fails = 0
NoSeeding == /\ reading = <<>> /\ drawn = <<>> /\ reaper = <<>> /\ written = {} /\ cut = {}
             /\ turns = <<>> /\ ranOut = <<>> /\ again = <<>>
NoStore == inflight = <<>> /\ failed = {}
NoFixup == step = "off" /\ left = {} /\ batch = <<>> /\ original = {}
NoRewriting == fixup = "none" /\ members = {} /\ executed = 0
NoRebuilding == elsewhere = <<>> /\ results = <<>> /\ skipped = {} /\ repeats = 0

AllInit ==
    /\ part \in Parts
    /\ \/ RecoveryInit /\ NoSeeding /\ NoFixup /\ NoRewriting /\ NoRebuilding
       \/ /\ part = "seeding" /\ Overlap!Init
          /\ NoRecovery /\ NoFixup /\ NoRewriting /\ NoRebuilding
       \/ /\ part = "rewriting" /\ Rewriting!Init /\ queue = <<>> /\ seen = {}
          /\ NoStore /\ NoRecovery /\ NoSeeding /\ NoRebuilding
       \/ /\ part = "rebuilding" /\ Rebuilding!Init
          /\ NoStore /\ NoRecovery /\ NoSeeding /\ NoRewriting

\* Two runs and a kill where no crawler is at work, one run beside one.
RecoveryNext ==
    /\ Recovering /\ Next
    /\ script'.at # "off" => script'.kind = KindOf
    /\ IF part = "killed" THEN hand' = hand ELSE runs' <= 1 /\ kills' = 0
    /\ (part = "beside" /\ script.at \in {"mark", "unfail"}) \/ part = "restart" => fails' = fails

AllNext ==
    /\ UNCHANGED part
    /\ \/ RecoveryNext /\ UNCHANGED otherVars
       \/ /\ part = "seeding" /\ Overlap!Next
          /\ UNCHANGED <<graph, hand, script, history, runs, fails,
                         fixupVars, rewritingVars, rebuildingVars>>
       \/ /\ part = "rewriting" /\ Rewriting!Next
          /\ UNCHANGED <<queue, seen, recoveryOnly, seedingVars, rebuildingVars>>
       \/ /\ part = "rebuilding" /\ Rebuilding!Next
          /\ UNCHANGED <<recoveryOnly, seedingVars, rewritingVars>>

AllSpec == AllInit /\ [][AllNext]_allVars

-----------------------------------------------------------------------------
(***************************************************************************)
(* The properties of the modules that are instances here, each in the parts *)
(* it is about; those of Recovery are its own, and hold in all parts but    *)
(* "race".                                                                  *)
(***************************************************************************)

\* The scripts queue a seed once at most, though two of them have it in their files; it
\* is handed out again only if its lease ran out and a reaper queued it again.
SeedOnce == part = "seeding" => Overlap!SeedOnce

\* A seed of a file read to its end is queued, done, or in another script's hand.
SeedsReachTheCrawl == part = "seeding" => Overlap!SeedsReachTheCrawl

\* Every job is in the structure a fix-up rewrites, wherever that is killed, and once
\* where its batch is a transaction.
JobsAreThere == part = "rewriting" => Rewriting!JobsAreThere

\* A fix-up that comes to its end, after kills, has each job once in the new form.
AllRewritten == part = "rewriting" => Rewriting!AllRewritten

\* fixup_seen.py takes no id off the queue that is nowhere else.
FirstIsKept == part = "rebuilding" => Rebuilding!FirstIsKept

\* When fixup_seen.py is done the seen ids are those that are somewhere, each once.
SeenIsRebuilt == part = "rebuilding" => Rebuilding!SeenIsRebuilt
=============================================================================
