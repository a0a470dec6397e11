----------------------------- MODULE Benchmark -----------------------------
(***************************************************************************)
(* The production benchmark of cloud_offload/benchmark.py: a harness that  *)
(* submits paid jobs to a running coordinator, one scenario after another, *)
(* injects a fault into some, meters the machines the job's journal names, *)
(* removes them and puts the coordinator's storage setting back.           *)
(*                                                                         *)
(* The harness is one process; the coordinator, the provider and an        *)
(* operator move between any two of its calls, and every call may be       *)
(* refused, lose its answer, or be cut by the operator's interrupt.        *)
(* Providers have one offer each, of one unit of cost per unit of time.    *)
(* Only exclusive plans are modelled: the campaign starts with no managed  *)
(* machine.  A lease has one machine, so the branch that skips an event    *)
(* whose lease is known with another machine is never taken.               *)
(***************************************************************************)
EXTENDS Integers, SequencesExt, FiniteSetsExt

CONSTANTS Mentions,     \* what the events that name a machine say of it
          Campaigns,    \* the plans: scenarios, with the bounds to try them in
          ScenarioTime, ReadyTime, CampaignTime, QuietTime, CleanupTime,
          ScenarioCost, ReadyCost, TotalCost,
          CallTime,     \* the longest timeout of a call or a hook
          MaxScenarios, MaxMachines, MaxEntries   \* bounds of the campaigns

ASSUME MentionsAssumption == Mentions \subseteq [leased : BOOLEAN, rated : BOOLEAN]

FaultKinds == {"none", "cancellation", "provider", "storage", "restart", "corruption"}

Ended == {"completed", "failed"}

\* What a scenario asks for: its label, whether it sets the storage policy, the
\* fault it injects and the status it expects.
Kinds == [cache : {"cold", "hot", "failure"}, policy : BOOLEAN, fault : FaultKinds,
          expects : Ended]

\* The bounds of a campaign: the machines created for it, the events of each of
\* its jobs that name one, how long a call without a deadline lasts at most, the
\* setting it finds, perhaps the very one it wants, and whether the operator
\* changes it meanwhile.
ASSUME CampaignsAssumption ==
    /\ {CallTime, MaxScenarios, MaxMachines, MaxEntries} \subseteq Nat
    /\ \A c \in Campaigns :
        /\ c \in [scenarios : Seq(Kinds), machines : 0..MaxMachines, entries : 0..MaxEntries,
                  calls : 0..CallTime, setting : {"first", "bench"}, edits : BOOLEAN]
        /\ Len(c.scenarios) <= MaxScenarios

ASSUME LimitsAssumption ==
    /\ {ScenarioTime, ReadyTime, CampaignTime, CleanupTime} \subseteq Nat \ {0}
    /\ {ScenarioCost, ReadyCost, TotalCost} \subseteq Nat \ {0}
    /\ QuietTime \in Nat

VARIABLES campaign,  \* the campaign run
          config,    \* the coordinator's prepared_storage object
          chosen,    \* history: the settings the operator chose
          job,       \* the job of each scenario
          served,    \* the machines of each job, the one its row names last
          up,        \* machines the provider lists
          rent,      \* history: the time each machine has been paid for
          journal,   \* the events of each job that name a machine
          now,
          h,         \* the harness
          results,   \* what it recorded of each scenario
          score      \* the scorecard

worldVars == <<campaign, config, chosen, job, served, up, rent, journal, now>>

benchVars == <<worldVars, h, results, score>>

Settings == {"first", "user", "bench", "fault"}

ScenarioNo == 1..MaxScenarios

plan == campaign.scenarios

\* Instance ids, in the order the provider gives them out.
Machines == 1..MaxMachines

Entry == [machine : Machines, leased : BOOLEAN, rated : BOOLEAN]

Least(a, b) == IF a < b THEN a ELSE b

Greatest(a, b) == IF a < b THEN b ELSE a

\* The rate charged for a running machine whose rate nobody knows.
Ceiling == Least(ScenarioCost, ReadyCost)

-----------------------------------------------------------------------------
(* The harness *)

Pc == {"start", "next", "quiet", "begin", "prepare", "apply", "confirm", "arm",
       "submit", "poll", "events", "meter", "look", "inject", "pause", "cancel", "interrupted",
       "faultSet", "faultWait", "faultRead", "faultUndo", "faultCheck",
       "tidy", "stop", "recheck", "prove", "restore", "putback", "verify",
       "result", "score", "ended", "raised"}

Harness == [pc       : Pc,
            n        : 0..MaxScenarios,    \* the current scenario
            spent    : Nat,                        \* estimated_total
            abort    : BOOLEAN,                    \* campaign_abort is set
            blind    : BOOLEAN,                    \* baseline_error
            base     : BOOLEAN,                    \* base_manifest_ready
            started  : Nat,
            at       : Nat,                        \* `now` of this round
            until    : Nat,                        \* a deadline being waited for
            ready    : BOOLEAN,                    \* comfyui_readiness confirmed
            known    : BOOLEAN,                    \* job_id is known
            status   : {"none", "live", "completed", "failed"},
            cursor   : 0..MaxEntries,
            handled  : 0..MaxEntries,              \* the events the loop is done with
            held     : SUBSET Machines,            \* resources
            unproved : SUBSET Machines,            \* unverified_resources
            rate     : [Machines -> 0..Ceiling],
            seen     : [Machines -> Nat],          \* first_seen
            offer    : 0..1,                       \* last_rate
            limit    : BOOLEAN,                    \* limit_triggered
            error    : BOOLEAN,                    \* harness_error
            stopped  : BOOLEAN,                    \* abort_reason
            injected : {"no", "done", "failed"},   \* failure_result
            hook     : {"none", "ran", "failed", "raised"},  \* the prepare stage
            tidied   : {"no", "done", "failed"},   \* the cleanup stage
            prepared : BOOLEAN,
            previous : Settings \cup {"unsaved"},  \* _prepared_storage_restore
            original : Settings,                   \* the storage canary's copy
            whole    : BOOLEAN,                    \* the final cleanup
            todo     : SUBSET Machines,            \* receipts
            absent   : SUBSET Machines,
            audit    : BOOLEAN,                    \* inventory_error
            restored : BOOLEAN]

\* A scenario starts with these local variables; those of the campaign stay.
Forgetting(r) ==
    [pc |-> r.pc, n |-> r.n, spent |-> r.spent, abort |-> r.abort, blind |-> r.blind,
     base |-> r.base, until |-> r.until, whole |-> r.whole,
     started |-> 0, at |-> 0, ready |-> FALSE, known |-> FALSE, status |-> "none",
     cursor |-> 0, handled |-> 0, held |-> {}, unproved |-> {},
     rate |-> [m \in Machines |-> 0], seen |-> [m \in Machines |-> 0], offer |-> 0,
     limit |-> FALSE, error |-> FALSE, stopped |-> FALSE, injected |-> "no",
     hook |-> "none", tidied |-> "no", prepared |-> FALSE, previous |-> "unsaved",
     original |-> "first", todo |-> {}, absent |-> {}, audit |-> FALSE, restored |-> FALSE]

NoScore == [passed |-> FALSE, proof |-> "none", orphans |-> {}, cost |-> 0]

BenchInit ==
    /\ campaign \in Campaigns
    /\ config = campaign.setting
    /\ chosen = {config}
    /\ job = [n \in ScenarioNo |-> "none"]
    /\ served = [n \in ScenarioNo |-> <<>>]
    /\ up = {} /\ rent = [m \in Machines |-> 0]
    /\ journal = [n \in ScenarioNo |-> <<>>]
    /\ now = 0
    /\ h = Forgetting([pc |-> "start", n |-> 0, spent |-> 0, abort |-> FALSE, blind |-> FALSE,
                       base |-> FALSE, until |-> 0, whole |-> FALSE])
    /\ results = <<>> /\ score = NoScore

Scenario == plan[h.n]

-----------------------------------------------------------------------------
(* Coordinator, provider and operator *)

FaultSteps == {"faultSet", "faultWait", "faultRead", "faultUndo", "faultCheck"}

\* The harness is in the loop of a scenario.
Rounds == {"poll", "events", "meter", "look", "inject", "pause", "cancel"}

InWorld == h.pc \notin {"ended", "raised"} /\ UNCHANGED <<campaign, now, rent, h, results, score>>

\* The dispatcher serves a job by one machine at a time; a create request in
\* flight when the job ends is still answered.  Machines and events that come when
\* the harness reads no more are left out: nothing in it depends on them.
MachineCreated(n) ==
    LET m == 1 + Cardinality(UNION {Range(served[k]) : k \in ScenarioNo})
    IN  /\ InWorld /\ h.pc \in Rounds /\ n = h.n /\ job[n] # "none"
        /\ up \cap Range(served[n]) = {} /\ m <= campaign.machines
        /\ served' = [served EXCEPT ![n] = Append(@, m)] /\ up' = up \cup {m}
        /\ UNCHANGED <<config, chosen, job, journal>>

\* Idle, preempted, or closed by the coordinator.
MachineGone(m) ==
    /\ InWorld /\ m \in up /\ up' = up \ {m}
    /\ UNCHANGED <<config, chosen, job, served, journal>>

\* An event of the job names a machine, with or without its lease and rate.
EventJournaled(m, says) ==
    LET e == [machine |-> m, leased |-> says.leased, rated |-> says.rated]
    IN  /\ InWorld /\ h.pc \in Rounds /\ Len(journal[h.n]) < campaign.entries
        /\ m \in Range(served[h.n]) /\ e \notin Range(journal[h.n])
        /\ journal' = [journal EXCEPT ![h.n] = Append(@, e)]
        /\ UNCHANGED <<config, chosen, job, served, up>>

JobEnds(n, status) ==
    /\ InWorld /\ job[n] = "live"
    /\ status = "completed" => up \cap Range(served[n]) # {}
    /\ job' = [job EXCEPT ![n] = status]
    /\ UNCHANGED <<config, chosen, served, up, journal>>

OperatorSets ==
    /\ InWorld /\ "user" \notin chosen /\ campaign.edits
    /\ config' = "user" /\ chosen' = chosen \cup {"user"}
    /\ UNCHANGED <<job, served, up, journal>>

World ==
    \/ \E n \in ScenarioNo :
        \/ MachineCreated(n)
        \/ \E status \in Ended : JobEnds(n, status)
    \/ \E m \in Machines, says \in Mentions : EventJournaled(m, says)
    \/ \E m \in Machines : MachineGone(m)
    \/ OperatorSets

-----------------------------------------------------------------------------
(* What a call leaves *)

SameConfig == UNCHANGED <<campaign, config, chosen>>

SameJobs == UNCHANGED <<job, served, journal>>

SameMachines == UNCHANGED up

SameWorld == SameConfig /\ SameJobs /\ SameMachines

Recorded == UNCHANGED <<results, score>>

Still == UNCHANGED <<now, rent>>

\* The rent counted is that of the scenario's machines.
Rented == IF h.n = 0 \/ h.whole THEN {} ELSE up \cap Range(served[h.n])

Lasts(d) ==
    /\ now' = now + d
    /\ rent' = [m \in Machines |-> IF m \in Rented THEN rent[m] + d ELSE rent[m]]

\* A call that is answered, fails or is given up by time t.
Takes(t) == \E d \in 0..(t - now) : Lasts(d)

\* When so many calls that have a timeout and no deadline of the campaign end.
CallsEnd(calls) == now + calls * campaign.calls

\* An exception inside the scenario: on to the clean-up, the job as it is.
Failing(r) == [r EXCEPT !.error = TRUE, !.pc = "tidy"]

Stopping(r) == [r EXCEPT !.stopped = TRUE, !.pc = IF r.known THEN "interrupted" ELSE "tidy"]

\* A limit that leaves the loop with the job as it is.
StopsWatching(r) == [r EXCEPT !.limit = TRUE, !.pc = "tidy"]

Limited(r) == [r EXCEPT !.limit = TRUE, !.pc = "cancel"]

\* A POST of the setting: applied or not, answered only if applied.
Posted(setting, answered, unanswered) ==
    \/ config' = setting /\ h' \in {answered, unanswered}
    \/ UNCHANGED config /\ h' = unanswered

\* A cancellation reaches the job if it has not ended.
Cancelled == job' = [job EXCEPT ![h.n] = IF @ = "live" THEN "failed" ELSE @]

-----------------------------------------------------------------------------
(* BenchmarkRunner.run *)

\* The exclusive plan is refused beside a managed machine, and any failure of
\* the first inventory but a timeout ends the harness.
Start ==
    /\ h.pc = "start" /\ Takes(CampaignTime)
    /\ \/ h' = [h EXCEPT !.pc = "raised"]
       \/ h' = [h EXCEPT !.pc = "next", !.blind = TRUE, !.abort = TRUE]
       \/ now' < CampaignTime /\ h' = [h EXCEPT !.pc = "next"]
    /\ SameWorld /\ Recorded

EveryHeld == UNION {results[i].held : i \in DOMAIN results}

\* A corruption scenario without a verified base manifest is not run.
Dependent == Scenario.fault = "corruption" /\ ~h.base

NextScenario ==
    /\ h.pc = "next"
    /\ h' = IF \/ h.abort \/ h.n = Len(plan)
               \/ now >= CampaignTime \/ h.spent >= TotalCost
            THEN [h EXCEPT !.pc = IF h.blind THEN "score" ELSE "stop", !.whole = TRUE,
                           !.abort = h.abort \/ h.n < Len(plan),
                           !.todo = EveryHeld, !.absent = {}, !.stopped = FALSE]
            ELSE [h EXCEPT !.pc = "quiet", !.n = h.n + 1,
                           !.until = Least(CampaignTime, now + QuietTime)]
    /\ SameWorld /\ Still /\ Recorded

\* _wait_for_worker_quiescence: the heartbeats listed may be stale.
AwaitQuiet ==
    /\ h.pc = "quiet"
    /\ \/ /\ now >= h.until /\ Still
          /\ h' = [h EXCEPT !.pc = "next", !.abort = TRUE]
       \/ now < h.until /\ Lasts(1) /\ UNCHANGED h
       \/ now < h.until /\ Still /\ h' = [h EXCEPT !.pc = "begin"]
       \/ Still /\ h' = [h EXCEPT !.pc = "raised"]
    /\ SameWorld /\ Recorded

-----------------------------------------------------------------------------
(* A scenario until its job is submitted *)

AfterPrepare == IF Scenario.fault = "corruption" THEN "arm" ELSE "submit"

\* The first inventory is outside the scenario's exception handler.
BeginScenario ==
    /\ h.pc = "begin" /\ ~Dependent /\ Takes(now + ReadyTime)
    /\ h' \in {[h EXCEPT !.pc = "raised"],
               [Forgetting(h) EXCEPT !.started = now, !.at = now,
                                     !.pc = IF Scenario.policy THEN "prepare" ELSE AfterPrepare,
                                     !.prepared = ~Scenario.policy]}
    /\ SameWorld /\ Recorded

\* prepare_scenario keeps the whole setting before it changes it.
ReadSetting ==
    /\ h.pc = "prepare"
    /\ h' = [h EXCEPT !.previous = config, !.pc = IF config = "bench" THEN "confirm" ELSE "apply"]
    /\ Takes(CallsEnd(1)) /\ SameWorld /\ Recorded

ApplySetting ==
    /\ h.pc = "apply"
    /\ Posted("bench", [h EXCEPT !.pc = "confirm"], Failing(h))
    /\ Takes(CallsEnd(1))
    /\ UNCHANGED <<campaign, chosen>> /\ SameJobs /\ SameMachines /\ Recorded

ConfirmSetting ==
    /\ h.pc = "confirm"
    /\ h' = IF config = "bench" THEN [h EXCEPT !.prepared = TRUE, !.pc = AfterPrepare]
            ELSE Failing(h)
    /\ Takes(CallsEnd(1)) /\ SameWorld /\ Recorded

\* The prepare stage of a hook that runs before the submission; it may exit
\* with an error, or be killed at its timeout or by the interrupt.
ArmHook ==
    /\ h.pc = "arm"
    /\ h' \in {[h EXCEPT !.hook = "ran", !.pc = "submit"],
               [Failing(h) EXCEPT !.hook = "failed"],
               [Failing(h) EXCEPT !.hook = "raised"],
               [Stopping(h) EXCEPT !.hook = "raised"]}
    /\ Takes(CallsEnd(1)) /\ SameWorld /\ Recorded

Budget == Least(Least(ScenarioCost, ReadyCost), Greatest(0, TotalCost - h.spent))

ReadyDeadline == h.started + ReadyTime

\* The preflight is over by the deadline; the POST, begun before it, has only its
\* own timeout.  submit is not repeated: an answer that is lost leaves a job
\* nobody knows.
Submit ==
    /\ h.pc = "submit" /\ now < ReadyDeadline
    /\ \/ Takes(ReadyDeadline) /\ h' \in {Failing(h), Stopping(h)} /\ UNCHANGED job
       \/ /\ ScenarioTime <= Budget
          /\ Takes(ReadyDeadline - 1 + campaign.calls)
          /\ \/ /\ job' = [job EXCEPT ![h.n] = "live"]
                /\ h' \in {[h EXCEPT !.known = TRUE, !.pc = "poll"], Failing(h), Stopping(h)}
             \/ UNCHANGED job /\ h' \in {Failing(h), Stopping(h)}
    /\ SameConfig /\ UNCHANGED <<served, journal>> /\ SameMachines /\ Recorded

SubmitTooLate ==
    /\ h.pc = "submit" /\ now >= ReadyDeadline
    /\ h' = [h EXCEPT !.limit = TRUE, !.pc = "tidy"]
    /\ SameWorld /\ Still /\ Recorded

-----------------------------------------------------------------------------
(* One round of the scenario's loop *)

Deadline ==
    Least(CampaignTime, h.started + IF h.ready THEN ScenarioTime ELSE Least(ScenarioTime, ReadyTime))

\* When the call at hand ends at the latest: at the deadline it was given, at the
\* end of a hook, or at its own timeout.
Patience ==
    CASE h.pc = "events" -> now
      [] h.pc \in {"poll", "pause"} -> Greatest(now, Deadline)
      [] h.pc \in {"meter", "look"} \cup FaultSteps -> Greatest(now, h.until)
      [] OTHER -> CallsEnd(1)

\* The machine the job's row names: the only one whose lease can be proved.
Provable == IF served[h.n] = <<>> THEN {} ELSE {Last(served[h.n])}

WithUnproved(r, m, rate) ==
    [r EXCEPT !.unproved = @ \cup {m}, !.rate[m] = Greatest(@, rate), !.offer = rate,
              !.seen[m] = IF m \in r.unproved THEN @ ELSE r.at]

\* A meter that starts when the journal first names the machine.
HeldFromEvent(r, m, rate) ==
    [r EXCEPT !.held = @ \cup {m}, !.unproved = @ \ {m}, !.offer = rate,
              !.seen[m] = IF m \in r.held THEN @ ELSE r.at,
              !.rate[m] = IF m \in r.held THEN Greatest(@, rate) ELSE rate]

\* A machine held before keeps its identity when a later event lacks its lease;
\* its meter starts with the scenario.
WithHeld(r, m, rate) ==
    [r EXCEPT !.held = @ \cup {m}, !.unproved = @ \ {m}, !.offer = rate,
              !.seen[m] = r.started,
              !.rate[m] = IF m \in r.held THEN Greatest(@, rate) ELSE rate]

\* The cursor moves past the whole page before its events are looked at.
ReadEvents ==
    /\ h.pc = "poll" /\ now < Deadline
    /\ h' = [h EXCEPT !.at = now, !.until = Deadline, !.cursor = Len(journal[h.n]),
                      !.pc = IF h.cursor = Len(journal[h.n]) THEN "meter" ELSE "events"]
    /\ Takes(Deadline) /\ SameWorld /\ Recorded

AfterEvent(r) ==
    [r EXCEPT !.handled = @ + 1, !.pc = IF r.handled + 1 = r.cursor THEN "meter" ELSE "events"]

\* An event without a lease, of a machine not held, asks for the job's row: the
\* machine is unproved until the answer proves it, and whatever cuts the call.
NextEvent ==
    /\ h.pc = "events"
    /\ LET e    == journal[h.n][h.handled + 1]
           m    == e.machine
           rate == IF e.rated THEN 1 ELSE h.offer
       IN  IF e.leased \/ m \in h.held THEN h' = AfterEvent(WithHeld(h, m, rate)) /\ Still
           ELSE /\ \/ h' \in {AfterEvent(WithUnproved(h, m, rate)), Stopping(WithUnproved(h, m, rate))}
                   \/ m \in Provable /\ h' = AfterEvent(WithHeld(h, m, rate))
                /\ Takes(CallsEnd(1))
    /\ SameWorld /\ Recorded

\* Every step of the round looks at the clock before it goes on.
RoundTooLate ==
    /\ \/ h.pc = "poll" /\ now >= Deadline
       \/ h.pc = "meter" /\ now >= h.until
    /\ h' = Limited(h)
    /\ SameWorld /\ Still /\ Recorded

\* The inventory's rate for a machine the journal named; a running one whose
\* rate is unknown to both is charged the ceiling.
Observed(rate, listed) ==
    [m \in Machines |->
        IF m \notin up \cap (h.held \cup h.unproved) THEN rate[m]
        ELSE IF m \in listed THEN Greatest(rate[m], 1)
        ELSE IF rate[m] = 0 THEN Ceiling ELSE rate[m]]

Charge(r, m, t) == (t - r.seen[m]) * r.rate[m]

Estimate(r, t) == MapThenSumSet(LAMBDA m : Charge(r, m, t), r.held \cup r.unproved)

\* Inventory, workers and the estimate; the readiness seen in this round spares
\* the job the readiness limit.
Meter ==
    /\ h.pc = "meter" /\ now < h.until /\ Takes(h.until)
    /\ \E listed \in SUBSET (up \cap (h.held \cup h.unproved)),
          ready \in {h.ready} \cup {h.held \cap up # {}} :
        LET r    == [h EXCEPT !.rate = Observed(@, listed), !.ready = @ \/ ready, !.pc = "look"]
            cost == Estimate(r, r.at)
        IN  h' = IF \/ now' >= h.until
                    \/ cost >= ScenarioCost
                    \/ h.spent + cost >= TotalCost
                    \/ ~r.ready /\ cost >= ReadyCost
                 THEN Limited(r) ELSE r
    /\ SameWorld /\ Recorded

AfterLook(r) == [r EXCEPT !.pc = IF r.status \in Ended THEN "tidy" ELSE "pause"]

\* The snapshot; the fault is injected once, when its trigger was seen.
Look ==
    /\ h.pc = "look" /\ Takes(h.until)
    /\ LET r == [h EXCEPT !.status = job[h.n]]
       IN  h' \in IF now' >= h.until THEN {Limited(r)}
                  ELSE {AfterLook(r)} \cup
                       IF Scenario.fault = "none" \/ h.injected # "no" THEN {}
                       ELSE {[r EXCEPT !.pc = "inject"]}
    /\ SameWorld /\ Recorded

\* No sleep when the fault has outlasted the deadline.
Pause ==
    /\ h.pc = "pause" /\ h' = [h EXCEPT !.pc = "poll"]
    /\ Lasts(IF now < Deadline THEN 1 ELSE 0) /\ SameWorld /\ Recorded

CancelJob ==
    /\ h.pc = "cancel"
    /\ \/ Cancelled /\ h' \in {[h EXCEPT !.pc = "tidy"], Failing(h)}
       \/ UNCHANGED job /\ h' = Failing(h)
    /\ Takes(CallsEnd(1))
    /\ SameConfig /\ UNCHANGED <<served, journal>> /\ SameMachines /\ Recorded

\* The operator's interrupt cancels the job of a scenario that knows it.
CancelInterrupted ==
    /\ h.pc = "interrupted"
    /\ Cancelled \/ UNCHANGED job
    /\ h' = [h EXCEPT !.pc = "tidy"]
    /\ Takes(CallsEnd(1))
    /\ SameConfig /\ UNCHANGED <<served, journal>> /\ SameMachines /\ Recorded

CallFails ==
    /\ h.pc \in {"prepare", "confirm", "poll", "meter", "look"}
    /\ h.pc = "poll" => now < Deadline
    /\ h' = Failing(h)
    /\ Takes(Patience) /\ SameWorld /\ Recorded

\* Between any two steps, also of the page being looked at.
Interrupted ==
    /\ h.pc \in {"prepare", "apply", "confirm"} \cup FaultSteps \cup (Rounds \ {"inject"})
    /\ h' = Stopping(h)
    /\ Takes(Patience) /\ SameWorld /\ Recorded

-----------------------------------------------------------------------------
(* The fault *)

Injected(outcome) == AfterLook([h EXCEPT !.injected = outcome])

Broken == {Failing(h), Stopping(h)}

\* _maybe_inject: a cancellation that comes too late is answered but not
\* accepted; removals may be refused; the restart canary cancels the job last.
Inject ==
    /\ h.pc = "inject" /\ Scenario.fault # "storage"
    /\ Takes(CallsEnd(IF Scenario.fault = "provider" THEN Cardinality(h.held) ELSE 1))
    /\ \/ /\ Scenario.fault = "cancellation" /\ SameMachines
          /\ \/ /\ Cancelled
                /\ h' \in {Injected(IF job[h.n] = "live" THEN "done" ELSE "failed")} \cup Broken
             \/ UNCHANGED job /\ h' \in Broken
       \/ /\ Scenario.fault = "provider" /\ UNCHANGED job
          /\ IF h.held = {} THEN h' = AfterLook(h) /\ SameMachines
             ELSE \E removed \in SUBSET (h.held \cap up) :
                    /\ up' = up \ removed
                    /\ h' \in {Injected("done"), Injected("failed")} \cup Broken
       \/ /\ Scenario.fault = "restart" /\ SameMachines
          /\ \/ job[h.n] = "live" /\ Cancelled /\ h' \in {Injected("done"), Injected("failed")} \cup Broken
             \/ UNCHANGED job /\ h' \in {Injected("failed")} \cup Broken
       \/ /\ Scenario.fault = "corruption" /\ UNCHANGED job /\ SameMachines
          /\ h' \in {Injected("done"), Injected("failed")} \cup Broken
    /\ SameConfig /\ UNCHANGED <<served, journal>> /\ Recorded

\* inject_storage_unavailable, a process of its own with a timeout for its whole
\* life: read, set, wait, restore.
ReadOriginal ==
    /\ h.pc = "inject" /\ Scenario.fault = "storage"
    /\ h' \in {Injected("failed"),
               [h EXCEPT !.original = config, !.until = CallsEnd(1), !.pc = "faultSet"]} \cup Broken
    /\ Takes(CallsEnd(1)) /\ SameWorld /\ Recorded

\* Only an answered POST counts as applied; the others are not undone.
SetFault ==
    /\ h.pc = "faultSet"
    /\ Posted("fault", [h EXCEPT !.pc = "faultWait"], Injected("failed"))
    /\ Takes(Patience) /\ UNCHANGED <<campaign, chosen>> /\ SameJobs /\ SameMachines /\ Recorded

AwaitFault ==
    /\ h.pc = "faultWait"
    /\ \E outcome \in {"done", "failed"} :
        /\ outcome = "done" => config = "fault"
        /\ h' = [h EXCEPT !.injected = outcome, !.pc = "faultRead"]
    /\ Takes(Patience) /\ SameWorld /\ Recorded

ReadFault ==
    /\ h.pc = "faultRead"
    /\ h' = CASE config = "fault" -> [h EXCEPT !.pc = "faultUndo"]
              [] config = h.original -> [h EXCEPT !.pc = "faultCheck"]
              [] config \notin {"fault", h.original} -> Injected("failed")
    /\ Takes(Patience) /\ SameWorld /\ Recorded

UndoFault ==
    /\ h.pc = "faultUndo"
    /\ Posted(h.original, [h EXCEPT !.pc = "faultCheck"], Injected("failed"))
    /\ Takes(Patience) /\ UNCHANGED <<campaign, chosen>> /\ SameJobs /\ SameMachines /\ Recorded

CheckFault ==
    /\ h.pc = "faultCheck"
    /\ h' = Injected(IF config = h.original THEN h.injected ELSE "failed")
    /\ Takes(Patience) /\ SameWorld /\ Recorded

\* The harness kills the canary at its timeout; nothing is undone then.
CanaryKilled ==
    /\ h.pc \in FaultSteps /\ h' = Failing(h)
    /\ Lasts(h.until - now) /\ SameWorld /\ Recorded

-----------------------------------------------------------------------------
(* After the loop: the cleanup stage of the hook, then the machines *)

\* The support bundle of a job that is known, the cleanup stage, and a last look
\* that observes the scenario's deadlines; each may be interrupted.
Tidy ==
    /\ h.pc = "tidy"
    /\ LET hooked == h.hook \in {"ran", "failed"}
           calls  == (IF h.known THEN 1 ELSE 0) + (IF hooked THEN 1 ELSE 0)
       IN  /\ \E tidied \in IF hooked THEN {"done", "failed"} ELSE {"no"}, cut \in BOOLEAN :
                h' = [h EXCEPT !.pc = "stop", !.whole = FALSE, !.todo = h.held, !.absent = {},
                               !.tidied = tidied, !.stopped = @ \/ cut, !.at = 0, !.until = 0,
                               !.cursor = 0, !.ready = FALSE, !.offer = 0, !.original = "first"]
           /\ Takes(Greatest(CallsEnd(calls), Deadline))
    /\ SameWorld /\ Recorded

\* An inventory that fails read as one that lists nothing.
ErrorIsAbsence == {[error |-> FALSE, absent |-> h.todo \ up], [error |-> FALSE, absent |-> h.todo]}

\* An inventory of _cleanup_resources: what it lists, or an error.
Listing == {[error |-> FALSE, absent |-> h.todo \ up], [error |-> TRUE, absent |-> {}]}

\* Termination requests for some machines: refused, or done at once or later.
\* One of them may be cut by the operator.
Terminate(pending) ==
    /\ \E removed \in SUBSET (pending \cap up) : up' = up \ removed
    /\ SameConfig /\ SameJobs /\ Recorded

\* The requests begun before the deadline have only timeouts of their own.
StopMachines ==
    /\ h.pc = "stop"
    /\ \E list \in Listing, cut \in BOOLEAN :
        LET pending == h.todo \ list.absent
            listed  == IF list.error THEN CleanupTime ELSE CleanupTime - 1
        IN  /\ cut => h.todo # {}
            /\ h' = [h EXCEPT !.until = now + CleanupTime, !.stopped = @ \/ cut,
                              !.pc = IF h.todo = {} THEN "prove" ELSE "recheck"]
            /\ Takes(CallsEnd(Cardinality(pending)) + listed)
            /\ Terminate(pending)

Retries(end) ==
    \E list \in Listing :
        LET pending == h.todo \ list.absent
        IN  /\ h' = [h EXCEPT !.pc = IF pending = {} THEN "prove" ELSE "recheck"]
            /\ Takes(end + Cardinality(pending) * campaign.calls)
            /\ Terminate(pending)

\* Each retry has a deadline of its own.
RetriesForever == h.pc = "recheck" /\ Retries(now + CleanupTime)

\* Retries until the deadline of the whole cleanup; a sleep follows each.
Recheck == h.pc = "recheck" /\ now < h.until /\ Retries(h.until)

AfterCleanup == CASE h.whole -> "score"
                  [] ~h.whole /\ h.previous = "unsaved" -> "result"
                  [] OTHER -> "restore"

\* Only the last inventory decides what is absent, and none after the deadline.
ProveAbsent ==
    /\ h.pc = "prove" \/ (h.pc = "recheck" /\ now >= h.until)
    /\ \E list \in Listing :
        /\ now >= h.until => list.error
        /\ h' = [h EXCEPT !.absent = list.absent, !.audit = list.error, !.pc = AfterCleanup,
                          !.restored = h.previous = "unsaved", !.until = 0]
    /\ Takes(Greatest(now, h.until)) /\ SameWorld /\ Recorded

-----------------------------------------------------------------------------
(* restore_scenario *)

\* A restoration whose refusals and errors are passed over.
RestoredAnyway == [h EXCEPT !.pc = "result", !.restored = TRUE]

NotRestored == [h EXCEPT !.pc = "result"]

ReadBack ==
    /\ h.pc = "restore"
    /\ h' \in {NotRestored,
               CASE config = h.previous -> [h EXCEPT !.pc = "verify"]
                 [] config = "bench" /\ h.previous # "bench" -> [h EXCEPT !.pc = "putback"]
                 [] OTHER -> NotRestored}
    /\ Takes(CallsEnd(1)) /\ SameWorld /\ Recorded

PutBack ==
    /\ h.pc = "putback"
    /\ Posted(h.previous, [h EXCEPT !.pc = "verify"], NotRestored)
    /\ Takes(CallsEnd(1))
    /\ UNCHANGED <<campaign, chosen>> /\ SameJobs /\ SameMachines /\ Recorded

VerifyRestored ==
    /\ h.pc = "verify"
    /\ h' \in {NotRestored, [h EXCEPT !.pc = "result", !.restored = config = h.previous]}
    /\ Takes(CallsEnd(1)) /\ SameWorld /\ Recorded

-----------------------------------------------------------------------------
(* The scenario's result and the scorecard *)

Orphans == (h.todo \ h.absent) \cup h.unproved

FaultSucceeded ==
    Scenario.fault # "none" => h.injected = "done" /\ h.hook # "failed" /\ h.tidied # "failed"

ScenarioPassed(status) ==
    /\ ~h.stopped /\ ~h.error /\ ~h.limit
    /\ status = Scenario.expects
    /\ Orphans = {} /\ h.prepared /\ h.restored
    /\ FaultSucceeded
    /\ h.held # {}                     \* every scenario wants a fresh machine

ScenarioCostEstimate ==
    IF Orphans = {} THEN Estimate(h, now) ELSE Greatest(Estimate(h, now), ScenarioCost)

\* Some machine whose lease was proved has cost more than its part of the
\* estimate; an unproved one is charged from the event that named it first.
Undercharged == \E m \in h.held : h.rate[m] > 0 /\ Charge(h, m, now) < rent[m]

\* The machines of a known rate have cost more than the whole estimate.
Underestimated ==
    ScenarioCostEstimate < MapThenSumSet(LAMBDA m : rent[m],
                                         {m \in h.held \cup h.unproved : h.rate[m] > 0})

\* base_manifest, of three calls, is asked after a passed cold or hot scenario.
BaseAfter(passed, manifest) ==
    CASE Scenario.cache = "failure" -> h.base
      [] Scenario.cache = "cold" -> passed /\ manifest
      [] Scenario.cache = "hot" -> h.base \/ (passed /\ manifest)

Record(passed) ==
    [n |-> h.n, passed |-> passed, known |-> h.known, error |-> h.error, stopped |-> h.stopped,
     handled |-> h.handled, held |-> h.held, unproved |-> h.unproved, orphans |-> Orphans,
     hook |-> h.hook, tidied |-> h.tidied, undercharged |-> Undercharged,
     underestimated |-> Underestimated, live |-> job[h.n] = "live"]

ScenarioResult ==
    /\ h.pc = "result"
    /\ \E status \in {h.status} \cup IF h.known /\ ~h.stopped THEN {job[h.n]} ELSE {},
          manifest \in BOOLEAN :
        LET passed == ScenarioPassed(IF h.status \in Ended THEN h.status ELSE status)
            cost   == ScenarioCostEstimate
            calls  == (IF h.known /\ h.status \notin Ended THEN 1 ELSE 0)
                        + (IF passed /\ Scenario.cache # "failure" THEN 3 ELSE 0)
        IN  /\ now' \in now..CallsEnd(calls)
            /\ results' = Append(results, Record(passed))
            /\ h' = Forgetting([h EXCEPT !.pc = "next", !.spent = @ + cost, !.abort = ~passed,
                                         !.base = BaseAfter(passed, manifest)])
    /\ rent' = [m \in Machines |-> 0]
    /\ SameWorld /\ UNCHANGED score

\* A result of its own for a scenario whose base manifest is missing.
DependentFailure ==
    /\ h.pc = "begin" /\ Dependent
    /\ results' = Append(results, [n |-> h.n, passed |-> FALSE, known |-> FALSE, error |-> TRUE,
                                   stopped |-> FALSE, handled |-> 0, held |-> {},
                                   unproved |-> {}, orphans |-> {}, hook |-> "none",
                                   tidied |-> "no", undercharged |-> FALSE,
                                   underestimated |-> FALSE, live |-> FALSE])
    /\ h' = [h EXCEPT !.pc = "next", !.abort = TRUE]
    /\ SameWorld /\ Still /\ UNCHANGED score

Unknown == UNION {results[i].unproved : i \in DOMAIN results}

\* The receipts carry the last inventory's error; without a receipt it is lost.
AuditError == h.blind \/ (h.todo # {} /\ h.audit)

Scorecard ==
    /\ h.pc = "score"
    /\ LET orphans == h.todo \ h.absent
           clean   == ~AuditError /\ orphans = {}
       IN  score' = [passed  |-> /\ clean /\ ~h.abort /\ ~h.stopped /\ Len(results) = Len(plan)
                                 /\ \A i \in DOMAIN results : results[i].passed,
                     proof   |-> IF clean /\ Unknown = {} THEN "confirmed" ELSE "failed",
                     orphans |-> orphans \cup Unknown,
                     cost    |-> IF clean /\ Unknown = {} THEN h.spent ELSE TotalCost]
    /\ h' = [h EXCEPT !.pc = "ended"]
    /\ SameWorld /\ Still /\ UNCHANGED results

-----------------------------------------------------------------------------

HarnessNext ==
    \/ Start \/ NextScenario \/ AwaitQuiet \/ BeginScenario
    \/ ReadSetting \/ ApplySetting \/ ConfirmSetting \/ ArmHook \/ Submit \/ SubmitTooLate
    \/ ReadEvents \/ NextEvent \/ RoundTooLate \/ Meter \/ Look \/ Pause \/ CancelJob
    \/ CancelInterrupted \/ CallFails \/ Interrupted
    \/ Inject \/ ReadOriginal \/ SetFault \/ AwaitFault \/ ReadFault \/ UndoFault
    \/ CheckFault \/ CanaryKilled
    \/ Tidy \/ StopMachines \/ Recheck \/ ProveAbsent
    \/ ReadBack \/ PutBack \/ VerifyRestored
    \/ ScenarioResult \/ DependentFailure \/ Scorecard

BenchNext == HarnessNext \/ World

BenchSpec == BenchInit /\ [][BenchNext]_benchVars

-----------------------------------------------------------------------------
(* Properties *)

\* Every variable keeps its type, and the cursor stays within the journal.
BenchTypeOK ==
    /\ config \in Settings /\ chosen \subseteq Settings
    /\ job \in [ScenarioNo -> {"none", "live"} \cup Ended]
    /\ up \subseteq Machines
    /\ rent \in [Machines -> Nat] /\ now \in Nat
    /\ h \in Harness
    /\ h.known => h.cursor <= Len(journal[h.n])
    /\ h.held \cap h.unproved = {}

\* A scorecard whose cleanup proof is "confirmed" leaves no machine running
\* that any event the campaign looked at named, proved or not, whatever answers
\* of the provider were lost and whenever the loop ended
\* (benchmark.py _cleanup_resources, run).
ConfirmedMeansGone ==
    score.proof = "confirmed" =>
        \A i \in DOMAIN results : \A k \in 1..results[i].handled :
            journal[results[i].n][k].machine \notin up

\* The part in a scenario's estimate of each machine of a known rate whose lease
\* was proved is no less than the rent it had cost by then, however late the
\* journal named it or the lease was proved, and however long it took to remove
\* (_estimated_cost charges from the scenario's start to its completion).
EstimateCoversRent == \A i \in DOMAIN results : ~results[i].undercharged

\* A passed campaign leaves a setting the operator chose: neither a scenario's
\* nor the storage canary's own, through lost answers, killed hooks and
\* concurrent changes (restore_scenario, inject_storage_unavailable).
PassedLeavesOperatorsSetting == score.passed => config \in chosen

\* A scenario that ends without an exception and without an interrupt leaves
\* no job of its own running: each limit cancels it (_run_scenario).
LiveJobIsReported ==
    \A i \in DOMAIN results : results[i].known /\ results[i].live =>
                                results[i].error \/ results[i].stopped

\* By how much the loop of a scenario outlasts its deadlines, and a cleanup its
\* own: the calls and hooks that have no deadline of the campaign.
LoopOverrun ==
    Greatest(ReadyTime - 1 + 4 * campaign.calls,
             (2 + Greatest(1, Greatest(MaxEntries, MaxMachines))) * campaign.calls)

CleanupOverrun == CleanupTime + MaxMachines * campaign.calls

\* Whatever the coordinator and the provider answer, and if no call or hook
\* outlasts its timeout, a campaign outlasts its runtime limit by at most the
\* submission of one job, or one question for each event of a page, or one
\* removal for each machine, then the cancellation, two cleanups, and nine calls:
\* the bundle, the cleanup hook, three to restore, four for the result
\* (the deadlines of _run_scenario and _cleanup_resources).
CampaignKeepsItsTime ==
    now <= CampaignTime + LoopOverrun + 2 * CleanupOverrun + 9 * campaign.calls

\* docs/production-benchmark.md: if the settings changed concurrently, the
\* restoration fails rather than overwriting the newer state.  Its comparison and
\* its write are two requests.
NewerSettingIsKept == [][h.pc = "putback" /\ config = "user" => config' = "user"]_benchVars

\* docs/production-benchmark.md: the cleanup stage of a hook that ran its
\* prepare stage is invoked on every exit path.
PreparedIsTidied ==
    \A i \in DOMAIN results : results[i].hook # "none" => results[i].tidied # "no"

\* docs/production-benchmark.md: the cost is an upper estimate, accruing each
\* observed machine from the scenario's submission to its verified absence.
EstimateIsUpper == \A i \in DOMAIN results : ~results[i].underestimated

=============================================================================
