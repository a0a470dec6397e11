-------------------------- MODULE Benchmark_proofs --------------------------
(***************************************************************************)
(* What a benchmark campaign promises, for every set of campaigns, every   *)
(* limit and every bound: a confirmed cleanup proof is true, the estimate  *)
(* covers the rent of each machine whose lease was proved, a passed        *)
(* campaign leaves a setting the operator chose, no job is left without a  *)
(* word, and a campaign whose calls keep their timeouts ends in time.      *)
(*                                                                         *)
(* The invariant says, for each place the harness can be at, what it knows *)
(* of the clock, the meters, the events it read, the job and the setting.  *)
(* The proof first says what each action does to the harness's variables   *)
(* (its effect) and to the world's (its frame); each part of the invariant *)
(* is then proved from those alone.                                        *)
(***************************************************************************)
EXTENDS Benchmark, FiniteSetTheorems, SequenceTheorems, TLAPS

-----------------------------------------------------------------------------
(* The inductive invariant *)

\* A scenario before its job is submitted, while its fault is injected, while
\* its machines are removed and while the setting is put back.
Before == {"prepare", "apply", "confirm", "arm", "submit"}

Removing == {"stop", "recheck", "prove"}

PuttingBack == {"restore", "putback", "verify", "result"}

\* The loop of a scenario, and what follows it.
Looping == Before \cup Rounds \cup FaultSteps

Leaving == h.pc \in {"interrupted", "tidy"} \cup PuttingBack \/ (h.pc \in Removing /\ ~h.whole)

Inside == h.pc \in Looping \/ Leaving

\* The last clean-up.
AtTheEnd == h.pc = "score" \/ (h.pc \in Removing /\ h.whole)

\* The local variables of run and of _run_scenario.
Fields ==
    {"pc", "n", "spent", "abort", "blind", "base", "started", "at", "until", "ready", "known",
     "status", "cursor", "handled", "held", "unproved", "rate", "seen", "offer", "limit", "error",
     "stopped", "injected", "hook", "tidied", "prepared", "previous", "original", "whole", "todo",
     "absent", "audit", "restored"}

HarnessShape ==
    /\ DOMAIN h = Fields
    /\ h.n \in 0..MaxScenarios
    /\ h.started \in Nat /\ h.at \in Nat /\ h.until \in Nat
    /\ h.cursor \in 0..MaxEntries /\ h.handled \in 0..MaxEntries
    /\ h.held \subseteq Machines /\ h.unproved \subseteq Machines
    /\ h.todo \subseteq Machines /\ h.absent \subseteq Machines
    /\ h.rate \in [Machines -> Nat] /\ h.seen \in [Machines -> Nat] /\ h.offer \in Nat
    /\ h.previous \in Settings \cup {"unsaved"} /\ h.original \in Settings

Numbered ==
    /\ h.n <= Len(plan)
    /\ h.pc = "start" => h.n = 0
    /\ \A k \in ScenarioNo : h.n < k \/ (h.n = k /\ h.pc \in {"quiet", "begin"}) => served[k] = << >>
    /\ Inside \/ h.pc \in {"quiet", "begin"} => h.n \in ScenarioNo
    /\ h.pc \in {"start", "next", "quiet", "begin"} => ~h.whole
    /\ Inside => ~h.whole

WorldShape ==
    /\ campaign \in Campaigns
    /\ config \in Settings /\ chosen \subseteq Settings
    /\ job \in [ScenarioNo -> {"none", "live"} \cup Ended]
    /\ served \in [ScenarioNo -> Seq(Machines)]
    /\ up \subseteq Machines
    /\ rent \in [Machines -> Nat]
    /\ journal \in [ScenarioNo -> Seq(Entry)]
    /\ \A k \in ScenarioNo : Len(journal[k]) <= campaign.entries
    /\ now \in Nat

\* What is recorded of a scenario, as far as the proofs look at it.
RecordShape(r) ==
    /\ r.n \in ScenarioNo /\ r.handled \in 0..MaxEntries
    /\ r.held \subseteq Machines /\ r.unproved \subseteq Machines

ResultsShape ==
    /\ results \in Seq({results[i] : i \in DOMAIN results})
    /\ \A i \in DOMAIN results : RecordShape(results[i])

\* How far the events of the current job are read.
Cursors ==
    /\ h.pc = "events" => h.handled < h.cursor
    /\ h.pc \in Looping \ {"events"} => h.handled = h.cursor
    /\ h.pc \in Looping => h.cursor <= Len(journal[h.n])
    /\ Inside => h.handled <= Len(journal[h.n])

Shape == WorldShape /\ HarnessShape /\ Numbered /\ ResultsShape /\ Cursors

\* The clock, by the step the harness is at.
LoopEnd == CampaignTime + LoopOverrun

CleanupBegin ==
    LoopEnd + IF h.whole THEN CleanupOverrun + 9 * campaign.calls ELSE 2 * campaign.calls

Submitting ==
    /\ h.started < CampaignTime
    /\ \/ h.pc = "prepare" /\ now < CampaignTime + ReadyTime
       \/ h.pc = "apply" /\ now < CampaignTime + ReadyTime + campaign.calls
       \/ h.pc = "confirm" /\ now < CampaignTime + ReadyTime + 2 * campaign.calls
       \/ h.pc = "arm" /\ now < CampaignTime + ReadyTime + 3 * campaign.calls
       \/ h.pc = "submit" /\ now < CampaignTime + ReadyTime + 4 * campaign.calls

Watching ==
    \/ h.pc \in {"poll", "pause", "cancel"} /\ now + 2 * campaign.calls <= LoopEnd
    \/ /\ h.pc \in {"events", "meter"}
       /\ now <= CampaignTime + h.handled * campaign.calls /\ h.until <= CampaignTime
    \/ h.pc = "look" /\ now < h.until /\ h.until <= CampaignTime
    \/ h.pc = "inject" /\ now < CampaignTime
    \/ h.pc \in FaultSteps /\ now <= h.until /\ h.until < CampaignTime + campaign.calls
    \/ h.pc = "interrupted" /\ now + campaign.calls <= LoopEnd

Finishing ==
    \/ h.pc = "tidy" /\ now <= LoopEnd
    \/ h.pc = "stop" /\ now <= CleanupBegin
    \/ /\ h.pc \in {"recheck", "prove"}
       /\ now <= CleanupBegin + CleanupOverrun /\ h.until <= CleanupBegin + CleanupTime
    \/ h.pc = "restore" /\ now <= LoopEnd + CleanupOverrun + 2 * campaign.calls
    \/ h.pc = "putback" /\ now <= LoopEnd + CleanupOverrun + 3 * campaign.calls
    \/ h.pc = "verify" /\ now <= LoopEnd + CleanupOverrun + 4 * campaign.calls
    \/ h.pc = "result" /\ now <= LoopEnd + CleanupOverrun + 5 * campaign.calls

OnTime ==
    \/ h.pc \in {"start", "next"} /\ now <= LoopEnd + CleanupOverrun + 9 * campaign.calls
    \/ h.pc = "quiet" /\ now <= CampaignTime /\ h.until <= CampaignTime
    \/ h.pc = "begin" /\ now < CampaignTime
    \/ Submitting \/ Watching \/ Finishing
    \/ h.pc \in {"raised", "score", "ended"} /\ now <= LoopEnd + 2 * CleanupOverrun + 9 * campaign.calls

\* The meter of a held machine starts with the scenario, and its rent no earlier.
Idle == {"start", "next", "quiet", "begin"}

Charged ==
    /\ h.pc \in Idle => \A m \in Machines : rent[m] = 0
    /\ Inside => /\ h.started <= now
                 /\ \A m \in Machines : rent[m] <= now - h.started
                 /\ \A m \in h.held : h.seen[m] = h.started
    /\ EstimateCoversRent

\* Every machine of an event that was handled is held or unproved.
MachineRead(n, i) == journal[n][i].machine

ReadIsHeld == Inside => \A i \in 1..h.handled : MachineRead(h.n, i) \in h.held \cup h.unproved

\* The same of a scenario's record, which stays.
ReadIsRecorded ==
    \A i \in DOMAIN results :
        /\ results[i].handled <= Len(journal[results[i].n])
        /\ results[i].unproved = {} =>
             \A k \in 1..results[i].handled : MachineRead(results[i].n, k) \in results[i].held

\* The last clean-up is of every machine held, and its last listing decides.
ListedLast ==
    /\ AtTheEnd => h.todo = EveryHeld
    /\ h.pc = "score" => h.blind \/ h.audit \/ h.absent \cap up = {}
    /\ score.proof = "confirmed" => h.pc = "ended" /\ ConfirmedMeansGone

\* A job is left running only by a scenario that says so.
JobLeft ==
    /\ h.pc \in Before => ~h.known /\ h.status = "none"
    /\ Inside /\ h.status \in Ended => job[h.n] # "live"
    /\ h.pc = "interrupted" => h.stopped
    /\ Leaving /\ h.pc # "interrupted" /\ h.known /\ job[h.n] = "live" => h.error \/ h.stopped
    /\ LiveJobIsReported

\* The settings of the scenario's own that config may have.
Ours == IF h.previous = "unsaved" THEN {} ELSE {"bench"}

Spoiled == h.error \/ h.stopped \/ h.injected = "failed"

SettingKnown ==
    /\ h.pc \in {"start", "quiet", "begin", "prepare"} => config \in chosen
    /\ h.pc = "next" \/ AtTheEnd => h.abort \/ config \in chosen
    /\ h.pc \in {"quiet", "begin"} => ~h.abort
    /\ Inside => /\ h.previous \in chosen \cup {"unsaved"}
                 /\ h.injected # "no" \/ h.pc \in {"inject"} \cup FaultSteps => Scenario.fault # "none"
                 /\ h.pc \in FaultSteps \/ Spoiled \/ config \in chosen \cup Ours
    /\ h.pc \in {"apply", "restore", "putback", "verify"} => h.previous # "unsaved"
    /\ h.pc = "inject" => h.injected = "no"
    /\ h.pc \in FaultSteps => h.error \/ h.stopped \/ h.original \in chosen \cup Ours
    /\ h.pc = "faultSet" => Spoiled \/ config \in chosen \cup Ours
    /\ h.pc \in {"restore", "putback", "verify"} => ~h.restored
    /\ h.pc = "result" /\ h.restored => Spoiled \/ config \in chosen
    /\ score.passed => h.pc = "ended" /\ config \in chosen

BenchInv ==
    Shape /\ OnTime /\ Charged /\ ReadIsHeld /\ ReadIsRecorded /\ ListedLast /\ JobLeft /\ SettingKnown

LEMMA Limits ==
    /\ ScenarioTime \in Nat \ {0} /\ ReadyTime \in Nat \ {0} /\ CampaignTime \in Nat \ {0}
    /\ CleanupTime \in Nat \ {0} /\ QuietTime \in Nat
    /\ ScenarioCost \in Nat /\ ReadyCost \in Nat
    /\ MaxScenarios \in Nat /\ MaxMachines \in Nat /\ MaxEntries \in Nat
  BY LimitsAssumption, CampaignsAssumption

LEMMA Lengths == ASSUME campaign \in Campaigns PROVE Len(plan) \in 0..MaxScenarios
  BY CampaignsAssumption, LenProperties DEF plan

LEMMA JournalLengths ==
    ASSUME WorldShape, NEW n \in ScenarioNo
    PROVE  Len(journal[n]) \in 0..MaxEntries
<1>1. journal[n] \in Seq(Entry) /\ Len(journal[n]) <= campaign.entries
  BY DEF WorldShape
<1>2. campaign.entries \in 0..MaxEntries /\ MaxEntries \in Nat
  BY CampaignsAssumption DEF WorldShape
<1> QED BY <1>1, <1>2, LenProperties

LEMMA Zeros ==
    0 \in 0..MaxEntries /\ [m \in Machines |-> 0] \in [Machines -> Nat]
  BY Limits

LEMMA DeadlineBound ==
    ASSUME HarnessShape
    PROVE  Deadline \in Nat /\ Deadline <= CampaignTime
<1> DEFINE span == IF h.ready THEN ScenarioTime ELSE Least(ScenarioTime, ReadyTime)
<1>1. span \in Nat
  BY Limits DEF Least
<1> HIDE DEF span
<1>2. h.started + span \in Nat
  BY <1>1, Limits DEF HarnessShape
<1>3. Deadline = Least(CampaignTime, h.started + span)
  BY DEF Deadline, span
<1> QED BY <1>2, <1>3, Limits DEF Least

-----------------------------------------------------------------------------
(* Effects: what a step does to the local variables *)

\* The step leaves all of them alone but some, and goes on to some place.
Goes(place, fields) ==
    /\ DOMAIN h' = Fields /\ h'.pc = place
    /\ \A f \in Fields \ (fields \cup {"pc"}) : h'[f] = h[f]

\* The scenario's loop is left by an exception or by an interrupt.
Aborts(fields) ==
    /\ DOMAIN h' = Fields /\ h'.pc \in {"tidy", "interrupted"}
    /\ h'.error \/ h'.stopped
    /\ h'.pc = "interrupted" => h'.stopped /\ h.known
    /\ (h.error => h'.error) /\ (h.stopped => h'.stopped)
    /\ \A f \in Fields \ (fields \cup {"pc", "error", "stopped"}) : h'[f] = h[f]

LEMMA FailingAborts == ASSUME DOMAIN h = Fields, h' = Failing(h) PROVE Aborts({})
  BY DEF Aborts, Goes, Failing, Fields

LEMMA StoppingAborts == ASSUME DOMAIN h = Fields, h' = Stopping(h) PROVE Aborts({})
<1>1. CASE h.known
  BY <1>1 DEF Aborts, Goes, Stopping, Fields
<1>2. CASE ~h.known
  BY <1>2 DEF Aborts, Goes, Stopping, Fields
<1> QED BY <1>1, <1>2

LEMMA StartEffect ==
    ASSUME DOMAIN h = Fields, Start
    PROVE  Goes("raised", {}) \/ Goes("next", {"blind", "abort"})
<1>1. CASE h' = [h EXCEPT !.pc = "raised"]
  BY <1>1 DEF Goes, Fields
<1>2. CASE h' = [h EXCEPT !.pc = "next", !.blind = TRUE, !.abort = TRUE]
  BY <1>2 DEF Goes, Fields
<1>3. CASE h' = [h EXCEPT !.pc = "next"]
  BY <1>3 DEF Goes, Fields
<1> QED BY <1>1, <1>2, <1>3 DEF Start

LEMMA NextScenarioEffect ==
    ASSUME DOMAIN h = Fields, NextScenario
    PROVE  \/ /\ Goes(IF h.blind THEN "score" ELSE "stop", {"whole", "abort", "todo", "absent", "stopped"})
              /\ h'.whole = TRUE /\ h'.todo = EveryHeld /\ h'.absent = {}
              /\ h.abort => h'.abort
           \/ /\ ~h.abort /\ h.n # Len(plan) /\ ~(now >= CampaignTime)
              /\ Goes("quiet", {"n", "until"}) /\ h'.n = h.n + 1
              /\ h'.until = Least(CampaignTime, now + QuietTime)
<1>1. CASE h.abort \/ h.n = Len(plan) \/ now >= CampaignTime \/ h.spent >= TotalCost
  <2> DEFINE all == EveryHeld
             last == h.abort \/ h.n < Len(plan)
             place == IF h.blind THEN "score" ELSE "stop"
  <2>1. h' = [h EXCEPT !.pc = place, !.whole = TRUE, !.abort = last, !.todo = all, !.absent = {}, !.stopped = FALSE]
    BY <1>1 DEF NextScenario
  <2> HIDE DEF all, last, place
  <2>3. Goes(place, {"whole", "abort", "todo", "absent", "stopped"})
    BY <2>1 DEF Goes, Fields
  <2>4. h'.pc = place /\ h'.whole = TRUE /\ h'.todo = all /\ h'.absent = {} /\ h'.abort = last
    BY <2>1 DEF Fields
  <2>5. h.abort => h'.abort
    BY <2>4 DEF last
  <2>6. Goes(IF h.blind THEN "score" ELSE "stop", {"whole", "abort", "todo", "absent", "stopped"})
    BY <2>3 DEF place
  <2>7. h'.whole = TRUE /\ h'.todo = EveryHeld /\ h'.absent = {}
    BY <2>4 DEF all
  <2> QED BY <2>5, <2>6, <2>7
<1>2. CASE ~(h.abort \/ h.n = Len(plan) \/ now >= CampaignTime \/ h.spent >= TotalCost)
  <2> DEFINE until == Least(CampaignTime, now + QuietTime)
  <2>1. h' = [h EXCEPT !.pc = "quiet", !.n = h.n + 1, !.until = until]
    BY <1>2 DEF NextScenario
  <2> HIDE DEF until
  <2>2. Goes("quiet", {"n", "until"}) /\ h'.n = h.n + 1 /\ h'.until = until
    BY <2>1 DEF Goes, Fields
  <2> QED BY <1>2, <2>2 DEF until
<1> QED BY <1>1, <1>2

LEMMA AwaitQuietEffect ==
    ASSUME DOMAIN h = Fields, AwaitQuiet
    PROVE  \/ Goes("next", {"abort"}) /\ h'.abort = TRUE /\ Still
           \/ Goes("quiet", {}) /\ now < h.until /\ Lasts(1)
           \/ Goes("begin", {}) /\ now < h.until /\ Still
           \/ Goes("raised", {}) /\ Still
  BY ZenonT(60) DEF AwaitQuiet, Goes, Fields

LEMMA BeginScenarioEffect ==
    ASSUME DOMAIN h = Fields, BeginScenario
    PROVE  \/ Goes("raised", {})
           \/ /\ DOMAIN h' = Fields /\ h'.pc \in {"prepare", "arm", "submit"}
              /\ h'.pc = "prepare" <=> Scenario.policy
              /\ UNCHANGED <<h.n, h.whole, h.abort, h.until>>
              /\ h'.started = now /\ h'.at = now /\ ~h'.known /\ h'.status = "none"
              /\ h'.cursor = 0 /\ h'.handled = 0 /\ h'.held = {} /\ h'.unproved = {}
              /\ h'.rate = [m \in Machines |-> 0] /\ h'.seen = [m \in Machines |-> 0] /\ h'.offer = 0
              /\ h'.injected = "no" /\ h'.previous = "unsaved" /\ h'.original = "first"
              /\ h'.todo = {} /\ h'.absent = {}
<1> DEFINE r == Forgetting(h)
           place == IF Scenario.policy THEN "prepare" ELSE AfterPrepare
           ready == ~Scenario.policy
<1>1. CASE h' = [h EXCEPT !.pc = "raised"]
  BY <1>1 DEF Goes, Fields
<1>2. CASE h' = [r EXCEPT !.started = now, !.at = now, !.pc = place, !.prepared = ready]
  <2>1. DOMAIN r = Fields
    BY DEF Forgetting, Fields
  <2>2. /\ r.n = h.n /\ r.whole = h.whole /\ r.abort = h.abort /\ r.until = h.until
        /\ ~r.known /\ r.status = "none" /\ r.cursor = 0 /\ r.handled = 0 /\ r.held = {} /\ r.unproved = {}
        /\ r.rate = [m \in Machines |-> 0] /\ r.seen = [m \in Machines |-> 0] /\ r.offer = 0
        /\ r.injected = "no" /\ r.previous = "unsaved" /\ r.original = "first"
        /\ r.todo = {} /\ r.absent = {}
    BY DEF Forgetting
  <2>3. place \in {"prepare", "arm", "submit"} /\ (place = "prepare" <=> Scenario.policy)
    BY DEF AfterPrepare
  <2> HIDE DEF r, place, ready
  <2>4. DOMAIN h' = Fields /\ h'.pc = place /\ h'.started = now /\ h'.at = now
    BY <1>2, <2>1 DEF Fields
  <2>5. \A f \in Fields \ {"pc", "started", "at", "prepared"} : h'[f] = r[f]
    BY <1>2, <2>1 DEF Fields
  <2> QED BY <2>2, <2>3, <2>4, <2>5 DEF Fields
<1> QED BY <1>1, <1>2 DEF BeginScenario

LEMMA ReadSettingEffect ==
    ASSUME DOMAIN h = Fields, ReadSetting
    PROVE  /\ \E place \in {"confirm", "apply"} : Goes(place, {"previous"})
           /\ h'.previous = config
  BY DEF ReadSetting, Goes, Fields

LEMMA ApplySettingEffect ==
    ASSUME DOMAIN h = Fields, ApplySetting
    PROVE  /\ Goes("confirm", {}) \/ Aborts({})
           /\ config' = "bench" \/ (config' = config /\ Aborts({}))
  BY FailingAborts DEF ApplySetting, Posted, Goes, Fields

LEMMA ConfirmSettingEffect ==
    ASSUME DOMAIN h = Fields, ConfirmSetting
    PROVE  (\E place \in {"arm", "submit"} : Goes(place, {"prepared"})) \/ Aborts({})
  BY FailingAborts DEF ConfirmSetting, AfterPrepare, Goes, Fields

LEMMA ArmHookEffect ==
    ASSUME DOMAIN h = Fields, ArmHook
    PROVE  Goes("submit", {"hook"}) \/ Aborts({"hook"})
<1>1. CASE h' = [h EXCEPT !.hook = "ran", !.pc = "submit"]
  BY <1>1 DEF Goes, Fields
<1>2. ASSUME NEW k, h' = [Failing(h) EXCEPT !.hook = k]
      PROVE  Aborts({"hook"})
  BY <1>2 DEF Failing, Aborts, Goes, Fields
<1>3. ASSUME NEW k, h' = [Stopping(h) EXCEPT !.hook = k]
      PROVE  Aborts({"hook"})
  <2>1. CASE h.known
    BY <1>3, <2>1 DEF Stopping, Aborts, Goes, Fields
  <2>2. CASE ~h.known
    BY <1>3, <2>2 DEF Stopping, Aborts, Goes, Fields
  <2> QED BY <2>1, <2>2
<1> QED BY <1>1, <1>2, <1>3 DEF ArmHook

LEMMA SubmitEffect ==
    ASSUME DOMAIN h = Fields, Submit
    PROVE  \/ UNCHANGED job /\ Aborts({})
           \/ job' = [job EXCEPT ![h.n] = "live"] /\ (Aborts({}) \/ (Goes("poll", {"known"}) /\ h'.known = TRUE))
<1>1. ASSUME h' = [h EXCEPT !.known = TRUE, !.pc = "poll"]
      PROVE  Goes("poll", {"known"}) /\ h'.known = TRUE
  BY <1>1 DEF Goes, Fields
<1> QED BY <1>1, FailingAborts, StoppingAborts DEF Submit

LEMMA SubmitTooLateEffect ==
    ASSUME DOMAIN h = Fields, SubmitTooLate PROVE Goes("tidy", {"limit"})
  BY DEF SubmitTooLate, Goes, Fields

\* A round of the loop.
LEMMA ReadEventsEffect ==
    ASSUME DOMAIN h = Fields, ReadEvents
    PROVE  /\ Goes(IF h.cursor = Len(journal[h.n]) THEN "meter" ELSE "events", {"at", "until", "cursor"})
           /\ h'.at = now /\ h'.until = Deadline /\ h'.cursor = Len(journal[h.n])
  BY DEF ReadEvents, Goes, Fields

\* An event makes its machine held, or leaves it unproved.
Holds(m) ==
    /\ h'.held = h.held \cup {m} /\ h'.unproved = h.unproved \ {m}
    /\ h'.seen = [h.seen EXCEPT ![m] = h.started]
    /\ \E rate \in Nat : h'.rate = [h.rate EXCEPT ![m] = rate]
    /\ h'.offer \in Nat

Doubts(m) ==
    /\ m \notin h.held /\ h'.held = h.held /\ h'.unproved = h.unproved \cup {m}
    /\ \E t \in Nat : h'.seen = [h.seen EXCEPT ![m] = t]
    /\ \E rate \in Nat : h'.rate = [h.rate EXCEPT ![m] = rate]
    /\ h'.offer \in Nat

LEMMA MetersTyped ==
    ASSUME HarnessShape, NEW m \in Machines, Holds(m) \/ Doubts(m)
    PROVE  /\ h'.seen \in [Machines -> Nat] /\ h'.rate \in [Machines -> Nat] /\ h'.offer \in Nat
           /\ h'.held \subseteq Machines /\ h'.unproved \subseteq Machines
<1>1. h.seen \in [Machines -> Nat] /\ h.rate \in [Machines -> Nat] /\ h.started \in Nat
  BY DEF HarnessShape
<1>2. \E t \in Nat : h'.seen = [h.seen EXCEPT ![m] = t]
  BY <1>1 DEF Holds, Doubts
<1>3. \E rate \in Nat : h'.rate = [h.rate EXCEPT ![m] = rate]
  BY DEF Holds, Doubts
<1>4. h'.seen \in [Machines -> Nat] /\ h'.rate \in [Machines -> Nat]
  BY <1>1, <1>2, <1>3
<1>5. h'.offer \in Nat /\ h'.held \subseteq Machines /\ h'.unproved \subseteq Machines
  BY DEF HarnessShape, Holds, Doubts
<1> QED BY <1>4, <1>5

Metering == {"held", "unproved", "rate", "seen", "offer"}

LEMMA EventAtHand == ASSUME Shape, NextEvent PROVE journal[h.n][h.handled + 1] \in Entry
<1>1. Inside /\ h.pc = "events"
  BY DEF NextEvent, Inside, Looping, Rounds
<1>2. h.n \in ScenarioNo /\ h.handled < h.cursor /\ h.cursor <= Len(journal[h.n])
  BY <1>1 DEF Shape, Numbered, Cursors, Looping, Rounds
<1>3. h.cursor \in Nat /\ h.handled \in Nat
  BY Limits DEF Shape, HarnessShape
<1>4. journal[h.n] \in Seq(Entry)
  BY <1>2 DEF Shape, WorldShape
<1>5. h.handled + 1 \in 1..Len(journal[h.n])
  BY <1>2, <1>3, <1>4, LenProperties
<1> QED BY <1>4, <1>5, ElementOfSeq

LEMMA NextEventEffect ==
    ASSUME Shape, NextEvent
    PROVE  LET m    == journal[h.n][h.handled + 1].machine
               next == Goes(IF h.handled + 1 = h.cursor THEN "meter" ELSE "events", Metering \cup {"handled"})
                         /\ h'.handled = h.handled + 1
           IN  \/ next /\ Holds(m)
               \/ next /\ Doubts(m)
               \/ Aborts(Metering) /\ Doubts(m)
<1> DEFINE e    == journal[h.n][h.handled + 1]
           m    == e.machine
           rate == IF e.rated THEN 1 ELSE h.offer
           place == IF h.handled + 1 = h.cursor THEN "meter" ELSE "events"
           more == IF m \in h.held THEN Greatest(h.rate[m], rate) ELSE rate
           high == Greatest(h.rate[m], rate)
           first == IF m \in h.unproved THEN h.seen[m] ELSE h.at
           a == WithHeld(h, m, rate)
           b == WithUnproved(h, m, rate)
<1> HIDE DEF e
<1>0. HarnessShape /\ e \in Entry
  BY EventAtHand DEF Shape, e
<1>1. m \in Machines /\ rate \in Nat /\ more \in Nat /\ high \in Nat /\ first \in Nat
  BY <1>0, Limits DEF HarnessShape, Entry, Greatest
<1>2. DOMAIN h = Fields /\ h.rate \in [Machines -> Nat] /\ h.seen \in [Machines -> Nat]
  BY <1>0 DEF HarnessShape
<1> HIDE DEF m, rate, place
<1>3. /\ DOMAIN a = Fields /\ \A f \in Fields \ Metering : a[f] = h[f]
      /\ a.held = h.held \cup {m} /\ a.unproved = h.unproved \ {m} /\ a.offer = rate
      /\ a.seen = [h.seen EXCEPT ![m] = h.started] /\ a.rate = [h.rate EXCEPT ![m] = more]
  <2>1. a = [h EXCEPT !.held = h.held \cup {m}, !.unproved = h.unproved \ {m}, !.offer = rate,
                      !.seen = [h.seen EXCEPT ![m] = h.started], !.rate = [h.rate EXCEPT ![m] = more]]
    BY <1>2 DEF WithHeld, Fields
  <2> DEFINE seen == [h.seen EXCEPT ![m] = h.started]
             rates == [h.rate EXCEPT ![m] = more]
  <2> HIDE DEF seen, rates, more
  <2>2. a = [h EXCEPT !.held = h.held \cup {m}, !.unproved = h.unproved \ {m}, !.offer = rate,
                      !.seen = seen, !.rate = rates]
    BY <2>1 DEF seen, rates
  <2> HIDE DEF a
  <2>3. /\ DOMAIN a = Fields /\ \A f \in Fields \ Metering : a[f] = h[f]
        /\ a.held = h.held \cup {m} /\ a.unproved = h.unproved \ {m} /\ a.offer = rate
        /\ a.seen = seen /\ a.rate = rates
    BY <1>2, <2>2 DEF Fields, Metering
  <2> QED BY <2>3 DEF seen, rates
<1>4. /\ DOMAIN b = Fields /\ \A f \in Fields \ Metering : b[f] = h[f]
      /\ b.held = h.held /\ b.unproved = h.unproved \cup {m} /\ b.offer = rate
      /\ b.seen = [h.seen EXCEPT ![m] = first] /\ b.rate = [h.rate EXCEPT ![m] = high]
  <2>1. b = [h EXCEPT !.unproved = h.unproved \cup {m}, !.rate = [h.rate EXCEPT ![m] = high], !.offer = rate,
                      !.seen = [h.seen EXCEPT ![m] = first]]
    BY <1>2 DEF WithUnproved, Fields
  <2> DEFINE seen == [h.seen EXCEPT ![m] = first]
             rates == [h.rate EXCEPT ![m] = high]
  <2> HIDE DEF seen, rates, high, first
  <2>2. b = [h EXCEPT !.unproved = h.unproved \cup {m}, !.rate = rates, !.offer = rate, !.seen = seen]
    BY <2>1 DEF seen, rates
  <2> HIDE DEF b
  <2>3. /\ DOMAIN b = Fields /\ \A f \in Fields \ Metering : b[f] = h[f]
        /\ b.held = h.held /\ b.unproved = h.unproved \cup {m} /\ b.offer = rate
        /\ b.seen = seen /\ b.rate = rates
    BY <1>2, <2>2 DEF Fields, Metering
  <2> QED BY <2>3 DEF seen, rates
<1>5. \/ h' = AfterEvent(a)
      \/ m \notin h.held /\ (h' = AfterEvent(b) \/ h' = Stopping(b))
  BY DEF NextEvent, e, m, rate
<1> HIDE DEF a, b, more, high, first
<1>6. CASE h' = AfterEvent(a)
  <2>1. h' = [a EXCEPT !.handled = h.handled + 1, !.pc = place]
    BY <1>3, <1>6 DEF AfterEvent, place, Fields, Metering
  <2>2. Goes(place, Metering \cup {"handled"}) /\ h'.handled = h.handled + 1
    BY <1>3, <2>1 DEF Goes, Fields, Metering
  <2>3. h'.held = a.held /\ h'.unproved = a.unproved /\ h'.offer = a.offer /\ h'.seen = a.seen /\ h'.rate = a.rate
    BY <1>3, <2>1 DEF Fields
  <2>4. Holds(m)
    BY <1>1, <1>3, <2>3 DEF Holds
  <2> QED BY <2>2, <2>4 DEF e, m, place
<1>7. CASE m \notin h.held /\ h' = AfterEvent(b)
  <2>1. h' = [b EXCEPT !.handled = h.handled + 1, !.pc = place]
    BY <1>4, <1>7 DEF AfterEvent, place, Fields, Metering
  <2>2. Goes(place, Metering \cup {"handled"}) /\ h'.handled = h.handled + 1
    BY <1>4, <2>1 DEF Goes, Fields, Metering
  <2>3. h'.held = b.held /\ h'.unproved = b.unproved /\ h'.offer = b.offer /\ h'.seen = b.seen /\ h'.rate = b.rate
    BY <1>4, <2>1 DEF Fields
  <2>4. Doubts(m)
    BY <1>1, <1>4, <1>7, <2>3 DEF Doubts
  <2> QED BY <2>2, <2>4 DEF e, m, place
<1>8. CASE m \notin h.held /\ h' = Stopping(b)
  <2> DEFINE out == IF h.known THEN "interrupted" ELSE "tidy"
  <2>1. h' = [b EXCEPT !.stopped = TRUE, !.pc = out]
    BY <1>4, <1>8 DEF Stopping, Fields, Metering
  <2> HIDE DEF out
  <2>2. Goes(out, Metering \cup {"stopped"}) /\ h'.stopped = TRUE
    BY <1>4, <2>1 DEF Goes, Fields, Metering
  <2>3. h'.held = b.held /\ h'.unproved = b.unproved /\ h'.offer = b.offer /\ h'.seen = b.seen /\ h'.rate = b.rate
    BY <1>4, <2>1 DEF Fields
  <2>4. Doubts(m)
    BY <1>1, <1>4, <1>8, <2>3 DEF Doubts
  <2>5. Aborts(Metering)
    BY <2>2 DEF Aborts, Goes, Fields, Metering, out
  <2> QED BY <2>4, <2>5 DEF e, m
<1> QED BY <1>5, <1>6, <1>7, <1>8

LEMMA RoundTooLateEffect ==
    ASSUME DOMAIN h = Fields, RoundTooLate PROVE Goes("cancel", {"limit"})
  BY DEF RoundTooLate, Limited, Goes, Fields

LEMMA MeterEffect ==
    ASSUME Shape, Meter
    PROVE  /\ \/ Goes("look", {"rate", "ready"}) /\ ~(now' >= h.until)
              \/ Goes("cancel", {"rate", "ready", "limit"})
           /\ h'.rate \in [Machines -> Nat]
<1>1. PICK listed \in SUBSET (up \cap (h.held \cup h.unproved)), ready \in {h.ready} \cup {h.held \cap up # {}} :
        LET r == [h EXCEPT !.rate = Observed(h.rate, listed), !.ready = h.ready \/ ready, !.pc = "look"]
        IN  (h' = r /\ ~(now' >= h.until)) \/ h' = Limited(r)
  BY ZenonT(60) DEF Meter
<1> DEFINE rates == Observed(h.rate, listed)
           seen  == h.ready \/ ready
           r     == [h EXCEPT !.rate = rates, !.ready = seen, !.pc = "look"]
<1>2. DOMAIN h = Fields /\ h.rate \in [Machines -> Nat] /\ Ceiling \in Nat
  BY Limits DEF Shape, HarnessShape, Ceiling, Least
<1>3. rates \in [Machines -> Nat]
  BY <1>2 DEF Observed, Greatest
<1>4. (h' = r /\ ~(now' >= h.until)) \/ h' = [r EXCEPT !.limit = TRUE, !.pc = "cancel"]
  BY <1>1 DEF Limited
<1> HIDE DEF rates, seen
<1>5. CASE h' = r /\ ~(now' >= h.until)
  BY <1>2, <1>3, <1>5 DEF Goes, Fields
<1>6. CASE h' = [r EXCEPT !.limit = TRUE, !.pc = "cancel"]
  BY <1>2, <1>3, <1>6 DEF Goes, Fields
<1> QED BY <1>4, <1>5, <1>6

\* The loop goes on, or ends with its job.
Returns(fields) ==
    /\ DOMAIN h' = Fields /\ h'.pc \in {"tidy", "pause"}
    /\ h'.pc = "tidy" => h'.status \in Ended
    /\ \A f \in Fields \ (fields \cup {"pc"}) : h'[f] = h[f]

LEMMA LookEffect ==
    ASSUME DOMAIN h = Fields, Look
    PROVE  /\ h'.status = job[h.n]
           /\ \/ Returns({"status"}) /\ ~(now' >= h.until)
              \/ /\ Goes("inject", {"status"}) /\ ~(now' >= h.until)
                 /\ Scenario.fault # "none" /\ h.injected = "no"
              \/ Goes("cancel", {"status", "limit"})
<1> DEFINE s == job[h.n]
           r == [h EXCEPT !.status = s]
           place == IF r.status \in Ended THEN "tidy" ELSE "pause"
<1>1. \/ h' = AfterLook(r) /\ ~(now' >= h.until)
      \/ h' = [r EXCEPT !.pc = "inject"] /\ ~(now' >= h.until) /\ Scenario.fault # "none" /\ h.injected = "no"
      \/ h' = Limited(r)
  <2>1. r.injected = h.injected
    BY DEF Fields
  <2> QED BY <2>1 DEF Look
<1> HIDE DEF s
<1>2. CASE h' = AfterLook(r) /\ ~(now' >= h.until)
  <2>1. h' = [r EXCEPT !.pc = place]
    BY <1>2 DEF AfterLook
  <2>2. r.status = s
    BY DEF Fields
  <2> HIDE DEF place
  <2>3. Goes(place, {"status"}) /\ h'.status = s
    BY <2>1 DEF Goes, Fields
  <2> QED BY <1>2, <2>2, <2>3 DEF Returns, Goes, place, s
<1>3. CASE h' = [r EXCEPT !.pc = "inject"] /\ ~(now' >= h.until) /\ Scenario.fault # "none" /\ h.injected = "no"
  <2>1. Goes("inject", {"status"}) /\ h'.status = s
    BY <1>3 DEF Goes, Fields
  <2> QED BY <1>3, <2>1 DEF s
<1>4. CASE h' = Limited(r)
  <2>1. Goes("cancel", {"status", "limit"}) /\ h'.status = s
    BY <1>4 DEF Limited, Goes, Fields
  <2> QED BY <2>1 DEF s
<1> QED BY <1>1, <1>2, <1>3, <1>4

LEMMA PauseEffect ==
    ASSUME DOMAIN h = Fields, Pause PROVE Goes("poll", {})
  BY DEF Pause, Goes, Fields

LEMMA CancelJobEffect ==
    ASSUME DOMAIN h = Fields, CancelJob
    PROVE  (Cancelled /\ Goes("tidy", {})) \/ ((Cancelled \/ UNCHANGED job) /\ Aborts({}))
<1>1. ASSUME h' = [h EXCEPT !.pc = "tidy"] PROVE Goes("tidy", {})
  BY <1>1 DEF Goes, Fields
<1> QED BY <1>1, FailingAborts DEF CancelJob

LEMMA CancelInterruptedEffect ==
    ASSUME DOMAIN h = Fields, CancelInterrupted PROVE Goes("tidy", {})
  BY DEF CancelInterrupted, Goes, Fields

LEMMA CallFailsEffect ==
    ASSUME DOMAIN h = Fields, CallFails \/ CanaryKilled PROVE Aborts({})
  BY FailingAborts DEF CallFails, CanaryKilled

LEMMA InterruptedEffect ==
    ASSUME DOMAIN h = Fields, Interrupted PROVE Aborts({})
  BY StoppingAborts DEF Interrupted

\* The fault was injected, or was not.
LEMMA AfterLookReturns ==
    ASSUME DOMAIN h = Fields, h' = AfterLook(h) PROVE Returns({})
  BY DEF AfterLook, Returns, Goes, Fields

LEMMA InjectedReturns ==
    ASSUME DOMAIN h = Fields, NEW outcome, h' = Injected(outcome)
    PROVE  Returns({"injected"}) /\ h'.injected = outcome
<1> DEFINE place == IF h.status \in Ended THEN "tidy" ELSE "pause"
<1>1. h' = [[h EXCEPT !.injected = outcome] EXCEPT !.pc = place]
  BY DEF Injected, AfterLook, Fields
<1> HIDE DEF place
<1>2. Goes(place, {"injected"}) /\ h'.injected = outcome /\ h'.status = h.status
  BY <1>1 DEF Goes, Fields
<1> QED BY <1>2 DEF Returns, Goes, place

LEMMA InjectEffect ==
    ASSUME DOMAIN h = Fields, Inject
    PROVE  /\ Returns({"injected"}) \/ Aborts({})
           /\ UNCHANGED job \/ Cancelled
           /\ up' \subseteq up
<1>1. \/ \E outcome \in {"done", "failed"} : h' = Injected(outcome)
      \/ h' = Failing(h) \/ h' = Stopping(h)
      \/ h' = AfterLook(h)
  BY DEF Inject, Broken
<1>2. (UNCHANGED job \/ Cancelled) /\ up' \subseteq up
  BY DEF Inject, SameMachines
<1>3. Returns({}) => Returns({"injected"})
  BY DEF Returns, Goes
<1> QED BY <1>1, <1>2, <1>3, InjectedReturns, FailingAborts, StoppingAborts, AfterLookReturns

LEMMA ReadOriginalEffect ==
    ASSUME DOMAIN h = Fields, ReadOriginal
    PROVE  \/ Returns({"injected"}) /\ h'.injected = "failed"
           \/ Goes("faultSet", {"original", "until"}) /\ h'.original = config /\ h'.until = CallsEnd(1)
           \/ Aborts({})
<1> DEFINE end == CallsEnd(1)
<1> HIDE DEF end
<1>1. ASSUME h' = [h EXCEPT !.original = config, !.until = end, !.pc = "faultSet"]
      PROVE  Goes("faultSet", {"original", "until"}) /\ h'.original = config /\ h'.until = end
  BY <1>1 DEF Goes, Fields
<1>2. h' \in {Injected("failed"), [h EXCEPT !.original = config, !.until = end, !.pc = "faultSet"],
              Failing(h), Stopping(h)}
  BY DEF ReadOriginal, Broken, end
<1>3. end = CallsEnd(1)
  BY DEF end
<1> QED BY <1>1, <1>2, <1>3, InjectedReturns, FailingAborts, StoppingAborts

LEMMA SetFaultEffect ==
    ASSUME DOMAIN h = Fields, SetFault
    PROVE  \/ config' = "fault" /\ Goes("faultWait", {})
           \/ config' \in {"fault", config} /\ Returns({"injected"}) /\ h'.injected = "failed"
<1>1. ASSUME h' = [h EXCEPT !.pc = "faultWait"] PROVE Goes("faultWait", {})
  BY <1>1 DEF Goes, Fields
<1> QED BY <1>1, InjectedReturns DEF SetFault, Posted

LEMMA AwaitFaultEffect ==
    ASSUME DOMAIN h = Fields, AwaitFault
    PROVE  Goes("faultRead", {"injected"}) /\ h'.injected \in {"done", "failed"}
  BY DEF AwaitFault, Goes, Fields

LEMMA ReadFaultEffect ==
    ASSUME DOMAIN h = Fields, ReadFault
    PROVE  \/ \E place \in {"faultUndo", "faultCheck"} : Goes(place, {})
           \/ Returns({"injected"}) /\ h'.injected = "failed"
<1>1. \/ h' = [h EXCEPT !.pc = "faultUndo"] \/ h' = [h EXCEPT !.pc = "faultCheck"] \/ h' = Injected("failed")
  BY DEF ReadFault
<1>2. ASSUME NEW place, h' = [h EXCEPT !.pc = place] PROVE Goes(place, {})
  BY <1>2 DEF Goes, Fields
<1> QED BY <1>1, <1>2, InjectedReturns

LEMMA UndoFaultEffect ==
    ASSUME DOMAIN h = Fields, UndoFault
    PROVE  \/ config' = h.original /\ Goes("faultCheck", {})
           \/ config' \in {h.original, config} /\ Returns({"injected"}) /\ h'.injected = "failed"
<1>1. ASSUME h' = [h EXCEPT !.pc = "faultCheck"] PROVE Goes("faultCheck", {})
  BY <1>1 DEF Goes, Fields
<1> QED BY <1>1, InjectedReturns DEF UndoFault, Posted

LEMMA CheckFaultEffect ==
    ASSUME DOMAIN h = Fields, CheckFault
    PROVE  Returns({"injected"}) /\ (h'.injected = "failed" \/ (config = h.original /\ h'.injected = h.injected))
  BY InjectedReturns DEF CheckFault

\* The clean-ups.
LEMMA TidyEffect ==
    ASSUME DOMAIN h = Fields, Tidy
    PROVE  /\ Goes("stop", {"whole", "todo", "absent", "at", "until", "cursor", "ready", "offer",
                            "original", "tidied", "stopped"})
           /\ h'.whole = FALSE /\ h'.todo = h.held /\ h'.absent = {} /\ (h.stopped => h'.stopped)
           /\ h'.at = 0 /\ h'.until = 0 /\ h'.cursor = 0 /\ h'.offer = 0 /\ h'.original = "first"
<1>1. PICK tidied \in {"no", "done", "failed"}, cut \in BOOLEAN :
        h' = [h EXCEPT !.pc = "stop", !.whole = FALSE, !.todo = h.held, !.absent = {},
                       !.tidied = tidied, !.stopped = h.stopped \/ cut, !.at = 0, !.until = 0,
                       !.cursor = 0, !.ready = FALSE, !.offer = 0, !.original = "first"]
  BY DEF Tidy
<1> DEFINE held  == h.held
           stops == h.stopped \/ cut
<1>2. h.stopped => stops
  OBVIOUS
<1> HIDE DEF held, stops
<1>3. h' = [h EXCEPT !.pc = "stop", !.whole = FALSE, !.todo = held, !.absent = {},
                     !.tidied = tidied, !.stopped = stops, !.at = 0, !.until = 0,
                     !.cursor = 0, !.ready = FALSE, !.offer = 0, !.original = "first"]
  BY <1>1 DEF held, stops
<1>4. /\ Goes("stop", {"whole", "todo", "absent", "at", "until", "cursor", "ready", "offer",
                       "original", "tidied", "stopped"})
      /\ h'.whole = FALSE /\ h'.todo = held /\ h'.absent = {} /\ h'.stopped = stops
      /\ h'.at = 0 /\ h'.until = 0 /\ h'.cursor = 0 /\ h'.offer = 0 /\ h'.original = "first"
  BY <1>3 DEF Goes, Fields
<1> QED BY <1>2, <1>4 DEF held

LEMMA StopMachinesEffect ==
    ASSUME DOMAIN h = Fields, StopMachines
    PROVE  /\ \E place \in {"prove", "recheck"} : Goes(place, {"until", "stopped"})
           /\ h'.until = now + CleanupTime /\ (h.stopped => h'.stopped)
           /\ up' \subseteq up
<1>1. PICK list \in Listing, cut \in BOOLEAN :
        h' = [h EXCEPT !.until = now + CleanupTime, !.stopped = h.stopped \/ cut,
                       !.pc = IF h.todo = {} THEN "prove" ELSE "recheck"]
  BY DEF StopMachines
<1> DEFINE until == now + CleanupTime
           stops == h.stopped \/ cut
           place == IF h.todo = {} THEN "prove" ELSE "recheck"
<1>2. h' = [h EXCEPT !.until = until, !.stopped = stops, !.pc = place]
  BY <1>1
<1>3. place \in {"prove", "recheck"} /\ (h.stopped => stops)
  OBVIOUS
<1>4. up' \subseteq up
  BY DEF StopMachines, Terminate
<1> HIDE DEF until, stops, place
<1>5. Goes(place, {"until", "stopped"}) /\ h'.until = until /\ h'.stopped = stops
  BY <1>2 DEF Goes, Fields
<1> QED BY <1>3, <1>4, <1>5 DEF until

LEMMA RecheckEffect ==
    ASSUME DOMAIN h = Fields, Recheck
    PROVE  (\E place \in {"prove", "recheck"} : Goes(place, {})) /\ up' \subseteq up
<1>1. PICK list \in Listing :
        /\ h' = [h EXCEPT !.pc = IF h.todo \ list.absent = {} THEN "prove" ELSE "recheck"]
        /\ Terminate(h.todo \ list.absent)
  BY DEF Recheck, Retries
<1> DEFINE place == IF h.todo \ list.absent = {} THEN "prove" ELSE "recheck"
<1>2. h' = [h EXCEPT !.pc = place] /\ place \in {"prove", "recheck"}
  BY <1>1
<1>3. up' \subseteq up
  BY <1>1 DEF Terminate
<1> HIDE DEF place
<1>4. Goes(place, {})
  BY <1>2 DEF Goes, Fields
<1> QED BY <1>2, <1>3, <1>4

LEMMA ProveAbsentEffect ==
    ASSUME DOMAIN h = Fields, ProveAbsent, h.todo \subseteq Machines
    PROVE  /\ Goes(AfterCleanup, {"absent", "audit", "restored", "until"})
           /\ h'.restored = (h.previous = "unsaved") /\ h'.until = 0
           /\ h'.absent \subseteq Machines /\ (h'.audit \/ h'.absent \cap up = {})
<1>1. PICK list \in Listing :
        h' = [h EXCEPT !.absent = list.absent, !.audit = list.error, !.pc = AfterCleanup,
                       !.restored = h.previous = "unsaved", !.until = 0]
  BY DEF ProveAbsent
<1> DEFINE gone  == list.absent
           fails == list.error
           place == AfterCleanup
           back  == h.previous = "unsaved"
<1>2. gone \subseteq Machines /\ (fails \/ gone \cap up = {})
  BY DEF Listing
<1>3. h' = [h EXCEPT !.absent = gone, !.audit = fails, !.pc = place, !.restored = back, !.until = 0]
  BY <1>1
<1> HIDE DEF gone, fails, place, back
<1>4. /\ Goes(place, {"absent", "audit", "restored", "until"})
      /\ h'.absent = gone /\ h'.audit = fails /\ h'.restored = back /\ h'.until = 0
  BY <1>3 DEF Goes, Fields
<1> QED BY <1>2, <1>4 DEF place, back

LEMMA ReadBackEffect ==
    ASSUME DOMAIN h = Fields, ReadBack
    PROVE  \E place \in {"result", "verify", "putback"} : Goes(place, {})
<1>1. \E place \in {"result", "verify", "putback"} : h' = [h EXCEPT !.pc = place]
  BY DEF ReadBack, NotRestored
<1> QED BY <1>1 DEF Goes, Fields

LEMMA PutBackEffect ==
    ASSUME DOMAIN h = Fields, PutBack
    PROVE  \/ config' = h.previous /\ Goes("verify", {})
           \/ config' \in {h.previous, config} /\ Goes("result", {})
<1>1. ASSUME NEW place, h' = [h EXCEPT !.pc = place] PROVE Goes(place, {})
  BY <1>1 DEF Goes, Fields
<1> QED BY <1>1 DEF PutBack, Posted, NotRestored

LEMMA VerifyRestoredEffect ==
    ASSUME DOMAIN h = Fields, VerifyRestored
    PROVE  Goes("result", {"restored"}) /\ (h'.restored = h.restored \/ h'.restored = (config = h.previous))
<1> DEFINE back == config = h.previous
<1>1. h' = [h EXCEPT !.pc = "result"] \/ h' = [h EXCEPT !.pc = "result", !.restored = back]
  BY DEF VerifyRestored, NotRestored
<1> HIDE DEF back
<1>2. CASE h' = [h EXCEPT !.pc = "result"]
  BY <1>2 DEF Goes, Fields
<1>3. CASE h' = [h EXCEPT !.pc = "result", !.restored = back]
  <2>1. Goes("result", {"restored"}) /\ h'.restored = back
    BY <1>3 DEF Goes, Fields
  <2> QED BY <2>1 DEF back
<1> QED BY <1>1, <1>2, <1>3

\* The ends of a scenario and of the campaign.
LEMMA ScenarioResultEffect ==
    ASSUME DOMAIN h = Fields, ScenarioResult
    PROVE  \E status \in {h.status, job[h.n]} :
             LET passed == ScenarioPassed(IF h.status \in Ended THEN h.status ELSE status)
             IN  /\ results' = Append(results, Record(passed))
                 /\ DOMAIN h' = Fields /\ h'.pc = "next" /\ UNCHANGED <<h.n, h.whole, h.until>>
                 /\ h'.abort = ~passed
                 /\ h'.started = 0 /\ h'.at = 0 /\ h'.cursor = 0 /\ h'.handled = 0 /\ h'.held = {} /\ h'.unproved = {}
                 /\ h'.rate = [m \in Machines |-> 0] /\ h'.seen = [m \in Machines |-> 0] /\ h'.offer = 0
                 /\ h'.previous = "unsaved" /\ h'.original = "first" /\ h'.todo = {} /\ h'.absent = {}
<1>1. PICK status \in {h.status, job[h.n]}, manifest \in BOOLEAN :
        LET passed == ScenarioPassed(IF h.status \in Ended THEN h.status ELSE status)
            cost   == ScenarioCostEstimate
        IN  /\ results' = Append(results, Record(passed))
            /\ h' = Forgetting([h EXCEPT !.pc = "next", !.spent = h.spent + cost, !.abort = ~passed,
                                         !.base = BaseAfter(passed, manifest)])
  BY DEF ScenarioResult
<1> DEFINE passed == ScenarioPassed(IF h.status \in Ended THEN h.status ELSE status)
           fails == ~passed
           spent == h.spent + ScenarioCostEstimate
           base == BaseAfter(passed, manifest)
           r == [h EXCEPT !.pc = "next", !.spent = spent, !.abort = fails, !.base = base]
<1>2. results' = Append(results, Record(passed)) /\ h' = Forgetting(r)
  BY <1>1
<1> HIDE DEF passed, spent, base, fails
<1>3. r.pc = "next" /\ r.n = h.n /\ r.whole = h.whole /\ r.until = h.until /\ r.abort = fails
  BY DEF Fields
<1> HIDE DEF r
<1>4. DOMAIN h' = Fields
  BY <1>2 DEF Forgetting, Fields
<1>5. /\ h'.pc = r.pc /\ h'.n = r.n /\ h'.whole = r.whole /\ h'.until = r.until /\ h'.abort = r.abort
      /\ h'.started = 0 /\ h'.at = 0 /\ h'.cursor = 0 /\ h'.handled = 0 /\ h'.held = {} /\ h'.unproved = {}
      /\ h'.rate = [m \in Machines |-> 0] /\ h'.seen = [m \in Machines |-> 0] /\ h'.offer = 0
      /\ h'.previous = "unsaved" /\ h'.original = "first" /\ h'.todo = {} /\ h'.absent = {}
  BY <1>2 DEF Forgetting
<1>6. h'.abort = ~passed
  BY <1>3, <1>5 DEF fails
<1> QED BY <1>2, <1>3, <1>4, <1>5, <1>6 DEF passed

LEMMA DependentFailureEffect ==
    ASSUME DOMAIN h = Fields, DependentFailure
    PROVE  Goes("next", {"abort"}) /\ h'.abort = TRUE
  BY DEF DependentFailure, Goes, Fields

LEMMA ScorecardEffect ==
    ASSUME DOMAIN h = Fields, Scorecard PROVE Goes("ended", {})
  BY DEF Scorecard, Goes, Fields

\* What is appended to the results.
LEMMA Appending ==
    ASSUME Shape, NEW r, results' = Append(results, r)
    PROVE  /\ results' \in Seq({results'[i] : i \in DOMAIN results'})
           /\ \A i \in DOMAIN results' : (i \in DOMAIN results /\ results'[i] = results[i]) \/ results'[i] = r
           /\ \A i \in DOMAIN results : i \in DOMAIN results' /\ results'[i] = results[i]
           /\ \E i \in DOMAIN results' : results'[i] = r
<1> DEFINE all == {results[i] : i \in DOMAIN results}
           S == all \cup {r}
<1>1. results \in Seq(S)
  <2>1. results \in Seq(all)
    BY DEF Shape, ResultsShape
  <2> HIDE DEF all
  <2> QED BY <2>1
<1> HIDE DEF S
<1>2. r \in S
  BY DEF S
<1>3. /\ Append(results, r) \in Seq(S) /\ Len(Append(results, r)) = Len(results) + 1
      /\ \A i \in 1..Len(results) : Append(results, r)[i] = results[i]
      /\ Append(results, r)[Len(results) + 1] = r
  BY <1>1, <1>2, AppendProperties
<1>4. DOMAIN results = 1..Len(results) /\ DOMAIN results' = 1..(Len(results) + 1) /\ Len(results) \in Nat
  BY <1>1, <1>3
<1>5. results' \in Seq({results'[i] : i \in DOMAIN results'})
  BY <1>3, <1>4
<1> QED BY <1>3, <1>4, <1>5

\* What is recorded of a scenario that was run and of one that was not.
LEMMA ScenarioRecord ==
    ASSUME ScenarioResult
    PROVE  \E r : /\ results' = Append(results, r)
                  /\ r.n = h.n /\ r.known = h.known /\ r.error = h.error /\ r.stopped = h.stopped
                  /\ r.handled = h.handled /\ r.held = h.held /\ r.unproved = h.unproved
                  /\ r.undercharged = Undercharged /\ r.live = (job[h.n] = "live")
<1>1. PICK passed : results' = Append(results, Record(passed))
  BY DEF ScenarioResult
<1> DEFINE less == Undercharged
           live == job[h.n] = "live"
<1>2. /\ Record(passed).n = h.n /\ Record(passed).known = h.known /\ Record(passed).error = h.error
      /\ Record(passed).stopped = h.stopped /\ Record(passed).handled = h.handled
      /\ Record(passed).held = h.held /\ Record(passed).unproved = h.unproved
      /\ Record(passed).undercharged = less /\ Record(passed).live = live
  BY DEF Record
<1> QED BY <1>1, <1>2

LEMMA DependentRecord ==
    ASSUME DependentFailure
    PROVE  \E r : /\ results' = Append(results, r)
                  /\ r.n = h.n /\ r.known = FALSE /\ r.error = TRUE
                  /\ r.handled = 0 /\ r.held = {} /\ r.unproved = {} /\ r.undercharged = FALSE
  BY DEF DependentFailure

\* The clock moves, and the rent of the scenario's machines with it.
Elapses == \E d \in Nat : Lasts(d)

HarnessMoves ==
    /\ UNCHANGED <<campaign, chosen, served, journal>>
    /\ config' \in Settings
    /\ job' = job \/ (Inside /\ (Cancelled \/ job' = [job EXCEPT ![h.n] = "live"]))
    /\ up' \subseteq up
    /\ Still \/ Elapses \/ ScenarioResult
    /\ ScenarioResult \/ DependentFailure \/ UNCHANGED results

LEMMA TakesElapses == \A t : Takes(t) => Elapses
  BY DEF Takes, Elapses

LEMMA TakesClock ==
    ASSUME now \in Nat, NEW t \in Int, Takes(t)
    PROVE  now' \in Nat /\ now <= now' /\ now' <= t
  BY DEF Takes, Lasts

LEMMA ElapsesClock ==
    ASSUME now \in Nat, rent \in [Machines -> Nat], Still \/ Elapses
    PROVE  /\ now' \in Nat /\ now <= now' /\ rent' \in [Machines -> Nat]
           /\ \A m \in Machines : rent'[m] <= rent[m] + (now' - now)
           /\ Rented = {} => \A m \in Machines : rent'[m] = rent[m]
<1>1. CASE Still
  BY <1>1 DEF Still
<1>2. CASE Elapses
  <2>1. PICK d \in Nat : Lasts(d)
    BY <1>2 DEF Elapses
  <2>2. now' = now + d /\ rent' = [m \in Machines |-> IF m \in Rented THEN rent[m] + d ELSE rent[m]]
    BY <2>1 DEF Lasts
  <2> QED BY <2>2
<1> QED BY <1>1, <1>2

-----------------------------------------------------------------------------
(* Frames: where the harness is, and what the step leaves alone *)

LEMMA StartFrame == Start => h.pc = "start" /\ Takes(CampaignTime) /\ SameWorld /\ Recorded
  BY DEF Start

LEMMA NextScenarioFrame == NextScenario => h.pc = "next" /\ SameWorld /\ Still /\ Recorded
  BY DEF NextScenario

LEMMA AwaitQuietFrame == AwaitQuiet => h.pc = "quiet" /\ (Still \/ Lasts(1)) /\ SameWorld /\ Recorded
  BY DEF AwaitQuiet

LEMMA BeginScenarioFrame == BeginScenario => h.pc = "begin" /\ Takes(now + ReadyTime) /\ SameWorld /\ Recorded
  BY DEF BeginScenario

LEMMA ReadSettingFrame == ReadSetting => h.pc = "prepare" /\ Takes(CallsEnd(1)) /\ SameWorld /\ Recorded
  BY DEF ReadSetting

LEMMA ApplySettingFrame ==
    ApplySetting =>
      h.pc = "apply"
      /\ UNCHANGED <<campaign, chosen>> /\ SameJobs /\ SameMachines /\ Takes(CallsEnd(1)) /\ Recorded
  BY DEF ApplySetting

LEMMA ConfirmSettingFrame == ConfirmSetting => h.pc = "confirm" /\ Takes(CallsEnd(1)) /\ SameWorld /\ Recorded
  BY DEF ConfirmSetting

LEMMA ArmHookFrame == ArmHook => h.pc = "arm" /\ Takes(CallsEnd(1)) /\ SameWorld /\ Recorded
  BY DEF ArmHook

LEMMA SubmitFrame ==
    Submit =>
      h.pc = "submit" /\ now < ReadyDeadline
      /\ ((Takes(ReadyDeadline) /\ h' \in {Failing(h), Stopping(h)}) \/ Takes(ReadyDeadline - 1 + campaign.calls))
      /\ SameConfig /\ UNCHANGED <<served, journal>> /\ SameMachines /\ Recorded
  BY DEF Submit

LEMMA SubmitTooLateFrame == SubmitTooLate => h.pc = "submit" /\ SameWorld /\ Still /\ Recorded
  BY DEF SubmitTooLate

LEMMA ReadEventsFrame == ReadEvents => h.pc = "poll" /\ now < Deadline /\ Takes(Deadline) /\ SameWorld /\ Recorded
  BY DEF ReadEvents

LEMMA NextEventFrame == NextEvent => h.pc = "events" /\ (Still \/ Takes(CallsEnd(1))) /\ SameWorld /\ Recorded
  BY DEF NextEvent

LEMMA RoundTooLateFrame ==
    RoundTooLate =>
      h.pc \in {"poll", "meter"} /\ SameWorld /\ Still /\ Recorded
  BY DEF RoundTooLate

LEMMA MeterFrame == Meter => h.pc = "meter" /\ now < h.until /\ Takes(h.until) /\ SameWorld /\ Recorded
  BY DEF Meter

LEMMA LookFrame == Look => h.pc = "look" /\ Takes(h.until) /\ SameWorld /\ Recorded
  BY DEF Look

LEMMA PauseFrame ==
    Pause => h.pc = "pause" /\ (Lasts(0) \/ (now < Deadline /\ Lasts(1))) /\ SameWorld /\ Recorded
  BY DEF Pause

LEMMA CancelJobFrame ==
    CancelJob =>
      h.pc = "cancel"
      /\ SameConfig /\ UNCHANGED <<served, journal>> /\ SameMachines /\ Takes(CallsEnd(1)) /\ Recorded
  BY DEF CancelJob

LEMMA CancelInterruptedFrame ==
    CancelInterrupted =>
      h.pc = "interrupted"
      /\ (Cancelled \/ UNCHANGED job) /\ SameConfig /\ UNCHANGED <<served, journal>>
      /\ SameMachines /\ Takes(CallsEnd(1)) /\ Recorded
  BY DEF CancelInterrupted

LEMMA CallFailsFrame ==
    CallFails =>
      h.pc \in {"prepare", "confirm", "poll", "meter", "look"}
      /\ Takes(Patience) /\ SameWorld /\ Recorded
  BY DEF CallFails

LEMMA InterruptedFrame ==
    Interrupted =>
      h.pc \in {"prepare", "apply", "confirm"} \cup FaultSteps \cup (Rounds \ {"inject"})
      /\ Takes(Patience) /\ SameWorld /\ Recorded
  BY DEF Interrupted

LEMMA InjectFrame ==
    Inject =>
      h.pc = "inject"
      /\ Takes(CallsEnd(IF Scenario.fault = "provider" THEN Cardinality(h.held) ELSE 1))
      /\ SameConfig /\ UNCHANGED <<served, journal>> /\ Recorded
  BY DEF Inject

LEMMA ReadOriginalFrame == ReadOriginal => h.pc = "inject" /\ Takes(CallsEnd(1)) /\ SameWorld /\ Recorded
  BY DEF ReadOriginal

LEMMA SetFaultFrame ==
    SetFault =>
      h.pc = "faultSet"
      /\ UNCHANGED <<campaign, chosen>> /\ SameJobs /\ SameMachines /\ Takes(Patience) /\ Recorded
  BY DEF SetFault

LEMMA AwaitFaultFrame == AwaitFault => h.pc = "faultWait" /\ Takes(Patience) /\ SameWorld /\ Recorded
  BY DEF AwaitFault

LEMMA ReadFaultFrame == ReadFault => h.pc = "faultRead" /\ Takes(Patience) /\ SameWorld /\ Recorded
  BY DEF ReadFault

LEMMA UndoFaultFrame ==
    UndoFault =>
      h.pc = "faultUndo"
      /\ UNCHANGED <<campaign, chosen>> /\ SameJobs /\ SameMachines /\ Takes(Patience) /\ Recorded
  BY DEF UndoFault

LEMMA CheckFaultFrame == CheckFault => h.pc = "faultCheck" /\ Takes(Patience) /\ SameWorld /\ Recorded
  BY DEF CheckFault

LEMMA CanaryKilledFrame == CanaryKilled => h.pc \in FaultSteps /\ Lasts(h.until - now) /\ SameWorld /\ Recorded
  BY DEF CanaryKilled

LEMMA TidyFrame ==
    Tidy => h.pc = "tidy" /\ (\E n \in 0..2 : Takes(Greatest(CallsEnd(n), Deadline))) /\ SameWorld /\ Recorded
  BY DEF Tidy

LEMMA StopMachinesFrame ==
    StopMachines =>
      h.pc = "stop" /\ SameConfig /\ SameJobs /\ Recorded
      /\ \E pending \in SUBSET h.todo, listed \in {CleanupTime, CleanupTime - 1} :
            Takes(CallsEnd(Cardinality(pending)) + listed)
  BY DEF StopMachines, Terminate

LEMMA RecheckFrame ==
    Recheck =>
      h.pc = "recheck" /\ now < h.until /\ SameConfig /\ SameJobs /\ Recorded
      /\ \E pending \in SUBSET h.todo : Takes(h.until + Cardinality(pending) * campaign.calls)
  BY DEF Recheck, Retries, Terminate

LEMMA ProveAbsentFrame ==
    ProveAbsent => h.pc \in {"prove", "recheck"} /\ Takes(Greatest(now, h.until)) /\ SameWorld /\ Recorded
  BY DEF ProveAbsent

LEMMA ReadBackFrame == ReadBack => h.pc = "restore" /\ Takes(CallsEnd(1)) /\ SameWorld /\ Recorded
  BY DEF ReadBack

LEMMA PutBackFrame ==
    PutBack =>
      h.pc = "putback"
      /\ UNCHANGED <<campaign, chosen>> /\ SameJobs /\ SameMachines /\ Takes(CallsEnd(1)) /\ Recorded
  BY DEF PutBack

LEMMA VerifyRestoredFrame == VerifyRestored => h.pc = "verify" /\ Takes(CallsEnd(1)) /\ SameWorld /\ Recorded
  BY DEF VerifyRestored

LEMMA ScenarioResultFrame ==
    ScenarioResult =>
      h.pc = "result"
      /\ (\E calls \in 0..4 : now' \in now..CallsEnd(calls)) /\ SameWorld /\ UNCHANGED score
      /\ rent' = [m \in Machines |-> 0]
<1> SUFFICES ASSUME ScenarioResult
             PROVE  h.pc = "result" /\ (\E calls \in 0..4 : now' \in now..CallsEnd(calls)) /\ SameWorld
                    /\ UNCHANGED score /\ rent' = [m \in Machines |-> 0]
  OBVIOUS
<1>1. PICK passed \in BOOLEAN :
        now' \in now..CallsEnd((IF h.known /\ h.status \notin Ended THEN 1 ELSE 0)
                                 + (IF passed /\ Scenario.cache # "failure" THEN 3 ELSE 0))
  BY DEF ScenarioResult, ScenarioPassed
<1> DEFINE calls == (IF h.known /\ h.status \notin Ended THEN 1 ELSE 0)
                      + (IF passed /\ Scenario.cache # "failure" THEN 3 ELSE 0)
<1>2. calls \in 0..4
  OBVIOUS
<1> HIDE DEF calls
<1>3. now' \in now..CallsEnd(calls)
  BY <1>1 DEF calls
<1> QED BY <1>2, <1>3 DEF ScenarioResult

LEMMA DependentFailureFrame == DependentFailure => h.pc = "begin" /\ SameWorld /\ Still /\ UNCHANGED score
  BY DEF DependentFailure

LEMMA ScorecardFrame == Scorecard => h.pc = "score" /\ SameWorld /\ Still /\ UNCHANGED results
  BY DEF Scorecard

LEMMA FieldNames ==
    {"pc", "n", "spent", "abort", "blind", "base", "started", "at", "until", "ready", "known",
     "status", "cursor", "handled", "held", "unproved", "rate", "seen", "offer", "limit", "error",
     "stopped", "injected", "hook", "tidied", "prepared", "previous", "original", "whole", "todo",
     "absent", "audit", "restored"} \subseteq Fields
  BY DEF Fields

-----------------------------------------------------------------------------
(* Every step of the harness keeps the invariant *)

\* What the harness can change of the world.
LEMMA HarnessKeeps ==
    ASSUME BenchInv, HarnessNext
    PROVE  HarnessMoves
<1> USE FieldNames, TakesElapses DEF HarnessMoves, Settings, SameWorld, SameConfig, SameJobs, SameMachines, Recorded
<1>1. Shape /\ DOMAIN h = Fields /\ h.todo \subseteq Machines /\ h.absent \subseteq Machines
  BY DEF BenchInv, Shape, HarnessShape
<1>2. config \in Settings /\ h.previous \in Settings \cup {"unsaved"} /\ h.original \in Settings
  BY DEF BenchInv, Shape, HarnessShape, WorldShape
<1>3. /\ h.pc = "putback" => h.previous # "unsaved"
      /\ \A d \in Nat : Lasts(d) => Elapses
  BY DEF BenchInv, SettingKnown, Elapses
<1>4. CASE Start
  BY <1>1, <1>2, <1>3, <1>4, StartFrame, StartEffect
<1>5. CASE NextScenario
  BY <1>1, <1>2, <1>3, <1>5, NextScenarioFrame, NextScenarioEffect
<1>6. CASE AwaitQuiet
  BY <1>1, <1>2, <1>3, <1>6, AwaitQuietFrame, AwaitQuietEffect
<1>7. CASE BeginScenario
  BY <1>1, <1>2, <1>3, <1>7, BeginScenarioFrame, BeginScenarioEffect
<1>8. CASE ReadSetting
  BY <1>1, <1>2, <1>3, <1>8, ReadSettingFrame, ReadSettingEffect
<1>9. CASE ApplySetting
  BY <1>1, <1>2, <1>3, <1>9, ApplySettingFrame, ApplySettingEffect
<1>10. CASE ConfirmSetting
  BY <1>1, <1>2, <1>3, <1>10, ConfirmSettingFrame, ConfirmSettingEffect
<1>11. CASE ArmHook
  BY <1>1, <1>2, <1>3, <1>11, ArmHookFrame, ArmHookEffect
<1>12. CASE Submit
  BY <1>1, <1>2, <1>3, <1>12, SubmitFrame, SubmitEffect DEF Inside, Looping, Before
<1>13. CASE SubmitTooLate
  BY <1>1, <1>2, <1>3, <1>13, SubmitTooLateFrame, SubmitTooLateEffect
<1>14. CASE ReadEvents
  BY <1>1, <1>2, <1>3, <1>14, ReadEventsFrame, ReadEventsEffect
<1>15. CASE NextEvent
  BY <1>1, <1>2, <1>3, <1>15, NextEventFrame, NextEventEffect
<1>16. CASE RoundTooLate
  BY <1>1, <1>2, <1>3, <1>16, RoundTooLateFrame, RoundTooLateEffect
<1>17. CASE Meter
  BY <1>1, <1>2, <1>3, <1>17, MeterFrame, MeterEffect
<1>18. CASE Look
  BY <1>1, <1>2, <1>3, <1>18, LookFrame, LookEffect
<1>19. CASE Pause
  BY <1>1, <1>2, <1>3, <1>19, PauseFrame, PauseEffect
<1>20. CASE CancelJob
  BY <1>1, <1>2, <1>3, <1>20, CancelJobFrame, CancelJobEffect DEF Inside, Looping, Rounds
<1>21. CASE CancelInterrupted
  BY <1>1, <1>2, <1>3, <1>21, CancelInterruptedFrame, CancelInterruptedEffect DEF Inside, Leaving
<1>22. CASE CallFails
  BY <1>1, <1>2, <1>3, <1>22, CallFailsFrame, CallFailsEffect
<1>23. CASE Interrupted
  BY <1>1, <1>2, <1>3, <1>23, InterruptedFrame, InterruptedEffect
<1>24. CASE Inject
  BY <1>1, <1>2, <1>3, <1>24, InjectFrame, InjectEffect DEF Inside, Looping, Rounds
<1>25. CASE ReadOriginal
  BY <1>1, <1>2, <1>3, <1>25, ReadOriginalFrame, ReadOriginalEffect
<1>26. CASE SetFault
  BY <1>1, <1>2, <1>3, <1>26, SetFaultFrame, SetFaultEffect
<1>27. CASE AwaitFault
  BY <1>1, <1>2, <1>3, <1>27, AwaitFaultFrame, AwaitFaultEffect
<1>28. CASE ReadFault
  BY <1>1, <1>2, <1>3, <1>28, ReadFaultFrame, ReadFaultEffect
<1>29. CASE UndoFault
  BY <1>1, <1>2, <1>3, <1>29, UndoFaultFrame, UndoFaultEffect
<1>30. CASE CheckFault
  BY <1>1, <1>2, <1>3, <1>30, CheckFaultFrame, CheckFaultEffect
<1>31. CASE CanaryKilled
  <2>1. h.until - now \in Nat
    BY <1>31, CanaryKilledFrame
       DEF BenchInv, Shape, WorldShape, HarnessShape, OnTime, Submitting, Before, Watching, Finishing, FaultSteps
  <2> QED BY <1>1, <1>2, <1>3, <1>31, <2>1, CanaryKilledFrame, CallFailsEffect
<1>32. CASE Tidy
  BY <1>1, <1>2, <1>3, <1>32, TidyFrame, TidyEffect
<1>33. CASE StopMachines
  BY <1>1, <1>2, <1>3, <1>33, StopMachinesFrame, StopMachinesEffect
<1>34. CASE Recheck
  BY <1>1, <1>2, <1>3, <1>34, RecheckFrame, RecheckEffect
<1>35. CASE ProveAbsent
  BY <1>1, <1>2, <1>3, <1>35, ProveAbsentFrame, ProveAbsentEffect
<1>36. CASE ReadBack
  BY <1>1, <1>2, <1>3, <1>36, ReadBackFrame, ReadBackEffect
<1>37. CASE PutBack
  BY <1>1, <1>2, <1>3, <1>37, PutBackFrame, PutBackEffect
<1>38. CASE VerifyRestored
  BY <1>1, <1>2, <1>3, <1>38, VerifyRestoredFrame, VerifyRestoredEffect
<1>39. CASE ScenarioResult
  BY <1>1, <1>2, <1>3, <1>39, ScenarioResultFrame, ScenarioResultEffect
<1>40. CASE DependentFailure
  BY <1>1, <1>2, <1>3, <1>40, DependentFailureFrame, DependentFailureEffect
<1>41. CASE Scorecard
  BY <1>1, <1>2, <1>3, <1>41, ScorecardFrame, ScorecardEffect
<1> QED
  BY <1>4, <1>5, <1>6, <1>7, <1>8, <1>9, <1>10, <1>11, <1>12, <1>13, <1>14, <1>15, <1>16, <1>17, 
     <1>18, <1>19, <1>20, <1>21, <1>22, <1>23, <1>24, <1>25, <1>26, <1>27, <1>28, <1>29, <1>30, 
     <1>31, <1>32, <1>33, <1>34, <1>35, <1>36, <1>37, <1>38, <1>39, <1>40, <1>41
     DEF HarnessNext

\* The world keeps its shape.
LEMMA Scaled ==
    ASSUME NEW n \in Nat, NEW m \in Nat, n <= m, NEW k \in Nat
    PROVE  n * k \in Nat /\ m * k \in Nat /\ n * k <= m * k
<1>1. n * k \in Nat /\ m * k \in Nat /\ (m - n) * k \in Nat
  OBVIOUS
<1>2. m * k = n * k + (m - n) * k
  OBVIOUS
<1> QED BY <1>1, <1>2

LEMMA CallsTyped == ASSUME WorldShape PROVE campaign.calls \in Nat
  BY CampaignsAssumption DEF WorldShape

LEMMA CallsEndTyped ==
    ASSUME WorldShape, NEW n \in Nat
    PROVE  CallsEnd(n) = now + n * campaign.calls /\ CallsEnd(n) \in Nat
<1>1. now \in Nat /\ n * campaign.calls \in Nat
  BY CallsTyped, Scaled DEF WorldShape
<1> QED BY <1>1 DEF CallsEnd

LEMMA WorldShapeKept ==
    ASSUME BenchInv, HarnessNext
    PROVE  WorldShape'
<1>1. WorldShape /\ HarnessMoves /\ (Inside => h.n \in ScenarioNo)
  BY HarnessKeeps DEF BenchInv, Shape, Numbered
<1>2. job' \in [ScenarioNo -> {"none", "live"} \cup Ended]
  BY <1>1 DEF WorldShape, HarnessMoves, Cancelled, Ended
<1>3. now' \in Nat /\ rent' \in [Machines -> Nat]
  <2>1. CASE Still \/ Elapses
    BY <1>1, <2>1, ElapsesClock DEF WorldShape
  <2>2. CASE ScenarioResult
    <3>1. PICK calls \in 0..4 : now' \in now..CallsEnd(calls)
      BY <2>2, ScenarioResultFrame
    <3>2. CallsEnd(calls) \in Nat /\ now \in Nat
      BY <1>1, CallsEndTyped DEF WorldShape
    <3>3. rent' = [m \in Machines |-> 0]
      BY <2>2, ScenarioResultFrame
    <3> QED BY <3>1, <3>2, <3>3, Zeros
  <2> QED BY <1>1, <2>1, <2>2 DEF HarnessMoves
<1> QED BY <1>1, <1>2, <1>3 DEF WorldShape, HarnessMoves

LEMMA ResultsShapeKept ==
    ASSUME BenchInv, HarnessNext
    PROVE  ResultsShape'
<1>1. Shape /\ ResultsShape /\ h.n \in 0..MaxScenarios
  BY DEF BenchInv, Shape, HarnessShape
<1>2. ASSUME NEW r, results' = Append(results, r), RecordShape(r)
      PROVE  ResultsShape'
  BY <1>1, <1>2, Appending DEF ResultsShape
<1>3. CASE ScenarioResult
  <2>1. h.n \in ScenarioNo
    BY <1>3, ScenarioResultFrame DEF BenchInv, Shape, Numbered, Inside, Leaving, PuttingBack
  <2> QED BY <1>1, <1>2, <1>3, <2>1, ScenarioRecord DEF RecordShape, Shape, HarnessShape
<1>4. CASE DependentFailure
  <2>1. h.n \in ScenarioNo
    BY <1>4, DependentFailureFrame DEF BenchInv, Shape, Numbered
  <2>2. PICK r : results' = Append(results, r) /\ r.n = h.n /\ r.handled = 0 /\ r.held = {} /\ r.unproved = {}
    BY <1>4, DependentRecord
  <2>3. RecordShape(r)
    BY <2>1, <2>2, Limits DEF RecordShape
  <2> QED BY <1>2, <2>2, <2>3
<1>5. CASE ~ScenarioResult /\ ~DependentFailure
  <2>1. UNCHANGED results
    BY <1>5, HarnessKeeps DEF HarnessMoves
  <2> QED BY <1>1, <2>1 DEF ResultsShape
<1> QED BY <1>3, <1>4, <1>5

\* By how much the loop and a clean-up outlast their deadlines.
LEMMA Overruns ==
    ASSUME WorldShape
    PROVE  /\ campaign.calls \in Nat /\ LoopEnd \in Nat /\ CleanupOverrun \in Nat /\ CleanupBegin \in Nat
           /\ CampaignTime + ReadyTime - 1 + 4 * campaign.calls <= LoopEnd
           /\ CampaignTime + 3 * campaign.calls <= LoopEnd
           /\ \A n \in (0..MaxEntries) \cup (0..MaxMachines) :
                n * campaign.calls \in Nat /\ CampaignTime + n * campaign.calls + 2 * campaign.calls <= LoopEnd
           /\ \A n \in 0..MaxMachines :
                n * campaign.calls \in Nat /\ CleanupTime + n * campaign.calls <= CleanupOverrun
<1> DEFINE k == campaign.calls
           most == Greatest(1, Greatest(MaxEntries, MaxMachines))
<1>1. k \in Nat
  BY CallsTyped
<1> HIDE DEF k
<1>2. most \in Nat /\ 1 <= most /\ MaxEntries <= most /\ MaxMachines <= most
  BY Limits DEF Greatest
<1> HIDE DEF most
<1>3. \A n \in 0..most : n * k \in Nat /\ most * k \in Nat /\ n * k <= most * k
  BY <1>1, <1>2, Scaled
<1>4. (2 + most) * k = 2 * k + most * k
  BY <1>1, <1>2
<1>5. LoopOverrun = Greatest(ReadyTime - 1 + 4 * k, (2 + most) * k)
  BY DEF LoopOverrun, k, most
<1>6. most * k \in Nat /\ k <= most * k
  <2>1. 1 * k <= most * k /\ most * k \in Nat
    BY <1>2, <1>3
  <2> QED BY <1>1, <2>1
<1>7. /\ LoopOverrun \in Nat /\ ReadyTime - 1 + 4 * k <= LoopOverrun
      /\ 2 * k + most * k <= LoopOverrun
  <2> DEFINE a == most * k
             b == (2 + most) * k
  <2>1. a \in Nat /\ b = 2 * k + a
    BY <1>4, <1>6
  <2> HIDE DEF a, b
  <2>2. LoopOverrun = Greatest(ReadyTime - 1 + 4 * k, b)
    BY <1>5 DEF b
  <2>3. LoopOverrun \in Nat /\ ReadyTime - 1 + 4 * k <= LoopOverrun /\ 2 * k + a <= LoopOverrun
    BY <1>1, <2>1, <2>2, Limits DEF Greatest
  <2> QED BY <2>3 DEF a
<1>8. LoopEnd \in Nat /\ LoopEnd = CampaignTime + LoopOverrun
  BY <1>7, Limits DEF LoopEnd
<1>9. /\ CampaignTime + ReadyTime - 1 + 4 * k <= LoopEnd
      /\ CampaignTime + 3 * k <= LoopEnd
  BY <1>1, <1>6, <1>7, <1>8, Limits
<1>10. ASSUME NEW n \in (0..MaxEntries) \cup (0..MaxMachines)
       PROVE  n * k \in Nat /\ CampaignTime + n * k + 2 * k <= LoopEnd
  <2>1. n \in 0..most
    BY <1>2, Limits
  <2>2. n * k \in Nat /\ n * k <= most * k
    BY <1>3, <2>1
  <2> QED BY <1>1, <1>6, <1>7, <1>8, <2>2, Limits
<1>11. \A n \in 0..MaxMachines : n * k \in Nat /\ MaxMachines * k \in Nat /\ n * k <= MaxMachines * k
  BY <1>1, Scaled, Limits
<1>12. CleanupOverrun = CleanupTime + MaxMachines * k /\ MaxMachines * k \in Nat
  <2>1. MaxMachines \in 0..MaxMachines
    BY Limits
  <2> QED BY <1>11, <2>1 DEF CleanupOverrun, k
<1>13. CleanupOverrun \in Nat /\ \A n \in 0..MaxMachines : CleanupTime + n * k <= CleanupOverrun
  BY <1>11, <1>12, Limits
<1>14. CleanupBegin \in Nat
  BY <1>1, <1>8, <1>13 DEF CleanupBegin, k
<1> QED BY <1>1, <1>8, <1>9, <1>10, <1>11, <1>13, <1>14 DEF k

LEMMA SomeMachines == ASSUME NEW S \in SUBSET Machines PROVE Cardinality(S) \in 0..MaxMachines
<1>1. IsFiniteSet(Machines) /\ Cardinality(Machines) = MaxMachines
  BY Limits, FS_Interval DEF Machines
<1>2. IsFiniteSet(S) /\ Cardinality(S) <= Cardinality(Machines)
  BY <1>1, FS_Subset
<1> QED BY <1>1, <1>2, FS_CardinalityType, Limits

LEMMA Latest ==
    ASSUME OnTime, Shape
    PROVE  now <= LoopEnd + 2 * CleanupOverrun + 9 * campaign.calls
<1> DEFINE k == campaign.calls
<1>1. /\ k \in Nat /\ LoopEnd \in Nat /\ CleanupOverrun \in Nat /\ now \in Nat /\ h.until \in Nat
      /\ CampaignTime \in Nat /\ ReadyTime \in Nat
      /\ CampaignTime + ReadyTime - 1 + 4 * k <= LoopEnd /\ CampaignTime + 3 * k <= LoopEnd
  BY Overruns, Limits DEF Shape, WorldShape, HarnessShape
<1>2. h.handled * k \in Nat /\ CampaignTime + h.handled * k + 2 * k <= LoopEnd
  BY Overruns DEF Shape, HarnessShape
<1>3. CleanupBegin <= LoopEnd + CleanupOverrun + 9 * k
  BY <1>1 DEF CleanupBegin
<1> DEFINE page == h.handled * k
<1>4. page \in Nat /\ CampaignTime + page + 2 * k <= LoopEnd
  BY <1>2
<1>5. Watching => now <= LoopEnd
  <2>1. h.pc \in {"events", "meter"} /\ Watching => now <= CampaignTime + page
    BY DEF Watching, FaultSteps
  <2> HIDE DEF page
  <2>2. h.pc \notin {"events", "meter"} /\ Watching => now <= LoopEnd
    BY <1>1 DEF Watching
  <2> QED BY <1>1, <1>4, <2>1, <2>2
<1> HIDE DEF page
<1>6. Submitting => now <= LoopEnd
  BY <1>1 DEF Submitting
<1>7. Finishing => now <= LoopEnd + 2 * CleanupOverrun + 9 * k
  <2>1. CleanupBegin \in Nat
    BY Overruns DEF Shape
  <2> QED BY <1>1, <1>3, <2>1 DEF Finishing
<1> QED BY <1>1, <1>5, <1>6, <1>7 DEF OnTime

\* The estimate charges each held machine of a known rate for its time at least.
LEMMA ChargeCovers ==
    ASSUME NEW t \in Nat, NEW s \in Nat, s <= t, NEW rate \in Nat, rate > 0, NEW r \in Nat, r <= t - s
    PROVE  r <= (t - s) * rate
<1>1. \A d \in Nat, k \in Nat : k > 0 => d <= d * k
  OBVIOUS
<1> QED BY <1>1

LEMMA NotUndercharged ==
    ASSUME BenchInv, h.pc = "result"
    PROVE  ~Undercharged
<1> SUFFICES ASSUME NEW m \in h.held, h.rate[m] > 0 PROVE ~(Charge(h, m, now) < rent[m])
  BY DEF Undercharged
<1>1. m \in Machines /\ h.rate[m] \in Nat /\ h.started \in Nat /\ now \in Nat /\ rent[m] \in Nat
  BY Limits DEF BenchInv, Shape, HarnessShape, WorldShape
<1>2. h.started <= now /\ rent[m] <= now - h.started /\ h.seen[m] = h.started
  BY <1>1 DEF BenchInv, Charged, Inside, Leaving, PuttingBack
<1>3. rent[m] <= (now - h.started) * h.rate[m]
  BY <1>1, <1>2, ChargeCovers
<1>4. Charge(h, m, now) = (now - h.started) * h.rate[m]
  BY <1>2 DEF Charge
<1> DEFINE charge == (now - h.started) * h.rate[m]
<1>5. charge \in Int
  BY <1>1
<1> HIDE DEF charge
<1>6. rent[m] <= charge
  BY <1>3 DEF charge
<1> QED BY <1>1, <1>4, <1>5, <1>6 DEF charge

\* The local variables keep their types.
LEMMA HarnessShapeKept ==
    ASSUME BenchInv, HarnessNext
    PROVE  HarnessShape'
<1> USE FieldNames DEF HarnessShape, Settings, Goes, Aborts, Returns, Inside, Looping, Leaving, Before, Rounds, FaultSteps, Removing, PuttingBack,
      SameWorld, SameConfig, SameJobs, SameMachines, Recorded
<1>1. Shape /\ HarnessShape /\ DOMAIN h = Fields /\ h.todo \subseteq Machines /\ h.absent \subseteq Machines
  BY DEF BenchInv, Shape, HarnessShape
<1>2. now \in Nat /\ config \in Settings /\ (Inside => h.n \in ScenarioNo /\ Len(journal[h.n]) \in 0..MaxEntries)
  BY JournalLengths DEF BenchInv, Shape, WorldShape, Numbered
<1>3. CASE Start
  BY <1>1, <1>2, <1>3, StartFrame, StartEffect
<1>4. CASE NextScenario
  <2>1. EveryHeld \subseteq Machines /\ Least(CampaignTime, now + QuietTime) \in Nat
    BY <1>1, <1>2, Limits DEF EveryHeld, Least, Shape, ResultsShape, RecordShape
  <2>2. h.n # Len(plan) => h.n + 1 \in 0..MaxScenarios
    BY <1>1, <1>2, Lengths, Limits DEF Shape, Numbered, WorldShape
  <2>3. h'.todo = EveryHeld \/ h'.todo = h.todo
    BY <1>1, <1>2, <1>4, NextScenarioEffect
  <2>4. h'.until = Least(CampaignTime, now + QuietTime) \/ h'.until = h.until
    BY <1>1, <1>2, <1>4, NextScenarioEffect
  <2>5. h'.absent = {} \/ h'.absent = h.absent
    BY <1>1, <1>2, <1>4, NextScenarioEffect
  <2>6. h'.n = h.n \/ (h.n # Len(plan) /\ h'.n = h.n + 1)
    BY <1>1, <1>2, <1>4, NextScenarioEffect
  <2>7. DOMAIN h' = Fields /\ UNCHANGED <<h.started, h.at, h.cursor, h.handled, h.held, h.unproved, h.rate, h.seen,
                                          h.offer, h.previous, h.original>>
    BY <1>1, <1>2, <1>4, NextScenarioEffect
  <2> QED BY <1>1, <1>2, <2>1, <2>2, <2>3, <2>4, <2>5, <2>6, <2>7
<1>5. CASE AwaitQuiet
  BY <1>1, <1>2, <1>5, AwaitQuietFrame, AwaitQuietEffect
<1>6. CASE BeginScenario
  <2>1. CASE Goes("raised", {})
    BY <1>1, <1>2, <2>1
  <2>2. CASE ~Goes("raised", {})
    BY <1>1, <1>2, <1>6, <2>2, BeginScenarioEffect, Zeros
  <2> QED BY <2>1, <2>2
<1>7. CASE ReadSetting
  BY <1>1, <1>2, <1>7, ReadSettingFrame, ReadSettingEffect
<1>8. CASE ApplySetting
  BY <1>1, <1>2, <1>8, ApplySettingFrame, ApplySettingEffect
<1>9. CASE ConfirmSetting
  BY <1>1, <1>2, <1>9, ConfirmSettingFrame, ConfirmSettingEffect
<1>10. CASE ArmHook
  BY <1>1, <1>2, <1>10, ArmHookFrame, ArmHookEffect
<1>11. CASE Submit
  BY <1>1, <1>2, <1>11, SubmitFrame, SubmitEffect
<1>12. CASE SubmitTooLate
  BY <1>1, <1>2, <1>12, SubmitTooLateFrame, SubmitTooLateEffect
<1>13. CASE ReadEvents
  <2>1. Deadline \in Nat /\ Len(journal[h.n]) \in 0..MaxEntries
    BY <1>1, <1>2, <1>13, ReadEventsFrame, DeadlineBound
  <2>2. h'.at = now /\ h'.until = Deadline /\ h'.cursor = Len(journal[h.n])
    BY <1>1, <1>2, <1>13, ReadEventsEffect
  <2>3. DOMAIN h' = Fields /\ UNCHANGED <<h.n, h.started, h.handled, h.held, h.unproved, h.todo, h.absent, h.rate,
                                          h.seen, h.offer, h.previous, h.original>>
    BY <1>1, <1>2, <1>13, ReadEventsEffect
  <2> QED BY <1>1, <1>2, <2>1, <2>2, <2>3
<1>14. CASE NextEvent
  <2> DEFINE m == journal[h.n][h.handled + 1].machine
  <2>1. m \in Machines
    BY <1>1, <1>2, <1>14, EventAtHand DEF Entry
  <2>2. h'.handled \in {h.handled, h.handled + 1}
    BY <1>1, <1>2, <1>14, NextEventEffect DEF Metering
  <2>3. Holds(m) \/ Doubts(m)
    BY <1>1, <1>2, <1>14, NextEventEffect
  <2> HIDE DEF m
  <2>4. /\ h'.seen \in [Machines -> Nat] /\ h'.rate \in [Machines -> Nat] /\ h'.offer \in Nat
        /\ h'.held \subseteq Machines /\ h'.unproved \subseteq Machines
    BY <1>1, <1>2, <2>1, <2>3, MetersTyped
  <2>5. h.handled + 1 \in 0..MaxEntries
    BY <1>1, <1>2, <1>14, NextEventFrame, Limits DEF Shape, Cursors
  <2>6. DOMAIN h' = Fields /\ UNCHANGED <<h.n, h.started, h.at, h.until, h.cursor, h.todo, h.absent, h.previous, h.original>>
    BY <1>1, <1>2, <1>14, NextEventEffect DEF Metering
  <2> QED BY <1>1, <1>2, <2>2, <2>4, <2>5, <2>6
<1>15. CASE RoundTooLate
  BY <1>1, <1>2, <1>15, RoundTooLateFrame, RoundTooLateEffect
<1>16. CASE Meter
  BY <1>1, <1>2, <1>16, MeterFrame, MeterEffect
<1>17. CASE Look
  BY <1>1, <1>2, <1>17, LookFrame, LookEffect
<1>18. CASE Pause
  BY <1>1, <1>2, <1>18, PauseFrame, PauseEffect
<1>19. CASE CancelJob
  BY <1>1, <1>2, <1>19, CancelJobFrame, CancelJobEffect
<1>20. CASE CancelInterrupted
  BY <1>1, <1>2, <1>20, CancelInterruptedFrame, CancelInterruptedEffect
<1>21. CASE CallFails
  BY <1>1, <1>2, <1>21, CallFailsFrame, CallFailsEffect
<1>22. CASE Interrupted
  BY <1>1, <1>2, <1>22, InterruptedFrame, InterruptedEffect
<1>23. CASE Inject
  BY <1>1, <1>2, <1>23, InjectFrame, InjectEffect
<1>24. CASE ReadOriginal
  <2>1. CallsEnd(1) \in Nat
    BY <1>1, CallsEndTyped DEF Shape
  <2> QED BY <1>1, <1>2, <1>24, <2>1, ReadOriginalEffect
<1>25. CASE SetFault
  BY <1>1, <1>2, <1>25, SetFaultFrame, SetFaultEffect
<1>26. CASE AwaitFault
  BY <1>1, <1>2, <1>26, AwaitFaultFrame, AwaitFaultEffect
<1>27. CASE ReadFault
  BY <1>1, <1>2, <1>27, ReadFaultFrame, ReadFaultEffect
<1>28. CASE UndoFault
  BY <1>1, <1>2, <1>28, UndoFaultFrame, UndoFaultEffect
<1>29. CASE CheckFault
  BY <1>1, <1>2, <1>29, CheckFaultFrame, CheckFaultEffect
<1>30. CASE CanaryKilled
  BY <1>1, <1>2, <1>30, CanaryKilledFrame, CallFailsEffect
<1>31. CASE Tidy
  <2>1. DOMAIN h' = Fields /\ UNCHANGED <<h.n, h.started, h.handled, h.held, h.unproved, h.rate, h.seen,
                                          h.previous>>
    BY <1>1, <1>2, <1>31, TidyEffect
  <2>2. /\ h'.todo = h.held /\ h'.absent = {} /\ h'.at = 0 /\ h'.until = 0 /\ h'.cursor = 0 /\ h'.offer = 0
        /\ h'.original = "first"
    BY <1>1, <1>2, <1>31, TidyEffect
  <2> QED BY <1>1, <1>2, <2>1, <2>2, Zeros
<1>32. CASE StopMachines
  <2>1. now + CleanupTime \in Nat
    BY <1>1, <1>2, Limits
  <2> QED BY <1>1, <1>2, <1>32, <2>1, StopMachinesEffect
<1>33. CASE Recheck
  BY <1>1, <1>2, <1>33, RecheckFrame, RecheckEffect
<1>34. CASE ProveAbsent
  <2>1. DOMAIN h' = Fields /\ UNCHANGED <<h.n, h.started, h.at, h.cursor, h.handled, h.held, h.unproved, h.todo,
                                          h.rate, h.seen, h.offer, h.previous, h.original>>
    BY <1>1, <1>2, <1>34, ProveAbsentEffect
  <2>2. h'.absent \subseteq Machines /\ h'.until = 0
    BY <1>1, <1>2, <1>34, ProveAbsentEffect
  <2> QED BY <1>1, <1>2, <2>1, <2>2, Zeros
<1>35. CASE ReadBack
  BY <1>1, <1>2, <1>35, ReadBackFrame, ReadBackEffect
<1>36. CASE PutBack
  BY <1>1, <1>2, <1>36, PutBackFrame, PutBackEffect
<1>37. CASE VerifyRestored
  BY <1>1, <1>2, <1>37, VerifyRestoredFrame, VerifyRestoredEffect
<1>38. CASE ScenarioResult
  <2>1. UNCHANGED <<h.n, h.until>> /\ DOMAIN h' = Fields
    BY <1>1, <1>2, <1>38, ScenarioResultEffect
  <2>2. /\ h'.started = 0 /\ h'.at = 0 /\ h'.cursor = 0 /\ h'.handled = 0 /\ h'.held = {} /\ h'.unproved = {}
        /\ h'.rate = [m \in Machines |-> 0] /\ h'.seen = [m \in Machines |-> 0] /\ h'.offer = 0
        /\ h'.previous = "unsaved" /\ h'.original = "first" /\ h'.todo = {} /\ h'.absent = {}
    BY <1>1, <1>2, <1>38, ScenarioResultEffect
  <2> QED BY <1>1, <1>2, <2>1, <2>2, Zeros
<1>39. CASE DependentFailure
  BY <1>1, <1>2, <1>39, DependentFailureFrame, DependentFailureEffect
<1>40. CASE Scorecard
  BY <1>1, <1>2, <1>40, ScorecardFrame, ScorecardEffect
<1> QED
  BY <1>3, <1>4, <1>5, <1>6, <1>7, <1>8, <1>9, <1>10, <1>11, <1>12, <1>13, <1>14, <1>15, <1>16, 
     <1>17, <1>18, <1>19, <1>20, <1>21, <1>22, <1>23, <1>24, <1>25, <1>26, <1>27, <1>28, <1>29, 
     <1>30, <1>31, <1>32, <1>33, <1>34, <1>35, <1>36, <1>37, <1>38, <1>39, <1>40
     DEF HarnessNext

\* The scenario's number stays within the plan.
LEMMA NumberedKept ==
    ASSUME BenchInv, HarnessNext
    PROVE  Numbered'
<1> USE FieldNames DEF Numbered, plan, ScenarioNo, Goes, Aborts, Returns, Inside, Looping, Leaving, Before, Rounds, FaultSteps, Removing, PuttingBack,
      SameWorld, SameConfig, SameJobs, SameMachines, Recorded
<1>1. Shape /\ DOMAIN h = Fields /\ h.todo \subseteq Machines /\ h.absent \subseteq Machines
  BY DEF BenchInv, Shape, HarnessShape
<1>2. Numbered /\ h.n \in 0..MaxScenarios /\ Len(plan) \in 0..MaxScenarios /\ MaxScenarios \in Nat
  BY Lengths, Limits DEF BenchInv, Shape, HarnessShape, WorldShape
<1>3. CASE Start
  BY <1>1, <1>2, <1>3, StartFrame, StartEffect
<1>4. CASE NextScenario
  <2>1. h.pc = "next" /\ UNCHANGED campaign /\ (h'.pc \in {"score", "stop"} => h'.n = h.n /\ h'.whole = TRUE)
    BY <1>1, <1>2, <1>4, NextScenarioFrame, NextScenarioEffect
  <2>2. h'.pc \in {"score", "stop", "quiet"} /\ (h'.pc = "quiet" => h'.n = h.n + 1 /\ h.n # Len(plan) /\ h'.whole = h.whole)
    BY <1>1, <1>2, <1>4, NextScenarioEffect
  <2>3. MaxScenarios \in Nat /\ Len(plan)' = Len(plan)
    BY <2>1, Limits DEF plan
  <2>4. h'.pc = "quiet" => h'.n \in ScenarioNo /\ h'.n <= Len(plan)'
    BY <1>1, <1>2, <2>1, <2>2, <2>3
  <2>5. \A k \in ScenarioNo : h'.n < k \/ (h'.n = k /\ h'.pc \in {"quiet", "begin"}) => served'[k] = << >>
    <3>1. served' = served
      BY <1>4, NextScenarioFrame
      <3>2. (h'.pc \in {"score", "stop"} /\ h'.n = h.n) \/ h'.n = h.n + 1
      BY <2>1, <2>2
    <3> QED BY <1>2, <3>1, <3>2
  <2> QED BY <1>1, <1>2, <2>1, <2>2, <2>3, <2>4, <2>5
<1>5. CASE AwaitQuiet
  BY <1>1, <1>2, <1>5, AwaitQuietFrame, AwaitQuietEffect
<1>6. CASE BeginScenario
  BY <1>1, <1>2, <1>6, BeginScenarioFrame, BeginScenarioEffect
<1>7. CASE ReadSetting
  BY <1>1, <1>2, <1>7, ReadSettingFrame, ReadSettingEffect
<1>8. CASE ApplySetting
  BY <1>1, <1>2, <1>8, ApplySettingFrame, ApplySettingEffect
<1>9. CASE ConfirmSetting
  BY <1>1, <1>2, <1>9, ConfirmSettingFrame, ConfirmSettingEffect
<1>10. CASE ArmHook
  BY <1>1, <1>2, <1>10, ArmHookFrame, ArmHookEffect
<1>11. CASE Submit
  BY <1>1, <1>2, <1>11, SubmitFrame, SubmitEffect
<1>12. CASE SubmitTooLate
  BY <1>1, <1>2, <1>12, SubmitTooLateFrame, SubmitTooLateEffect
<1>13. CASE ReadEvents
  BY <1>1, <1>2, <1>13, ReadEventsFrame, ReadEventsEffect
<1>14. CASE NextEvent
  BY <1>1, <1>2, <1>14, NextEventFrame, NextEventEffect DEF Metering
<1>15. CASE RoundTooLate
  BY <1>1, <1>2, <1>15, RoundTooLateFrame, RoundTooLateEffect
<1>16. CASE Meter
  BY <1>1, <1>2, <1>16, MeterFrame, MeterEffect
<1>17. CASE Look
  BY <1>1, <1>2, <1>17, LookFrame, LookEffect
<1>18. CASE Pause
  BY <1>1, <1>2, <1>18, PauseFrame, PauseEffect
<1>19. CASE CancelJob
  BY <1>1, <1>2, <1>19, CancelJobFrame, CancelJobEffect
<1>20. CASE CancelInterrupted
  BY <1>1, <1>2, <1>20, CancelInterruptedFrame, CancelInterruptedEffect
<1>21. CASE CallFails
  BY <1>1, <1>2, <1>21, CallFailsFrame, CallFailsEffect
<1>22. CASE Interrupted
  BY <1>1, <1>2, <1>22, InterruptedFrame, InterruptedEffect
<1>23. CASE Inject
  BY <1>1, <1>2, <1>23, InjectFrame, InjectEffect
<1>24. CASE ReadOriginal
  BY <1>1, <1>2, <1>24, ReadOriginalFrame, ReadOriginalEffect
<1>25. CASE SetFault
  BY <1>1, <1>2, <1>25, SetFaultFrame, SetFaultEffect
<1>26. CASE AwaitFault
  BY <1>1, <1>2, <1>26, AwaitFaultFrame, AwaitFaultEffect
<1>27. CASE ReadFault
  BY <1>1, <1>2, <1>27, ReadFaultFrame, ReadFaultEffect
<1>28. CASE UndoFault
  BY <1>1, <1>2, <1>28, UndoFaultFrame, UndoFaultEffect
<1>29. CASE CheckFault
  BY <1>1, <1>2, <1>29, CheckFaultFrame, CheckFaultEffect
<1>30. CASE CanaryKilled
  BY <1>1, <1>2, <1>30, CanaryKilledFrame, CallFailsEffect
<1>31. CASE Tidy
  BY <1>1, <1>2, <1>31, TidyFrame, TidyEffect
<1>32. CASE StopMachines
  BY <1>1, <1>2, <1>32, StopMachinesFrame, StopMachinesEffect
<1>33. CASE Recheck
  BY <1>1, <1>2, <1>33, RecheckFrame, RecheckEffect
<1>34. CASE ProveAbsent
  BY <1>1, <1>2, <1>34, ProveAbsentFrame, ProveAbsentEffect DEF AfterCleanup
<1>35. CASE ReadBack
  BY <1>1, <1>2, <1>35, ReadBackFrame, ReadBackEffect
<1>36. CASE PutBack
  BY <1>1, <1>2, <1>36, PutBackFrame, PutBackEffect
<1>37. CASE VerifyRestored
  BY <1>1, <1>2, <1>37, VerifyRestoredFrame, VerifyRestoredEffect
<1>38. CASE ScenarioResult
  BY <1>1, <1>2, <1>38, ScenarioResultFrame, ScenarioResultEffect
<1>39. CASE DependentFailure
  BY <1>1, <1>2, <1>39, DependentFailureFrame, DependentFailureEffect
<1>40. CASE Scorecard
  BY <1>1, <1>2, <1>40, ScorecardFrame, ScorecardEffect
<1> QED
  BY <1>3, <1>4, <1>5, <1>6, <1>7, <1>8, <1>9, <1>10, <1>11, <1>12, <1>13, <1>14, <1>15, <1>16, 
     <1>17, <1>18, <1>19, <1>20, <1>21, <1>22, <1>23, <1>24, <1>25, <1>26, <1>27, <1>28, <1>29, 
     <1>30, <1>31, <1>32, <1>33, <1>34, <1>35, <1>36, <1>37, <1>38, <1>39, <1>40
     DEF HarnessNext

\* The harness reads on from where it was, and no further than there are events.
LEMMA CursorsKept ==
    ASSUME BenchInv, HarnessNext
    PROVE  Cursors'
<1> USE FieldNames DEF Cursors, Goes, Aborts, Returns, Inside, Looping, Leaving, Before, Rounds, FaultSteps, Removing, PuttingBack,
      SameWorld, SameConfig, SameJobs, SameMachines, Recorded
<1>1. Shape /\ DOMAIN h = Fields /\ h.todo \subseteq Machines /\ h.absent \subseteq Machines
  BY DEF BenchInv, Shape, HarnessShape
<1>2. Cursors /\ h.cursor \in Nat /\ h.handled \in Nat
  BY Limits DEF BenchInv, Shape, HarnessShape
<1>3. CASE Start
  BY <1>1, <1>2, <1>3, StartFrame, StartEffect
<1>4. CASE NextScenario
  BY <1>1, <1>2, <1>4, NextScenarioFrame, NextScenarioEffect
<1>5. CASE AwaitQuiet
  BY <1>1, <1>2, <1>5, AwaitQuietFrame, AwaitQuietEffect
<1>6. CASE BeginScenario
  BY <1>1, <1>2, <1>6, BeginScenarioFrame, BeginScenarioEffect
<1>7. CASE ReadSetting
  BY <1>1, <1>2, <1>7, ReadSettingFrame, ReadSettingEffect
<1>8. CASE ApplySetting
  BY <1>1, <1>2, <1>8, ApplySettingFrame, ApplySettingEffect
<1>9. CASE ConfirmSetting
  BY <1>1, <1>2, <1>9, ConfirmSettingFrame, ConfirmSettingEffect
<1>10. CASE ArmHook
  BY <1>1, <1>2, <1>10, ArmHookFrame, ArmHookEffect
<1>11. CASE Submit
  BY <1>1, <1>2, <1>11, SubmitFrame, SubmitEffect
<1>12. CASE SubmitTooLate
  BY <1>1, <1>2, <1>12, SubmitTooLateFrame, SubmitTooLateEffect
<1>13. CASE ReadEvents
  BY <1>1, <1>2, <1>13, ReadEventsFrame, ReadEventsEffect
<1>14. CASE NextEvent
  BY <1>1, <1>2, <1>14, NextEventFrame, NextEventEffect, SMTT(30) DEF Metering
<1>15. CASE RoundTooLate
  BY <1>1, <1>2, <1>15, RoundTooLateFrame, RoundTooLateEffect
<1>16. CASE Meter
  BY <1>1, <1>2, <1>16, MeterFrame, MeterEffect
<1>17. CASE Look
  BY <1>1, <1>2, <1>17, LookFrame, LookEffect
<1>18. CASE Pause
  BY <1>1, <1>2, <1>18, PauseFrame, PauseEffect
<1>19. CASE CancelJob
  BY <1>1, <1>2, <1>19, CancelJobFrame, CancelJobEffect
<1>20. CASE CancelInterrupted
  BY <1>1, <1>2, <1>20, CancelInterruptedFrame, CancelInterruptedEffect
<1>21. CASE CallFails
  BY <1>1, <1>2, <1>21, CallFailsFrame, CallFailsEffect
<1>22. CASE Interrupted
  BY <1>1, <1>2, <1>22, InterruptedFrame, InterruptedEffect
<1>23. CASE Inject
  BY <1>1, <1>2, <1>23, InjectFrame, InjectEffect
<1>24. CASE ReadOriginal
  BY <1>1, <1>2, <1>24, ReadOriginalFrame, ReadOriginalEffect
<1>25. CASE SetFault
  BY <1>1, <1>2, <1>25, SetFaultFrame, SetFaultEffect
<1>26. CASE AwaitFault
  BY <1>1, <1>2, <1>26, AwaitFaultFrame, AwaitFaultEffect
<1>27. CASE ReadFault
  BY <1>1, <1>2, <1>27, ReadFaultFrame, ReadFaultEffect
<1>28. CASE UndoFault
  BY <1>1, <1>2, <1>28, UndoFaultFrame, UndoFaultEffect
<1>29. CASE CheckFault
  BY <1>1, <1>2, <1>29, CheckFaultFrame, CheckFaultEffect
<1>30. CASE CanaryKilled
  BY <1>1, <1>2, <1>30, CanaryKilledFrame, CallFailsEffect
<1>31. CASE Tidy
  BY <1>1, <1>2, <1>31, TidyFrame, TidyEffect
<1>32. CASE StopMachines
  BY <1>1, <1>2, <1>32, StopMachinesFrame, StopMachinesEffect
<1>33. CASE Recheck
  BY <1>1, <1>2, <1>33, RecheckFrame, RecheckEffect
<1>34. CASE ProveAbsent
  BY <1>1, <1>2, <1>34, ProveAbsentFrame, ProveAbsentEffect DEF AfterCleanup
<1>35. CASE ReadBack
  BY <1>1, <1>2, <1>35, ReadBackFrame, ReadBackEffect
<1>36. CASE PutBack
  BY <1>1, <1>2, <1>36, PutBackFrame, PutBackEffect
<1>37. CASE VerifyRestored
  BY <1>1, <1>2, <1>37, VerifyRestoredFrame, VerifyRestoredEffect
<1>38. CASE ScenarioResult
  BY <1>1, <1>2, <1>38, ScenarioResultFrame, ScenarioResultEffect
<1>39. CASE DependentFailure
  BY <1>1, <1>2, <1>39, DependentFailureFrame, DependentFailureEffect
<1>40. CASE Scorecard
  BY <1>1, <1>2, <1>40, ScorecardFrame, ScorecardEffect
<1> QED
  BY <1>3, <1>4, <1>5, <1>6, <1>7, <1>8, <1>9, <1>10, <1>11, <1>12, <1>13, <1>14, <1>15, <1>16, 
     <1>17, <1>18, <1>19, <1>20, <1>21, <1>22, <1>23, <1>24, <1>25, <1>26, <1>27, <1>28, <1>29, 
     <1>30, <1>31, <1>32, <1>33, <1>34, <1>35, <1>36, <1>37, <1>38, <1>39, <1>40
     DEF HarnessNext

\* How long a call may last, at each step.
LEMMA PatienceIs ==
    /\ h.pc \in {"prepare", "apply", "confirm", "cancel"} => Patience = CallsEnd(1)
    /\ h.pc = "events" => Patience = now
    /\ h.pc \in {"poll", "pause"} => Patience = Greatest(now, Deadline)
    /\ h.pc \in {"meter", "look"} \cup FaultSteps => Patience = Greatest(now, h.until)
  BY DEF Patience, FaultSteps

\* The clock a step leaves is in time for the next.
LEMMA Arrives ==
    ASSUME campaign' = campaign, campaign.calls \in Nat, LoopEnd \in Nat, CleanupOverrun \in Nat, now' \in Nat
    PROVE  /\ h'.pc = "next" /\ now' <= LoopEnd + CleanupOverrun + 9 * campaign.calls => OnTime'
           /\ h'.pc \in {"poll", "pause", "cancel"} /\ now' + 2 * campaign.calls <= LoopEnd => OnTime'
           /\ h'.pc \in {"tidy", "interrupted"} /\ now' + campaign.calls <= LoopEnd => OnTime'
           /\ h'.pc = "tidy" /\ now' <= LoopEnd => OnTime'
           /\ h'.pc \in FaultSteps /\ now' <= h'.until /\ h'.until < CampaignTime + campaign.calls => OnTime'
           /\ h'.pc = "stop" /\ ~h'.whole /\ now' <= LoopEnd + 2 * campaign.calls => OnTime'
           /\ h'.pc = "stop" /\ h'.whole /\ now' <= LoopEnd + CleanupOverrun + 9 * campaign.calls => OnTime'
           /\ h'.pc \in {"recheck", "prove"} /\ h'.whole = h.whole
                /\ now' <= CleanupBegin + CleanupOverrun /\ h'.until <= CleanupBegin + CleanupTime => OnTime'
           /\ h'.pc = "restore" /\ now' <= LoopEnd + CleanupOverrun + 2 * campaign.calls => OnTime'
           /\ h'.pc = "putback" /\ now' <= LoopEnd + CleanupOverrun + 3 * campaign.calls => OnTime'
           /\ h'.pc = "verify" /\ now' <= LoopEnd + CleanupOverrun + 4 * campaign.calls => OnTime'
           /\ h'.pc = "result" /\ now' <= LoopEnd + CleanupOverrun + 5 * campaign.calls => OnTime'
           /\ h'.pc \in {"raised", "score", "ended"}
                /\ now' <= LoopEnd + 2 * CleanupOverrun + 9 * campaign.calls => OnTime'
<1>1. LoopEnd' = LoopEnd /\ CleanupOverrun' = CleanupOverrun /\ campaign.calls' = campaign.calls
  BY DEF LoopEnd, LoopOverrun, CleanupOverrun
<1>2. h'.whole = h.whole => CleanupBegin' = CleanupBegin
  BY <1>1 DEF CleanupBegin
<1>3. /\ h'.pc = "stop" /\ ~h'.whole => CleanupBegin' = LoopEnd + 2 * campaign.calls
      /\ h'.pc = "stop" /\ h'.whole => CleanupBegin' = LoopEnd + CleanupOverrun + 9 * campaign.calls
  <2>1. CleanupBegin' = LoopEnd + IF h'.whole THEN CleanupOverrun + 9 * campaign.calls ELSE 2 * campaign.calls
    BY <1>1 DEF CleanupBegin
  <2> QED BY <2>1
<1>4. /\ h'.pc \in {"poll", "pause", "cancel"} /\ now' + 2 * campaign.calls <= LoopEnd => Watching'
      /\ h'.pc = "interrupted" /\ now' + campaign.calls <= LoopEnd => Watching'
      /\ h'.pc \in FaultSteps /\ now' <= h'.until /\ h'.until < CampaignTime + campaign.calls => Watching'
  BY <1>1 DEF Watching
<1>5. /\ h'.pc = "tidy" /\ now' <= LoopEnd => Finishing'
      /\ h'.pc = "tidy" /\ now' + campaign.calls <= LoopEnd => Finishing'
      /\ h'.pc = "stop" /\ now' <= CleanupBegin' => Finishing'
      /\ h'.pc \in {"recheck", "prove"} /\ h'.whole = h.whole
           /\ now' <= CleanupBegin + CleanupOverrun /\ h'.until <= CleanupBegin + CleanupTime => Finishing'
      /\ h'.pc = "restore" /\ now' <= LoopEnd + CleanupOverrun + 2 * campaign.calls => Finishing'
      /\ h'.pc = "putback" /\ now' <= LoopEnd + CleanupOverrun + 3 * campaign.calls => Finishing'
      /\ h'.pc = "verify" /\ now' <= LoopEnd + CleanupOverrun + 4 * campaign.calls => Finishing'
      /\ h'.pc = "result" /\ now' <= LoopEnd + CleanupOverrun + 5 * campaign.calls => Finishing'
  BY <1>1, <1>2 DEF Finishing
<1>6. /\ h'.pc = "next" /\ now' <= LoopEnd + CleanupOverrun + 9 * campaign.calls => OnTime'
      /\ h'.pc \in {"raised", "score", "ended"}
           /\ now' <= LoopEnd + 2 * CleanupOverrun + 9 * campaign.calls => OnTime'
      /\ Watching' \/ Finishing' => OnTime'
  BY <1>1 DEF OnTime
<1> QED BY <1>3, <1>4, <1>5, <1>6

\* The same of the clock the harness stands at.
LEMMA Stands ==
    ASSUME OnTime
    PROVE  /\ h.pc \in {"start", "next"} => now <= LoopEnd + CleanupOverrun + 9 * campaign.calls
           /\ h.pc = "quiet" => now <= CampaignTime /\ h.until <= CampaignTime
           /\ h.pc = "begin" => now < CampaignTime
           /\ h.pc \in Before => h.started < CampaignTime
           /\ h.pc = "prepare" => now < CampaignTime + ReadyTime
           /\ h.pc = "apply" => now < CampaignTime + ReadyTime + campaign.calls
           /\ h.pc = "confirm" => now < CampaignTime + ReadyTime + 2 * campaign.calls
           /\ h.pc = "arm" => now < CampaignTime + ReadyTime + 3 * campaign.calls
           /\ h.pc = "submit" => now < CampaignTime + ReadyTime + 4 * campaign.calls
           /\ h.pc \in {"poll", "pause", "cancel"} => now + 2 * campaign.calls <= LoopEnd
           /\ h.pc \in {"events", "meter"} =>
                now <= CampaignTime + h.handled * campaign.calls /\ h.until <= CampaignTime
           /\ h.pc = "look" => now < h.until /\ h.until <= CampaignTime
           /\ h.pc = "inject" => now < CampaignTime
           /\ h.pc \in FaultSteps => now <= h.until /\ h.until < CampaignTime + campaign.calls
           /\ h.pc = "interrupted" => now + campaign.calls <= LoopEnd
           /\ h.pc = "tidy" => now <= LoopEnd
           /\ h.pc = "stop" => now <= CleanupBegin
           /\ h.pc \in {"recheck", "prove"} =>
                now <= CleanupBegin + CleanupOverrun /\ h.until <= CleanupBegin + CleanupTime
           /\ h.pc = "restore" => now <= LoopEnd + CleanupOverrun + 2 * campaign.calls
           /\ h.pc = "putback" => now <= LoopEnd + CleanupOverrun + 3 * campaign.calls
           /\ h.pc = "verify" => now <= LoopEnd + CleanupOverrun + 4 * campaign.calls
           /\ h.pc = "result" => now <= LoopEnd + CleanupOverrun + 5 * campaign.calls
           /\ h.pc = "score" => now <= LoopEnd + 2 * CleanupOverrun + 9 * campaign.calls
  BY DEF OnTime, Submitting, Watching, Finishing, Before, FaultSteps

\* The deadlines hold.
LEMMA OnTimeKept ==
    ASSUME BenchInv, HarnessNext
    PROVE  OnTime'
<1> USE FieldNames DEF Goes, Aborts, Returns, Before, Rounds, FaultSteps, SameWorld, SameConfig, SameJobs, SameMachines, Recorded
<1> DEFINE k == campaign.calls
<1>1. Shape /\ DOMAIN h = Fields /\ h.todo \subseteq Machines /\ h.held \subseteq Machines
  BY DEF BenchInv, Shape, HarnessShape
<1>2. OnTime /\ WorldShape /\ HarnessShape /\ (h.pc \in Before => ~h.known)
  BY DEF BenchInv, Shape, JobLeft
<1>3. /\ now \in Nat /\ h.until \in Nat /\ h.started \in Nat /\ Deadline \in Nat /\ Deadline <= CampaignTime
      /\ CampaignTime \in Nat \ {0} /\ CleanupTime \in Nat \ {0} /\ ReadyTime \in Nat \ {0}
  BY <1>2, DeadlineBound, Limits DEF WorldShape, HarnessShape
<1>4. /\ k \in Nat /\ LoopEnd \in Nat /\ CleanupOverrun \in Nat /\ CleanupBegin \in Nat
      /\ CampaignTime + ReadyTime - 1 + 4 * k <= LoopEnd /\ CampaignTime + 3 * k <= LoopEnd
  BY <1>2, Overruns
<1>5. campaign' = campaign /\ now' \in Nat
  BY HarnessKeeps, WorldShapeKept DEF HarnessMoves, WorldShape
<1>6. /\ \A t \in Int : Takes(t) => now <= now' /\ now' <= t
      /\ Still => now' = now
  BY <1>3, TakesClock DEF Still
<1>7. \A n \in Nat : CallsEnd(n) = now + n * campaign.calls /\ CallsEnd(n) \in Nat
  BY <1>2, CallsEndTyped
<1>8. CallsEnd(1) = now + k /\ CallsEnd(1) \in Int
  BY <1>4, <1>7
<1>9. Takes(CallsEnd(1)) => now' <= now + k
  BY <1>6, <1>8
<1>10. /\ Greatest(now, Deadline) \in Int /\ Greatest(now, Deadline) \in {now, Deadline}
       /\ Greatest(now, h.until) \in Int /\ Greatest(now, h.until) \in {now, h.until}
       /\ now <= h.until => Greatest(now, h.until) = h.until
  BY <1>3 DEF Greatest
<1>11. CASE Start
  <2>1. h.pc = "start" /\ Takes(CampaignTime)
    BY <1>2, <1>11, StartFrame, Stands
  <2>2. now' <= CampaignTime
    BY <1>3, <1>4, <1>6, <1>8, <1>9, <2>1
  <2>3. h'.pc \in {"raised", "next"}
    BY <1>1, <1>2, <1>11, StartEffect
  <2> QED BY <1>3, <1>4, <1>5, <2>1, <2>2, <2>3, Arrives
<1>12. CASE NextScenario
  <2>1. h.pc = "next" /\ now' = now /\ now <= LoopEnd + CleanupOverrun + 9 * k
    BY <1>2, <1>6, <1>12, NextScenarioFrame, Stands
  <2>2. \/ h'.pc \in {"score", "stop"} /\ h'.whole = TRUE
        \/ h'.pc = "quiet" /\ ~(now >= CampaignTime) /\ h'.until = Least(CampaignTime, now + QuietTime)
    BY <1>1, <1>12, NextScenarioEffect
  <2>3. Least(CampaignTime, now + QuietTime) <= CampaignTime
    BY <1>3, Limits DEF Least
  <2>4. h'.pc = "quiet" => OnTime'
    BY <1>3, <2>1, <2>2, <2>3 DEF OnTime
  <2> QED BY <1>3, <1>4, <1>5, <2>1, <2>2, <2>4, Arrives
<1>13. CASE AwaitQuiet
  <2>1. h.pc = "quiet" /\ now <= CampaignTime /\ h.until <= CampaignTime
    BY <1>2, <1>13, AwaitQuietFrame, Stands
  <2>2. \/ h'.pc \in {"next", "raised"} /\ now' = now
        \/ h'.pc = "quiet" /\ h'.until = h.until /\ now < h.until /\ now' = now + 1
        \/ h'.pc = "begin" /\ now < h.until /\ now' = now
    BY <1>1, <1>6, <1>13, AwaitQuietEffect DEF Lasts
  <2>3. h'.pc \in {"quiet", "begin"} => OnTime'
    BY <1>3, <2>1, <2>2 DEF OnTime
  <2> QED BY <1>3, <1>4, <1>5, <2>1, <2>2, <2>3, Arrives
<1>14. CASE BeginScenario
  <2>1. h.pc = "begin" /\ now < CampaignTime /\ Takes(now + ReadyTime)
    BY <1>2, <1>14, BeginScenarioFrame, Stands
  <2>2. now' < CampaignTime + ReadyTime
    BY <1>3, <1>5, <1>6, <2>1
  <2>3. h'.pc = "raised" \/ (h'.pc \in {"prepare", "arm", "submit"} /\ h'.started = now)
    BY <1>1, <1>14, BeginScenarioEffect
  <2>4. h'.pc \in {"prepare", "arm", "submit"} => OnTime'
    BY <1>3, <1>4, <1>5, <2>1, <2>2, <2>3 DEF OnTime, Submitting
  <2> QED BY <1>3, <1>4, <1>5, <2>2, <2>3, <2>4, Arrives
<1>15. CASE ReadSetting
  <2>1. h.pc = "prepare" /\ h.started < CampaignTime /\ now' < CampaignTime + ReadyTime + 1 * k
    BY <1>2, <1>3, <1>4, <1>5, <1>9, <1>15, ReadSettingFrame, Stands
  <2>2. h'.pc \in {"confirm", "apply"} /\ h'.started = h.started
    BY <1>1, <1>2, <2>1, <1>15, ReadSettingEffect
  <2>3. h'.pc \in Before => OnTime'
    BY <1>3, <1>4, <1>5, <2>1, <2>2 DEF OnTime, Submitting
  <2> QED BY <1>3, <1>4, <1>5, <2>1, <2>2, <2>3, Arrives
<1>16. CASE ApplySetting
  <2>1. h.pc = "apply" /\ h.started < CampaignTime /\ now' < CampaignTime + ReadyTime + 2 * k
    BY <1>2, <1>3, <1>4, <1>5, <1>9, <1>16, ApplySettingFrame, Stands
  <2>2. (h'.pc = "confirm" /\ h'.started = h.started) \/ h'.pc \in {"tidy", "interrupted"}
    BY <1>1, <1>2, <2>1, <1>16, ApplySettingEffect
  <2>3. h'.pc \in Before => OnTime'
    BY <1>3, <1>4, <1>5, <2>1, <2>2 DEF OnTime, Submitting
  <2> QED BY <1>3, <1>4, <1>5, <2>1, <2>2, <2>3, Arrives
<1>17. CASE ConfirmSetting
  <2>1. h.pc = "confirm" /\ h.started < CampaignTime /\ now' < CampaignTime + ReadyTime + 3 * k
    BY <1>2, <1>3, <1>4, <1>5, <1>9, <1>17, ConfirmSettingFrame, Stands
  <2>2. (h'.pc \in {"arm", "submit"} /\ h'.started = h.started) \/ h'.pc \in {"tidy", "interrupted"}
    BY <1>1, <1>2, <2>1, <1>17, ConfirmSettingEffect
  <2>3. h'.pc \in Before => OnTime'
    BY <1>3, <1>4, <1>5, <2>1, <2>2 DEF OnTime, Submitting
  <2> QED BY <1>3, <1>4, <1>5, <2>1, <2>2, <2>3, Arrives
<1>18. CASE ArmHook
  <2>1. h.pc = "arm" /\ h.started < CampaignTime /\ now' < CampaignTime + ReadyTime + 4 * k
    BY <1>2, <1>3, <1>4, <1>5, <1>9, <1>18, ArmHookFrame, Stands
  <2>2. (h'.pc = "submit" /\ h'.started = h.started) \/ h'.pc = "tidy"
    BY <1>1, <1>2, <2>1, <1>18, ArmHookEffect
  <2>3. h'.pc \in Before => OnTime'
    BY <1>3, <1>4, <1>5, <2>1, <2>2 DEF OnTime, Submitting
  <2> QED BY <1>3, <1>4, <1>5, <2>1, <2>2, <2>3, Arrives
<1>19. CASE Submit
  <2>1. h.pc = "submit" /\ h.started < CampaignTime
    BY <1>2, <1>19, SubmitFrame, Stands
  <2>2. now' <= ReadyDeadline - 1 + k \/ (now' <= ReadyDeadline /\ h' \in {Failing(h), Stopping(h)})
    BY <1>3, <1>4, <1>6, <1>19, SubmitFrame DEF ReadyDeadline
  <2>3. ReadyDeadline <= CampaignTime - 1 + ReadyTime /\ ReadyDeadline \in Nat
    BY <1>3, <2>1 DEF ReadyDeadline
  <2>4. h'.pc = "poll" \/ h'.pc = "tidy"
    BY <1>1, <1>2, <2>1, <1>19, SubmitEffect
  <2>5. h' \in {Failing(h), Stopping(h)} => h'.pc = "tidy"
    BY <1>1, <1>2, <2>1, FailingAborts, StoppingAborts
  <2> QED BY <1>3, <1>4, <1>5, <2>2, <2>3, <2>4, <2>5, Arrives
<1>20. CASE SubmitTooLate
  <2>1. now' < CampaignTime + ReadyTime + 4 * k
    BY <1>2, <1>6, <1>20, SubmitTooLateFrame, Stands
  <2>2. h'.pc = "tidy"
    BY <1>1, <1>20, SubmitTooLateEffect
  <2> QED BY <1>3, <1>4, <1>5, <2>1, <2>2, Arrives
<1>21. CASE ReadEvents
  <2>1. now' <= CampaignTime /\ now' <= Deadline
    BY <1>3, <1>5, <1>6, <1>21, ReadEventsFrame
  <2>2. h'.pc \in {"meter", "events"} /\ h'.until = Deadline /\ h'.handled = h.handled
    BY <1>1, <1>21, ReadEventsEffect
  <2>3. h.handled * k \in Nat /\ h'.handled * campaign'.calls = h.handled * k
    BY <1>2, <1>5, <2>2, Overruns DEF HarnessShape
  <2>4. now' <= CampaignTime + h'.handled * campaign'.calls
    BY <1>3, <1>5, <2>1, <2>3
  <2> QED BY <1>3, <2>2, <2>4 DEF OnTime, Watching
<1>22. CASE NextEvent
  <2>1. h.pc = "events" /\ now <= CampaignTime + h.handled * k /\ h.until <= CampaignTime
    BY <1>2, <1>22, NextEventFrame, Stands
  <2>2. h.handled + 1 \in 0..MaxEntries /\ h.handled \in Nat
    BY <1>1, <2>1, Limits DEF Shape, HarnessShape, Cursors
  <2>3. (h.handled + 1) * k = h.handled * k + k /\ h.handled * k \in Nat
    BY <1>4, <2>2
  <2>4. now' <= CampaignTime + (h.handled + 1) * k
    BY <1>3, <1>4, <1>5, <1>6, <1>9, <2>1, <2>3, <1>22, NextEventFrame
  <2>5. \/ h'.pc \in {"meter", "events"} /\ h'.handled = h.handled + 1 /\ h'.until = h.until
        \/ h'.pc \in {"tidy", "interrupted"}
    BY <1>1, <1>22, NextEventEffect DEF Metering
  <2>6. h'.pc \in {"meter", "events"} => OnTime'
    BY <1>5, <2>1, <2>4, <2>5 DEF OnTime, Watching
  <2>7. (h.handled + 1) * k \in Nat /\ CampaignTime + (h.handled + 1) * k + 2 * k <= LoopEnd
    BY <1>2, <2>2, Overruns
  <2>8. now' + k <= LoopEnd
    BY <1>3, <1>4, <1>5, <2>4, <2>7
  <2> QED BY <1>3, <1>4, <1>5, <2>5, <2>6, <2>8, Arrives
<1>23. CASE RoundTooLate
  <2>1. h.handled * k \in Nat /\ CampaignTime + h.handled * k + 2 * k <= LoopEnd
    BY <1>2, Overruns DEF HarnessShape
  <2>2. now' + 2 * k <= LoopEnd
    BY <1>2, <1>3, <1>4, <1>6, <2>1, <1>23, RoundTooLateFrame, Stands
  <2>3. h'.pc = "cancel"
    BY <1>1, <1>23, RoundTooLateEffect
  <2> QED BY <1>3, <1>4, <1>5, <2>2, <2>3, Arrives
<1>24. CASE Meter
  <2>1. h.pc = "meter" /\ now < h.until /\ h.until <= CampaignTime /\ Takes(h.until)
    BY <1>2, <1>24, MeterFrame, Stands
  <2>2. now' <= CampaignTime
    BY <1>3, <1>5, <1>6, <2>1
  <2>3. (h'.pc = "look" /\ h'.until = h.until /\ ~(now' >= h.until)) \/ h'.pc = "cancel"
    BY <1>1, <1>24, MeterEffect
  <2>4. h'.pc = "look" => OnTime'
    BY <1>3, <1>5, <2>1, <2>3 DEF OnTime, Watching
  <2> QED BY <1>3, <1>4, <1>5, <2>2, <2>3, <2>4, Arrives
<1>25. CASE Look
  <2>1. h.pc = "look" /\ h.until <= CampaignTime /\ Takes(h.until)
    BY <1>2, <1>25, LookFrame, Stands
  <2>2. now' <= CampaignTime
    BY <1>3, <1>5, <1>6, <2>1
  <2>3. (h'.pc = "inject" /\ ~(now' >= h.until)) \/ h'.pc \in {"cancel", "tidy", "pause"}
    BY <1>1, <1>25, LookEffect
  <2>4. h'.pc = "inject" => OnTime'
    BY <1>3, <1>5, <2>1, <2>3 DEF OnTime, Watching
  <2> QED BY <1>3, <1>4, <1>5, <2>2, <2>3, <2>4, Arrives
<1>26. CASE Pause
  <2>1. h.pc = "pause" /\ now + 2 * k <= LoopEnd
    BY <1>2, <1>26, PauseFrame, Stands
  <2>2. now' = now \/ (now < Deadline /\ now' = now + 1)
    BY <1>3, <1>26, PauseFrame DEF Lasts
  <2>3. h'.pc = "poll"
    BY <1>1, <1>26, PauseEffect
  <2> QED BY <1>3, <1>4, <1>5, <2>1, <2>2, <2>3, Arrives
<1>27. CASE CancelJob
  <2>1. now' + k <= LoopEnd
    BY <1>2, <1>3, <1>4, <1>5, <1>9, <1>27, CancelJobFrame, Stands
  <2>2. h'.pc \in {"tidy", "interrupted"}
    BY <1>1, <1>27, CancelJobEffect
  <2> QED BY <1>3, <1>4, <1>5, <2>1, <2>2, Arrives
<1>28. CASE CancelInterrupted
  <2>1. now' <= LoopEnd
    BY <1>2, <1>3, <1>4, <1>5, <1>9, <1>28, CancelInterruptedFrame, Stands
  <2>2. h'.pc = "tidy"
    BY <1>1, <1>28, CancelInterruptedEffect
  <2> QED BY <1>3, <1>4, <1>5, <2>1, <2>2, Arrives
<1>29. CASE CallFails \/ Interrupted
  <2>1. h.pc \in {"prepare", "apply", "confirm"} \cup FaultSteps \cup (Rounds \ {"inject"}) /\ Takes(Patience)
    BY <1>29, CallFailsFrame, InterruptedFrame
  <2>2. h'.pc \in {"tidy", "interrupted"}
    BY <1>1, <1>29, CallFailsEffect, InterruptedEffect
  <2>3. h.handled * k \in Nat /\ CampaignTime + h.handled * k + 2 * k <= LoopEnd
    BY <1>2, Overruns DEF HarnessShape
  <2>4. ASSUME h.pc \in {"prepare", "apply", "confirm", "cancel"} PROVE now' + k <= LoopEnd
    BY <1>2, <1>3, <1>4, <1>5, <1>9, <2>1, <2>4, PatienceIs, Stands
  <2>5. ASSUME h.pc \in {"poll", "pause"} PROVE now' + k <= LoopEnd
    BY <1>2, <1>3, <1>4, <1>5, <1>6, <1>10, <2>1, <2>5, PatienceIs, Stands
  <2>6. ASSUME h.pc = "events" PROVE now' + k <= LoopEnd
    BY <1>2, <1>3, <1>4, <1>5, <1>6, <2>1, <2>3, <2>6, PatienceIs, Stands
  <2>7. ASSUME h.pc = "meter" PROVE now' + k <= LoopEnd
    BY <1>2, <1>3, <1>4, <1>5, <1>6, <1>10, <2>1, <2>3, <2>7, PatienceIs, Stands
  <2>8. ASSUME h.pc \in {"look"} \cup FaultSteps PROVE now' + k <= LoopEnd
    BY <1>2, <1>3, <1>4, <1>5, <1>6, <1>10, <2>1, <2>8, PatienceIs, Stands
  <2> QED BY <1>3, <1>4, <1>5, <2>1, <2>2, <2>4, <2>5, <2>6, <2>7, <2>8, Arrives
<1>30. CASE Inject
  <2>1. h.pc = "inject" /\ now < CampaignTime
    BY <1>2, <1>30, InjectFrame, Stands
  <2>2. Cardinality(h.held) \in 0..MaxMachines
    BY <1>1, SomeMachines
  <2>3. Cardinality(h.held) * k \in Nat /\ CampaignTime + Cardinality(h.held) * k + 2 * k <= LoopEnd
    BY <1>2, <2>2, Overruns
  <2>4. Takes(CallsEnd(1)) \/ Takes(CallsEnd(Cardinality(h.held)))
    BY <1>30, InjectFrame
  <2>5. CallsEnd(Cardinality(h.held)) = now + Cardinality(h.held) * k /\ CallsEnd(Cardinality(h.held)) \in Int
    BY <1>7, <2>2
  <2>6. now' + 2 * k <= LoopEnd
    BY <1>3, <1>4, <1>5, <1>6, <1>9, <2>1, <2>3, <2>4, <2>5
  <2>7. h'.pc \in {"tidy", "pause", "interrupted"}
    BY <1>1, <1>30, InjectEffect
  <2> QED BY <1>3, <1>4, <1>5, <2>6, <2>7, Arrives
<1>31. CASE ReadOriginal
  <2>1. h.pc = "inject" /\ now < CampaignTime /\ now' <= now + k
    BY <1>2, <1>9, <1>31, ReadOriginalFrame, Stands
  <2>2. (h'.pc = "faultSet" /\ h'.until = now + k) \/ h'.pc \in {"tidy", "pause", "interrupted"}
    BY <1>1, <1>8, <1>31, ReadOriginalEffect
  <2> QED BY <1>3, <1>4, <1>5, <2>1, <2>2, Arrives
<1>32. CASE SetFault
  <2>1. h.pc = "faultSet" /\ Takes(Patience)
    BY <1>32, SetFaultFrame
  <2>2. now' <= h.until /\ h.until < CampaignTime + k
    BY <1>2, <1>3, <1>6, <1>10, <2>1, PatienceIs, Stands
  <2>3. (h'.pc \in FaultSteps /\ h'.until = h.until) \/ h'.pc \in {"tidy", "pause"}
    BY <1>1, <1>32, SetFaultEffect
  <2> QED BY <1>3, <1>4, <1>5, <2>2, <2>3, Arrives
<1>33. CASE AwaitFault
  <2>1. h.pc = "faultWait" /\ Takes(Patience)
    BY <1>33, AwaitFaultFrame
  <2>2. now' <= h.until /\ h.until < CampaignTime + k
    BY <1>2, <1>3, <1>6, <1>10, <2>1, PatienceIs, Stands
  <2>3. (h'.pc \in FaultSteps /\ h'.until = h.until) \/ h'.pc \in {"tidy", "pause"}
    BY <1>1, <1>33, AwaitFaultEffect
  <2> QED BY <1>3, <1>4, <1>5, <2>2, <2>3, Arrives
<1>34. CASE ReadFault
  <2>1. h.pc = "faultRead" /\ Takes(Patience)
    BY <1>34, ReadFaultFrame
  <2>2. now' <= h.until /\ h.until < CampaignTime + k
    BY <1>2, <1>3, <1>6, <1>10, <2>1, PatienceIs, Stands
  <2>3. (h'.pc \in FaultSteps /\ h'.until = h.until) \/ h'.pc \in {"tidy", "pause"}
    BY <1>1, <1>34, ReadFaultEffect
  <2> QED BY <1>3, <1>4, <1>5, <2>2, <2>3, Arrives
<1>35. CASE UndoFault
  <2>1. h.pc = "faultUndo" /\ Takes(Patience)
    BY <1>35, UndoFaultFrame
  <2>2. now' <= h.until /\ h.until < CampaignTime + k
    BY <1>2, <1>3, <1>6, <1>10, <2>1, PatienceIs, Stands
  <2>3. (h'.pc \in FaultSteps /\ h'.until = h.until) \/ h'.pc \in {"tidy", "pause"}
    BY <1>1, <1>35, UndoFaultEffect
  <2> QED BY <1>3, <1>4, <1>5, <2>2, <2>3, Arrives
<1>36. CASE CheckFault
  <2>1. h.pc = "faultCheck" /\ Takes(Patience)
    BY <1>36, CheckFaultFrame
  <2>2. now' <= h.until /\ h.until < CampaignTime + k
    BY <1>2, <1>3, <1>6, <1>10, <2>1, PatienceIs, Stands
  <2>3. (h'.pc \in FaultSteps /\ h'.until = h.until) \/ h'.pc \in {"tidy", "pause"}
    BY <1>1, <1>36, CheckFaultEffect
  <2> QED BY <1>3, <1>4, <1>5, <2>2, <2>3, Arrives
<1>37. CASE CanaryKilled
  <2>1. now' = h.until /\ h.until < CampaignTime + k
    BY <1>2, <1>3, <1>37, CanaryKilledFrame, Stands DEF Lasts
  <2>2. h'.pc \in {"tidy", "interrupted"}
    BY <1>1, <1>37, CallFailsEffect
  <2> QED BY <1>3, <1>4, <1>5, <2>1, <2>2, Arrives
<1>38. CASE Tidy
  <2>1. now <= LoopEnd
    BY <1>2, <1>38, TidyFrame, Stands
  <2>2. PICK n \in 0..2 : Takes(Greatest(CallsEnd(n), Deadline))
    BY <1>38, TidyFrame
  <2>3. CallsEnd(n) = now + n * k /\ CallsEnd(n) \in Nat
    BY <1>7
  <2>4. n * k <= 2 * k /\ n * k \in Nat
    BY <1>4
  <2>5. Greatest(CallsEnd(n), Deadline) \in Int /\ Greatest(CallsEnd(n), Deadline) \in {CallsEnd(n), Deadline}
    BY <1>3, <2>3 DEF Greatest
  <2>6. now' <= LoopEnd + 2 * k
    BY <1>3, <1>4, <1>5, <1>6, <2>1, <2>2, <2>3, <2>4, <2>5
  <2>7. h'.pc = "stop" /\ h'.whole = FALSE
    BY <1>1, <1>38, TidyEffect
  <2> QED BY <1>3, <1>4, <1>5, <2>6, <2>7, Arrives
<1>39. CASE StopMachines
  <2>1. h.pc = "stop" /\ now <= CleanupBegin
    BY <1>2, <1>39, StopMachinesFrame, Stands
  <2>2. PICK S \in SUBSET h.todo, listed \in {CleanupTime, CleanupTime - 1} : Takes(CallsEnd(Cardinality(S)) + listed)
    BY <1>39, StopMachinesFrame
  <2>3. Cardinality(S) \in 0..MaxMachines
    BY <1>1, SomeMachines
  <2>4. Cardinality(S) * k \in Nat /\ CleanupTime + Cardinality(S) * k <= CleanupOverrun
    BY <1>2, <2>3, Overruns
  <2>5. CallsEnd(Cardinality(S)) = now + Cardinality(S) * k /\ CallsEnd(Cardinality(S)) \in Nat
    BY <1>7, <2>3
  <2>6. now' <= CleanupBegin + CleanupOverrun
    BY <1>3, <1>4, <1>5, <1>6, <2>1, <2>2, <2>4, <2>5
  <2>7. h'.pc \in {"recheck", "prove"} /\ h'.whole = h.whole /\ h'.until = now + CleanupTime
    BY <1>1, <1>39, StopMachinesEffect
  <2>8. h'.until <= CleanupBegin + CleanupTime
    BY <1>3, <1>4, <2>1, <2>7
  <2> QED BY <1>3, <1>4, <1>5, <2>6, <2>7, <2>8, Arrives
<1>40. CASE Recheck
  <2>1. h.pc = "recheck" /\ h.until <= CleanupBegin + CleanupTime
    BY <1>2, <1>40, RecheckFrame, Stands
  <2>2. PICK S \in SUBSET h.todo : Takes(h.until + Cardinality(S) * campaign.calls)
    BY <1>40, RecheckFrame
  <2>3. Cardinality(S) \in 0..MaxMachines
    BY <1>1, SomeMachines
  <2>4. Cardinality(S) * k \in Nat /\ CleanupTime + Cardinality(S) * k <= CleanupOverrun
    BY <1>2, <2>3, Overruns
  <2>5. now' <= CleanupBegin + CleanupOverrun
    BY <1>3, <1>4, <1>5, <1>6, <2>1, <2>2, <2>4
  <2>6. h'.pc \in {"recheck", "prove"} /\ h'.whole = h.whole /\ h'.until = h.until
    BY <1>1, <1>40, RecheckEffect
  <2> QED BY <1>3, <1>4, <1>5, <2>1, <2>5, <2>6, Arrives
<1>41. CASE ProveAbsent
  <2>1. now <= CleanupBegin + CleanupOverrun /\ h.until <= CleanupBegin + CleanupTime /\ Takes(Greatest(now, h.until))
    BY <1>2, <1>41, ProveAbsentFrame, Stands
  <2>2. CleanupTime <= CleanupOverrun
    BY <1>2, <1>3, Overruns, Limits
  <2>3. now' <= CleanupBegin + CleanupOverrun
    BY <1>3, <1>4, <1>5, <1>6, <1>10, <2>1, <2>2
  <2>4. h'.pc = AfterCleanup
    BY <1>1, <1>41, ProveAbsentEffect
  <2>5. (h.whole /\ h'.pc = "score") \/ (~h.whole /\ h'.pc \in {"result", "restore"})
    BY <2>4 DEF AfterCleanup
  <2>6. CleanupBegin = LoopEnd + IF h.whole THEN CleanupOverrun + 9 * k ELSE 2 * k
    BY DEF CleanupBegin
  <2> QED BY <1>3, <1>4, <1>5, <2>3, <2>5, <2>6, Arrives
<1>42. CASE ReadBack
  <2>1. now' <= LoopEnd + CleanupOverrun + 3 * k
    BY <1>2, <1>3, <1>4, <1>5, <1>9, <1>42, ReadBackFrame, Stands
  <2>2. h'.pc \in {"result", "verify", "putback"}
    BY <1>1, <1>42, ReadBackEffect
  <2> QED BY <1>3, <1>4, <1>5, <2>1, <2>2, Arrives
<1>43. CASE PutBack
  <2>1. now' <= LoopEnd + CleanupOverrun + 4 * k
    BY <1>2, <1>3, <1>4, <1>5, <1>9, <1>43, PutBackFrame, Stands
  <2>2. h'.pc \in {"result", "verify"}
    BY <1>1, <1>43, PutBackEffect
  <2> QED BY <1>3, <1>4, <1>5, <2>1, <2>2, Arrives
<1>44. CASE VerifyRestored
  <2>1. now' <= LoopEnd + CleanupOverrun + 5 * k
    BY <1>2, <1>3, <1>4, <1>5, <1>9, <1>44, VerifyRestoredFrame, Stands
  <2>2. h'.pc = "result"
    BY <1>1, <1>44, VerifyRestoredEffect
  <2> QED BY <1>3, <1>4, <1>5, <2>1, <2>2, Arrives
<1>45. CASE ScenarioResult
  <2>1. now <= LoopEnd + CleanupOverrun + 5 * k
    BY <1>2, <1>45, ScenarioResultFrame, Stands
  <2>2. PICK n \in 0..4 : now' \in now..CallsEnd(n)
    BY <1>45, ScenarioResultFrame
  <2>3. CallsEnd(n) = now + n * k /\ CallsEnd(n) \in Nat
    BY <1>7
  <2>4. n * k <= 4 * k /\ n * k \in Nat
    BY <1>4
  <2>5. now' <= LoopEnd + CleanupOverrun + 9 * k
    BY <1>3, <1>4, <1>5, <2>1, <2>2, <2>3, <2>4
  <2>6. h'.pc = "next"
    BY <1>1, <1>45, ScenarioResultEffect
  <2> QED BY <1>3, <1>4, <1>5, <2>5, <2>6, Arrives
<1>46. CASE DependentFailure
  <2>1. now' < CampaignTime
    BY <1>2, <1>6, <1>46, DependentFailureFrame, Stands
  <2>2. h'.pc = "next"
    BY <1>1, <1>46, DependentFailureEffect
  <2> QED BY <1>3, <1>4, <1>5, <2>1, <2>2, Arrives
<1>47. CASE Scorecard
  <2>1. now' <= LoopEnd + 2 * CleanupOverrun + 9 * k
    BY <1>2, <1>6, <1>47, ScorecardFrame, Stands
  <2>2. h'.pc = "ended"
    BY <1>1, <1>47, ScorecardEffect
  <2> QED BY <1>3, <1>4, <1>5, <2>1, <2>2, Arrives
<1> QED
  BY <1>11, <1>12, <1>13, <1>14, <1>15, <1>16, <1>17, <1>18, <1>19, <1>20, <1>21, <1>22, <1>23,
     <1>24, <1>25, <1>26, <1>27, <1>28, <1>29, <1>30, <1>31, <1>32, <1>33, <1>34, <1>35, <1>36,
     <1>37, <1>38, <1>39, <1>40, <1>41, <1>42, <1>43, <1>44, <1>45, <1>46, <1>47
     DEF HarnessNext

\* Before a scenario begins it has no machine to pay for.
LEMMA IdleRented == ASSUME Numbered, h.pc \in {"start", "quiet", "begin"} PROVE Rented = {}
<1>1. CASE h.pc = "start"
  BY <1>1 DEF Numbered, Rented
<1>2. CASE h.pc \in {"quiet", "begin"}
  <2>1. served[h.n] = << >>
    BY <1>2 DEF Numbered
  <2>2. Range(served[h.n]) = {}
    BY <2>1 DEF Range
  <2> QED BY <2>2 DEF Rented
<1> QED BY <1>1, <1>2

\* Rent and meters go on together.
LEMMA ChargedKept ==
    ASSUME BenchInv, HarnessNext
    PROVE  Charged'
<1> USE FieldNames DEF Idle, Goes, Aborts, Returns, Inside, Looping, Leaving, Before, Rounds, FaultSteps, Removing, PuttingBack,
      SameWorld, SameConfig, SameJobs, SameMachines, Recorded
<1>1. Shape /\ DOMAIN h = Fields /\ h.todo \subseteq Machines /\ h.absent \subseteq Machines
  BY DEF BenchInv, Shape, HarnessShape
<1>2. Charged /\ h.started \in Nat /\ now \in Nat /\ rent \in [Machines -> Nat]
  BY DEF BenchInv, Shape, HarnessShape, WorldShape
<1>3. Still \/ Elapses =>
        /\ now' \in Nat /\ now <= now' /\ rent' \in [Machines -> Nat]
        /\ \A m \in Machines : rent'[m] <= rent[m] + (now' - now)
        /\ Rented = {} => \A m \in Machines : rent'[m] = rent[m]
  BY <1>2, ElapsesClock
<1>4. /\ h.pc \in {"start", "quiet", "begin"} => Rented = {}
      /\ \A t : Takes(t) => Elapses
      /\ \A d \in Nat : Lasts(d) => Elapses
  BY IdleRented, TakesElapses DEF BenchInv, Shape, Elapses
<1>5. Inside /\ (Still \/ Elapses) => h.started <= now' /\ \A m \in Machines : rent'[m] <= now' - h.started
  <2> SUFFICES ASSUME Inside, Still \/ Elapses
               PROVE  h.started <= now' /\ \A m \in Machines : rent'[m] <= now' - h.started
    OBVIOUS
  <2>1. h.started <= now /\ \A m \in Machines : rent[m] <= now - h.started
    BY <1>2 DEF Charged
  <2>2. now' \in Nat /\ now <= now' /\ rent' \in [Machines -> Nat] /\ \A m \in Machines : rent'[m] <= rent[m] + (now' - now)
    BY <1>3
  <2> HIDE DEF Inside
  <2> QED BY <1>2, <2>1, <2>2
<1>6. Inside /\ (Still \/ Elapses) /\ UNCHANGED <<h.started, h.held, h.seen, results>> /\ h'.pc \notin Idle => Charged'
  BY <1>2, <1>5 DEF Charged, Idle, EstimateCoversRent
<1>7. UNCHANGED results /\ ~Inside' /\ (h'.pc \in Idle => h.pc \in Idle /\ \A m \in Machines : rent'[m] = rent[m]) => Charged'
  BY <1>2 DEF Charged, Idle, EstimateCoversRent
<1>8. h.held \subseteq Machines /\ h.seen \in [Machines -> Nat] /\ (Inside => ~h.whole)
  BY DEF BenchInv, Shape, HarnessShape, Numbered
<1>9. CASE Start
  BY <1>1, <1>2, <1>3, <1>4, <1>5, <1>6, <1>7, <1>8, <1>9, StartFrame, StartEffect DEF Still
<1>10. CASE NextScenario
  BY <1>1, <1>2, <1>3, <1>4, <1>5, <1>6, <1>7, <1>8, <1>10, NextScenarioFrame, NextScenarioEffect DEF Still
<1>11. CASE AwaitQuiet
  <2>1. h.pc = "quiet" /\ (Still \/ Lasts(1)) /\ UNCHANGED results
    BY <1>11, AwaitQuietFrame
  <2>2. \A m \in Machines : rent'[m] = rent[m]
    BY <1>1, <1>2, <1>3, <1>4, <1>5, <1>6, <1>7, <1>8, <2>1
  <2>3. h'.pc \in Idle \cup {"raised"}
    BY <1>1, <1>2, <1>3, <1>4, <1>5, <1>6, <1>7, <1>8, <1>11, AwaitQuietEffect
  <2> QED BY <1>1, <1>2, <1>3, <1>4, <1>5, <1>6, <1>7, <1>8, <2>1, <2>2, <2>3
<1>12. CASE BeginScenario
  <2>1. h.pc = "begin" /\ Elapses /\ UNCHANGED results
    BY <1>4, <1>12, BeginScenarioFrame
  <2>2. h'.pc = "raised" \/ (h'.started = now /\ h'.held = {} /\ h'.pc \notin Idle)
    BY <1>1, <1>2, <1>3, <1>4, <1>5, <1>6, <1>7, <1>8, <1>12, BeginScenarioEffect
  <2>3. now' \in Nat /\ now <= now' /\ \A m \in Machines : rent'[m] = 0
    BY <1>2, <1>3, <1>4, <2>1 DEF Charged
  <2>4. CASE h'.pc = "raised"
    BY <1>2, <2>1, <2>4 DEF Charged, EstimateCoversRent
  <2>5. CASE h'.started = now /\ h'.held = {} /\ h'.pc \notin Idle
    BY <1>2, <2>1, <2>3, <2>5 DEF Charged, EstimateCoversRent
  <2> QED BY <2>2, <2>4, <2>5
<1>13. CASE ReadSetting
  BY <1>1, <1>2, <1>3, <1>4, <1>5, <1>6, <1>7, <1>8, <1>13, ReadSettingFrame, ReadSettingEffect
<1>14. CASE ApplySetting
  BY <1>1, <1>2, <1>3, <1>4, <1>5, <1>6, <1>7, <1>8, <1>14, ApplySettingFrame, ApplySettingEffect
<1>15. CASE ConfirmSetting
  BY <1>1, <1>2, <1>3, <1>4, <1>5, <1>6, <1>7, <1>8, <1>15, ConfirmSettingFrame, ConfirmSettingEffect
<1>16. CASE ArmHook
  BY <1>1, <1>2, <1>3, <1>4, <1>5, <1>6, <1>7, <1>8, <1>16, ArmHookFrame, ArmHookEffect
<1>17. CASE Submit
  BY <1>1, <1>2, <1>3, <1>4, <1>5, <1>6, <1>7, <1>8, <1>17, SubmitFrame, SubmitEffect
<1>18. CASE SubmitTooLate
  BY <1>1, <1>2, <1>3, <1>4, <1>5, <1>6, <1>7, <1>8, <1>18, SubmitTooLateFrame, SubmitTooLateEffect
<1>19. CASE ReadEvents
  BY <1>1, <1>2, <1>3, <1>4, <1>5, <1>6, <1>7, <1>8, <1>19, ReadEventsFrame, ReadEventsEffect
<1>20. CASE NextEvent
  <2> DEFINE m == journal[h.n][h.handled + 1].machine
  <2>1. Inside /\ (Still \/ Elapses) /\ UNCHANGED <<h.started, results>> /\ h'.pc \notin Idle
    BY <1>1, <1>2, <1>3, <1>4, <1>5, <1>6, <1>7, <1>8, <1>20, NextEventFrame, NextEventEffect DEF Metering
  <2>2. m \in Machines /\ (Holds(m) \/ Doubts(m))
    BY <1>1, <1>2, <1>3, <1>4, <1>5, <1>6, <1>7, <1>8, <1>20, NextEventEffect, EventAtHand DEF Entry
  <2> HIDE DEF m
  <2>3. \A k \in h'.held : h'.seen[k] = h'.started
    BY <1>1, <1>2, <1>3, <1>4, <1>5, <1>6, <1>7, <1>8, <2>1, <2>2 DEF Charged, Holds, Doubts
  <2> QED BY <1>1, <1>2, <1>3, <1>4, <1>5, <1>6, <1>7, <1>8, <2>1, <2>3 DEF Charged, EstimateCoversRent
<1>21. CASE RoundTooLate
  BY <1>1, <1>2, <1>3, <1>4, <1>5, <1>6, <1>7, <1>8, <1>21, RoundTooLateFrame, RoundTooLateEffect
<1>22. CASE Meter
  BY <1>1, <1>2, <1>3, <1>4, <1>5, <1>6, <1>7, <1>8, <1>22, MeterFrame, MeterEffect
<1>23. CASE Look
  BY <1>1, <1>2, <1>3, <1>4, <1>5, <1>6, <1>7, <1>8, <1>23, LookFrame, LookEffect
<1>24. CASE Pause
  BY <1>1, <1>2, <1>3, <1>4, <1>5, <1>6, <1>7, <1>8, <1>24, PauseFrame, PauseEffect
<1>25. CASE CancelJob
  BY <1>1, <1>2, <1>3, <1>4, <1>5, <1>6, <1>7, <1>8, <1>25, CancelJobFrame, CancelJobEffect
<1>26. CASE CancelInterrupted
  BY <1>1, <1>2, <1>3, <1>4, <1>5, <1>6, <1>7, <1>8, <1>26, CancelInterruptedFrame, CancelInterruptedEffect
<1>27. CASE CallFails
  BY <1>1, <1>2, <1>3, <1>4, <1>5, <1>6, <1>7, <1>8, <1>27, CallFailsFrame, CallFailsEffect
<1>28. CASE Interrupted
  BY <1>1, <1>2, <1>3, <1>4, <1>5, <1>6, <1>7, <1>8, <1>28, InterruptedFrame, InterruptedEffect
<1>29. CASE Inject
  BY <1>1, <1>2, <1>3, <1>4, <1>5, <1>6, <1>7, <1>8, <1>29, InjectFrame, InjectEffect
<1>30. CASE ReadOriginal
  BY <1>1, <1>2, <1>3, <1>4, <1>5, <1>6, <1>7, <1>8, <1>30, ReadOriginalFrame, ReadOriginalEffect
<1>31. CASE SetFault
  BY <1>1, <1>2, <1>3, <1>4, <1>5, <1>6, <1>7, <1>8, <1>31, SetFaultFrame, SetFaultEffect
<1>32. CASE AwaitFault
  BY <1>1, <1>2, <1>3, <1>4, <1>5, <1>6, <1>7, <1>8, <1>32, AwaitFaultFrame, AwaitFaultEffect
<1>33. CASE ReadFault
  BY <1>1, <1>2, <1>3, <1>4, <1>5, <1>6, <1>7, <1>8, <1>33, ReadFaultFrame, ReadFaultEffect
<1>34. CASE UndoFault
  BY <1>1, <1>2, <1>3, <1>4, <1>5, <1>6, <1>7, <1>8, <1>34, UndoFaultFrame, UndoFaultEffect
<1>35. CASE CheckFault
  BY <1>1, <1>2, <1>3, <1>4, <1>5, <1>6, <1>7, <1>8, <1>35, CheckFaultFrame, CheckFaultEffect
<1>36. CASE CanaryKilled
  <2>1. Still \/ Elapses
    BY <1>36, HarnessKeeps, CanaryKilledFrame, ScenarioResultFrame DEF HarnessMoves
  <2> QED BY <1>1, <1>6, <1>36, <2>1, CanaryKilledFrame, CallFailsEffect
<1>37. CASE Tidy
  BY <1>1, <1>2, <1>3, <1>4, <1>5, <1>6, <1>7, <1>8, <1>37, TidyFrame, TidyEffect
<1>38. CASE StopMachines
  BY <1>1, <1>2, <1>3, <1>4, <1>5, <1>6, <1>7, <1>8, <1>38, StopMachinesFrame, StopMachinesEffect
<1>39. CASE Recheck
  BY <1>1, <1>2, <1>3, <1>4, <1>5, <1>6, <1>7, <1>8, <1>39, RecheckFrame, RecheckEffect
<1>40. CASE ProveAbsent
  BY <1>1, <1>2, <1>3, <1>4, <1>5, <1>6, <1>7, <1>8, <1>40, ProveAbsentFrame, ProveAbsentEffect DEF AfterCleanup
<1>41. CASE ReadBack
  BY <1>1, <1>2, <1>3, <1>4, <1>5, <1>6, <1>7, <1>8, <1>41, ReadBackFrame, ReadBackEffect
<1>42. CASE PutBack
  BY <1>1, <1>2, <1>3, <1>4, <1>5, <1>6, <1>7, <1>8, <1>42, PutBackFrame, PutBackEffect
<1>43. CASE VerifyRestored
  BY <1>1, <1>2, <1>3, <1>4, <1>5, <1>6, <1>7, <1>8, <1>43, VerifyRestoredFrame, VerifyRestoredEffect
<1>44. CASE ScenarioResult
  <2>1. PICK r : results' = Append(results, r) /\ r.undercharged = Undercharged
    BY <1>44, ScenarioRecord
  <2>2. ~r.undercharged
    BY <1>1, <1>2, <1>3, <1>4, <1>5, <1>6, <1>7, <1>8, <1>44, <2>1, ScenarioResultFrame, NotUndercharged
  <2>3. EstimateCoversRent'
    BY <1>1, <1>2, <1>3, <1>4, <1>5, <1>6, <1>7, <1>8, <2>1, <2>2, Appending DEF Charged, EstimateCoversRent
  <2>4. h'.pc = "next" /\ ~Inside' /\ \A m \in Machines : rent'[m] = 0
    BY <1>1, <1>2, <1>3, <1>4, <1>5, <1>6, <1>7, <1>8, <1>44, ScenarioResultFrame, ScenarioResultEffect
  <2> QED BY <2>3, <2>4 DEF Charged
<1>45. CASE DependentFailure
  <2>1. PICK r : results' = Append(results, r) /\ r.undercharged = FALSE
    BY <1>45, DependentRecord
  <2>2. EstimateCoversRent'
    BY <1>1, <1>2, <1>3, <1>4, <1>5, <1>6, <1>7, <1>8, <2>1, Appending DEF Charged, EstimateCoversRent
  <2>3. h'.pc = "next" /\ ~Inside' /\ rent' = rent /\ h.pc = "begin"
    BY <1>1, <1>2, <1>3, <1>4, <1>5, <1>6, <1>7, <1>8, <1>45, DependentFailureFrame, DependentFailureEffect DEF Still
  <2> QED BY <1>1, <1>2, <1>3, <1>4, <1>5, <1>6, <1>7, <1>8, <2>2, <2>3 DEF Charged
<1>46. CASE Scorecard
  BY <1>1, <1>2, <1>3, <1>4, <1>5, <1>6, <1>7, <1>8, <1>46, ScorecardFrame, ScorecardEffect
<1> QED
  BY <1>9, <1>10, <1>11, <1>12, <1>13, <1>14, <1>15, <1>16, <1>17, <1>18, <1>19, <1>20, <1>21, <1>22, 
     <1>23, <1>24, <1>25, <1>26, <1>27, <1>28, <1>29, <1>30, <1>31, <1>32, <1>33, <1>34, <1>35, 
     <1>36, <1>37, <1>38, <1>39, <1>40, <1>41, <1>42, <1>43, <1>44, <1>45, <1>46
     DEF HarnessNext

\* A machine that was read of stays with the harness.
LEMMA ReadIsHeldKept ==
    ASSUME BenchInv, HarnessNext
    PROVE  ReadIsHeld'
<1> USE FieldNames DEF ReadIsHeld, MachineRead, Goes, Aborts, Returns, Inside, Looping, Leaving, Before, Rounds, FaultSteps, Removing, PuttingBack,
      SameWorld, SameConfig, SameJobs, SameMachines, Recorded
<1>1. Shape /\ DOMAIN h = Fields /\ h.todo \subseteq Machines /\ h.absent \subseteq Machines
  BY DEF BenchInv, Shape, HarnessShape
<1>2. ReadIsHeld /\ Cursors /\ journal' = journal
  BY HarnessKeeps DEF BenchInv, Shape, HarnessMoves
<1>3. UNCHANGED <<h.n, h.handled, h.held, h.unproved>> /\ Inside => ReadIsHeld'
  BY <1>2 DEF ReadIsHeld, MachineRead
<1>4. ~Inside' => ReadIsHeld'
  BY DEF ReadIsHeld
<1>5. CASE Start
  BY <1>1, <1>2, <1>3, <1>4, <1>5, StartFrame, StartEffect
<1>6. CASE NextScenario
  BY <1>1, <1>2, <1>3, <1>4, <1>6, NextScenarioFrame, NextScenarioEffect
<1>7. CASE AwaitQuiet
  BY <1>1, <1>2, <1>3, <1>4, <1>7, AwaitQuietFrame, AwaitQuietEffect
<1>8. CASE BeginScenario
  BY <1>1, <1>2, <1>3, <1>4, <1>8, BeginScenarioFrame, BeginScenarioEffect
<1>9. CASE ReadSetting
  BY <1>1, <1>2, <1>3, <1>4, <1>9, ReadSettingFrame, ReadSettingEffect
<1>10. CASE ApplySetting
  BY <1>1, <1>2, <1>3, <1>4, <1>10, ApplySettingFrame, ApplySettingEffect
<1>11. CASE ConfirmSetting
  BY <1>1, <1>2, <1>3, <1>4, <1>11, ConfirmSettingFrame, ConfirmSettingEffect
<1>12. CASE ArmHook
  BY <1>1, <1>2, <1>3, <1>4, <1>12, ArmHookFrame, ArmHookEffect
<1>13. CASE Submit
  BY <1>1, <1>2, <1>3, <1>4, <1>13, SubmitFrame, SubmitEffect
<1>14. CASE SubmitTooLate
  BY <1>1, <1>2, <1>3, <1>4, <1>14, SubmitTooLateFrame, SubmitTooLateEffect
<1>15. CASE ReadEvents
  BY <1>1, <1>2, <1>3, <1>4, <1>15, ReadEventsFrame, ReadEventsEffect
<1>16. CASE NextEvent
  <2> DEFINE m == journal[h.n][h.handled + 1].machine
  <2>1. h.pc = "events" /\ h.handled \in Nat /\ m = MachineRead(h.n, h.handled + 1)
    BY <1>1, <1>2, <1>3, <1>4, <1>16, NextEventFrame, Limits DEF Shape, HarnessShape
  <2>2. /\ UNCHANGED h.n
        /\ Holds(m) \/ Doubts(m)
        /\ h'.handled \in {h.handled, h.handled + 1}
    BY <1>1, <1>2, <1>3, <1>4, <1>16, NextEventEffect DEF Metering
  <2> HIDE DEF m
  <2>3. \A i \in 1..h.handled : MachineRead(h.n, i) \in h.held \cup h.unproved
    BY <1>2, <2>1 DEF ReadIsHeld
  <2>4. h.held \cup h.unproved \subseteq h'.held \cup h'.unproved /\ m \in h'.held \cup h'.unproved
    BY <2>2 DEF Holds, Doubts
  <2>5. \A i \in 1..(h.handled + 1) : MachineRead(h.n, i) \in h'.held \cup h'.unproved
    BY <2>1, <2>3, <2>4
  <2>6. \A i \in 1..h'.handled : i \in 1..(h.handled + 1) /\ MachineRead(h.n, i)' = MachineRead(h.n, i)
    BY <1>2, <2>1, <2>2 DEF MachineRead
  <2> QED BY <2>2, <2>5, <2>6 DEF ReadIsHeld
<1>17. CASE RoundTooLate
  BY <1>1, <1>2, <1>3, <1>4, <1>17, RoundTooLateFrame, RoundTooLateEffect
<1>18. CASE Meter
  BY <1>1, <1>2, <1>3, <1>4, <1>18, MeterFrame, MeterEffect
<1>19. CASE Look
  BY <1>1, <1>2, <1>3, <1>4, <1>19, LookFrame, LookEffect
<1>20. CASE Pause
  BY <1>1, <1>2, <1>3, <1>4, <1>20, PauseFrame, PauseEffect
<1>21. CASE CancelJob
  BY <1>1, <1>2, <1>3, <1>4, <1>21, CancelJobFrame, CancelJobEffect
<1>22. CASE CancelInterrupted
  BY <1>1, <1>2, <1>3, <1>4, <1>22, CancelInterruptedFrame, CancelInterruptedEffect
<1>23. CASE CallFails
  BY <1>1, <1>2, <1>3, <1>4, <1>23, CallFailsFrame, CallFailsEffect
<1>24. CASE Interrupted
  BY <1>1, <1>2, <1>3, <1>4, <1>24, InterruptedFrame, InterruptedEffect
<1>25. CASE Inject
  BY <1>1, <1>2, <1>3, <1>4, <1>25, InjectFrame, InjectEffect
<1>26. CASE ReadOriginal
  BY <1>1, <1>2, <1>3, <1>4, <1>26, ReadOriginalFrame, ReadOriginalEffect
<1>27. CASE SetFault
  BY <1>1, <1>2, <1>3, <1>4, <1>27, SetFaultFrame, SetFaultEffect
<1>28. CASE AwaitFault
  BY <1>1, <1>2, <1>3, <1>4, <1>28, AwaitFaultFrame, AwaitFaultEffect
<1>29. CASE ReadFault
  BY <1>1, <1>2, <1>3, <1>4, <1>29, ReadFaultFrame, ReadFaultEffect
<1>30. CASE UndoFault
  BY <1>1, <1>2, <1>3, <1>4, <1>30, UndoFaultFrame, UndoFaultEffect
<1>31. CASE CheckFault
  BY <1>1, <1>2, <1>3, <1>4, <1>31, CheckFaultFrame, CheckFaultEffect
<1>32. CASE CanaryKilled
  BY <1>1, <1>2, <1>3, <1>4, <1>32, CanaryKilledFrame, CallFailsEffect
<1>33. CASE Tidy
  BY <1>1, <1>2, <1>3, <1>4, <1>33, TidyFrame, TidyEffect
<1>34. CASE StopMachines
  BY <1>1, <1>2, <1>3, <1>4, <1>34, StopMachinesFrame, StopMachinesEffect
<1>35. CASE Recheck
  BY <1>1, <1>2, <1>3, <1>4, <1>35, RecheckFrame, RecheckEffect
<1>36. CASE ProveAbsent
  BY <1>1, <1>2, <1>3, <1>4, <1>36, ProveAbsentFrame, ProveAbsentEffect DEF AfterCleanup
<1>37. CASE ReadBack
  BY <1>1, <1>2, <1>3, <1>4, <1>37, ReadBackFrame, ReadBackEffect
<1>38. CASE PutBack
  BY <1>1, <1>2, <1>3, <1>4, <1>38, PutBackFrame, PutBackEffect
<1>39. CASE VerifyRestored
  BY <1>1, <1>2, <1>3, <1>4, <1>39, VerifyRestoredFrame, VerifyRestoredEffect
<1>40. CASE ScenarioResult
  BY <1>1, <1>2, <1>3, <1>4, <1>40, ScenarioResultFrame, ScenarioResultEffect
<1>41. CASE DependentFailure
  BY <1>1, <1>2, <1>3, <1>4, <1>41, DependentFailureFrame, DependentFailureEffect
<1>42. CASE Scorecard
  BY <1>1, <1>2, <1>3, <1>4, <1>42, ScorecardFrame, ScorecardEffect
<1> QED
  BY <1>5, <1>6, <1>7, <1>8, <1>9, <1>10, <1>11, <1>12, <1>13, <1>14, <1>15, <1>16, <1>17, <1>18, 
     <1>19, <1>20, <1>21, <1>22, <1>23, <1>24, <1>25, <1>26, <1>27, <1>28, <1>29, <1>30, <1>31, 
     <1>32, <1>33, <1>34, <1>35, <1>36, <1>37, <1>38, <1>39, <1>40, <1>41, <1>42
     DEF HarnessNext

\* What the results say was read is accounted for.
LEMMA ReadIsRecordedKept ==
    ASSUME BenchInv, HarnessNext
    PROVE  ReadIsRecorded'
<1>1. Shape /\ ReadIsRecorded /\ ReadIsHeld /\ journal' = journal
  BY HarnessKeeps DEF BenchInv, HarnessMoves
<1>2. ASSUME NEW r, results' = Append(results, r), r.handled <= Len(journal[r.n]),
             r.unproved = {} => \A k \in 1..r.handled : MachineRead(r.n, k) \in r.held
      PROVE  ReadIsRecorded'
  <2>1. \A i \in DOMAIN results' : (i \in DOMAIN results /\ results'[i] = results[i]) \/ results'[i] = r
    BY <1>1, <1>2, Appending
  <2> QED BY <1>1, <1>2, <2>1 DEF ReadIsRecorded, MachineRead
<1>3. CASE ScenarioResult
  <2>1. h.pc = "result" /\ Leaving /\ Inside
    BY <1>3, ScenarioResultFrame DEF Inside, Leaving, PuttingBack
  <2>2. PICK r : /\ results' = Append(results, r) /\ r.n = h.n
                 /\ r.handled = h.handled /\ r.held = h.held /\ r.unproved = h.unproved
    BY <1>3, ScenarioRecord
  <2>3. r.handled <= Len(journal[r.n])
    BY <1>1, <2>1, <2>2 DEF Shape, Cursors
  <2>4. r.unproved = {} => \A k \in 1..r.handled : MachineRead(r.n, k) \in r.held
    BY <1>1, <2>1, <2>2 DEF ReadIsHeld
  <2> QED BY <1>2, <2>2, <2>3, <2>4
<1>4. CASE DependentFailure
  <2>1. h.n \in ScenarioNo
    BY <1>1, <1>4, DependentFailureFrame DEF Shape, Numbered
  <2>2. PICK r : results' = Append(results, r) /\ r.n = h.n /\ r.handled = 0 /\ r.held = {} /\ r.unproved = {}
    BY <1>4, DependentRecord
  <2>3. Len(journal[h.n]) \in 0..MaxEntries
    BY <1>1, <2>1, JournalLengths DEF Shape
  <2> QED BY <1>2, <2>2, <2>3, Limits
<1>5. CASE ~ScenarioResult /\ ~DependentFailure
  <2>1. UNCHANGED results
    BY <1>5, HarnessKeeps DEF HarnessMoves
  <2> QED BY <1>1, <2>1 DEF ReadIsRecorded, MachineRead
<1> QED BY <1>3, <1>4, <1>5

\* The last listing is of every machine held.
LEMMA ListedLastKept ==
    ASSUME BenchInv, HarnessNext
    PROVE  ListedLast'
<1> USE FieldNames DEF ListedLast, AtTheEnd, EveryHeld, ConfirmedMeansGone, Goes, Aborts, Returns, Inside, Looping, Leaving, Before, Rounds, FaultSteps, Removing, PuttingBack,
      SameWorld, SameConfig, SameJobs, SameMachines, Recorded
<1>1. Shape /\ DOMAIN h = Fields /\ h.todo \subseteq Machines /\ h.absent \subseteq Machines
  BY DEF BenchInv, Shape, HarnessShape
<1>2. ListedLast
  BY DEF BenchInv
<1>3. CASE Start
  BY <1>1, <1>2, <1>3, StartFrame, StartEffect
<1>4. CASE NextScenario
  <2>1. score' = score /\ UNCHANGED <<results, journal, up>> /\ h.pc = "next"
    BY <1>1, <1>2, <1>4, NextScenarioFrame
  <2>2. \/ h'.pc = (IF h.blind THEN "score" ELSE "stop") /\ h'.blind = h.blind /\ h'.todo = EveryHeld
        \/ h'.pc = "quiet"
    BY <1>1, <1>2, <1>4, NextScenarioEffect
  <2> QED BY <1>1, <1>2, <2>1, <2>2
<1>5. CASE AwaitQuiet
  BY <1>1, <1>2, <1>5, AwaitQuietFrame, AwaitQuietEffect
<1>6. CASE BeginScenario
  BY <1>1, <1>2, <1>6, BeginScenarioFrame, BeginScenarioEffect
<1>7. CASE ReadSetting
  BY <1>1, <1>2, <1>7, ReadSettingFrame, ReadSettingEffect
<1>8. CASE ApplySetting
  BY <1>1, <1>2, <1>8, ApplySettingFrame, ApplySettingEffect
<1>9. CASE ConfirmSetting
  BY <1>1, <1>2, <1>9, ConfirmSettingFrame, ConfirmSettingEffect
<1>10. CASE ArmHook
  BY <1>1, <1>2, <1>10, ArmHookFrame, ArmHookEffect
<1>11. CASE Submit
  BY <1>1, <1>2, <1>11, SubmitFrame, SubmitEffect
<1>12. CASE SubmitTooLate
  BY <1>1, <1>2, <1>12, SubmitTooLateFrame, SubmitTooLateEffect
<1>13. CASE ReadEvents
  BY <1>1, <1>2, <1>13, ReadEventsFrame, ReadEventsEffect
<1>14. CASE NextEvent
  BY <1>1, <1>2, <1>14, NextEventFrame, NextEventEffect DEF Metering
<1>15. CASE RoundTooLate
  BY <1>1, <1>2, <1>15, RoundTooLateFrame, RoundTooLateEffect
<1>16. CASE Meter
  BY <1>1, <1>2, <1>16, MeterFrame, MeterEffect
<1>17. CASE Look
  BY <1>1, <1>2, <1>17, LookFrame, LookEffect
<1>18. CASE Pause
  BY <1>1, <1>2, <1>18, PauseFrame, PauseEffect
<1>19. CASE CancelJob
  BY <1>1, <1>2, <1>19, CancelJobFrame, CancelJobEffect
<1>20. CASE CancelInterrupted
  BY <1>1, <1>2, <1>20, CancelInterruptedFrame, CancelInterruptedEffect
<1>21. CASE CallFails
  BY <1>1, <1>2, <1>21, CallFailsFrame, CallFailsEffect
<1>22. CASE Interrupted
  BY <1>1, <1>2, <1>22, InterruptedFrame, InterruptedEffect
<1>23. CASE Inject
  BY <1>1, <1>2, <1>23, InjectFrame, InjectEffect
<1>24. CASE ReadOriginal
  BY <1>1, <1>2, <1>24, ReadOriginalFrame, ReadOriginalEffect
<1>25. CASE SetFault
  BY <1>1, <1>2, <1>25, SetFaultFrame, SetFaultEffect
<1>26. CASE AwaitFault
  BY <1>1, <1>2, <1>26, AwaitFaultFrame, AwaitFaultEffect
<1>27. CASE ReadFault
  BY <1>1, <1>2, <1>27, ReadFaultFrame, ReadFaultEffect
<1>28. CASE UndoFault
  BY <1>1, <1>2, <1>28, UndoFaultFrame, UndoFaultEffect
<1>29. CASE CheckFault
  BY <1>1, <1>2, <1>29, CheckFaultFrame, CheckFaultEffect
<1>30. CASE CanaryKilled
  BY <1>1, <1>2, <1>30, CanaryKilledFrame, CallFailsEffect
<1>31. CASE Tidy
  BY <1>1, <1>2, <1>31, TidyFrame, TidyEffect
<1>32. CASE StopMachines
  BY <1>1, <1>2, <1>32, StopMachinesFrame, StopMachinesEffect
<1>33. CASE Recheck
  BY <1>1, <1>2, <1>33, RecheckFrame, RecheckEffect
<1>34. CASE ProveAbsent
  BY <1>1, <1>2, <1>34, ProveAbsentFrame, ProveAbsentEffect DEF AfterCleanup
<1>35. CASE ReadBack
  BY <1>1, <1>2, <1>35, ReadBackFrame, ReadBackEffect
<1>36. CASE PutBack
  BY <1>1, <1>2, <1>36, PutBackFrame, PutBackEffect
<1>37. CASE VerifyRestored
  BY <1>1, <1>2, <1>37, VerifyRestoredFrame, VerifyRestoredEffect
<1>38. CASE ScenarioResult
  BY <1>1, <1>2, <1>38, ScenarioResultFrame, ScenarioResultEffect
<1>39. CASE DependentFailure
  BY <1>1, <1>2, <1>39, DependentFailureFrame, DependentFailureEffect
<1>40. CASE Scorecard
  <2>1. h.pc = "score" /\ UNCHANGED <<results, journal, up>> /\ h'.pc = "ended"
    BY <1>1, <1>2, <1>40, ScorecardFrame, ScorecardEffect
  <2>2. ASSUME score'.proof = "confirmed"
        PROVE  \A i \in DOMAIN results : \A k \in 1..results[i].handled : journal[results[i].n][k].machine \notin up
    <3>1. ~AuditError /\ h.todo \subseteq h.absent /\ Unknown = {}
      BY <1>40, <2>2 DEF Scorecard
    <3>2. h.todo \cap up = {}
      BY <1>1, <1>2, <2>1, <3>1 DEF AuditError
    <3>3. SUFFICES ASSUME NEW i \in DOMAIN results, NEW k \in 1..results[i].handled
                   PROVE  journal[results[i].n][k].machine \notin up
      BY <3>2
    <3>4. results[i].unproved = {}
      BY <3>1 DEF Unknown
    <3>5. journal[results[i].n][k].machine \in results[i].held
      BY <3>4 DEF BenchInv, ReadIsRecorded, MachineRead
    <3> QED BY <1>1, <1>2, <2>1, <3>2, <3>5
  <2> QED BY <2>1, <2>2
<1> QED
  BY <1>3, <1>4, <1>5, <1>6, <1>7, <1>8, <1>9, <1>10, <1>11, <1>12, <1>13, <1>14, <1>15, <1>16, 
     <1>17, <1>18, <1>19, <1>20, <1>21, <1>22, <1>23, <1>24, <1>25, <1>26, <1>27, <1>28, <1>29, 
     <1>30, <1>31, <1>32, <1>33, <1>34, <1>35, <1>36, <1>37, <1>38, <1>39, <1>40
     DEF HarnessNext

\* No step leaves a job of the harness without a word.
LEMMA JobLeftKept ==
    ASSUME BenchInv, HarnessNext
    PROVE  JobLeft'
<1> USE FieldNames DEF JobLeft, LiveJobIsReported, Cancelled, Ended, Goes, Aborts, Returns, Inside, Looping, Leaving, Before, Rounds, FaultSteps, Removing, PuttingBack,
      SameWorld, SameConfig, SameJobs, SameMachines, Recorded
<1>1. Shape /\ DOMAIN h = Fields /\ h.todo \subseteq Machines /\ h.absent \subseteq Machines
  BY DEF BenchInv, Shape, HarnessShape
<1>2. JobLeft /\ (Inside => h.n \in ScenarioNo) /\ job \in [ScenarioNo -> {"none", "live"} \cup Ended]
  BY DEF BenchInv, Shape, Numbered, WorldShape
<1>3. CASE Start
  BY <1>1, <1>2, <1>3, StartFrame, StartEffect
<1>4. CASE NextScenario
  BY <1>1, <1>2, <1>4, NextScenarioFrame, NextScenarioEffect
<1>5. CASE AwaitQuiet
  BY <1>1, <1>2, <1>5, AwaitQuietFrame, AwaitQuietEffect
<1>6. CASE BeginScenario
  BY <1>1, <1>2, <1>6, BeginScenarioFrame, BeginScenarioEffect
<1>7. CASE ReadSetting
  BY <1>1, <1>2, <1>7, ReadSettingFrame, ReadSettingEffect
<1>8. CASE ApplySetting
  BY <1>1, <1>2, <1>8, ApplySettingFrame, ApplySettingEffect
<1>9. CASE ConfirmSetting
  BY <1>1, <1>2, <1>9, ConfirmSettingFrame, ConfirmSettingEffect
<1>10. CASE ArmHook
  BY <1>1, <1>2, <1>10, ArmHookFrame, ArmHookEffect
<1>11. CASE Submit
  BY <1>1, <1>2, <1>11, SubmitFrame, SubmitEffect
<1>12. CASE SubmitTooLate
  BY <1>1, <1>2, <1>12, SubmitTooLateFrame, SubmitTooLateEffect
<1>13. CASE ReadEvents
  BY <1>1, <1>2, <1>13, ReadEventsFrame, ReadEventsEffect
<1>14. CASE NextEvent
  BY <1>1, <1>2, <1>14, NextEventFrame, NextEventEffect DEF Metering
<1>15. CASE RoundTooLate
  BY <1>1, <1>2, <1>15, RoundTooLateFrame, RoundTooLateEffect
<1>16. CASE Meter
  BY <1>1, <1>2, <1>16, MeterFrame, MeterEffect
<1>17. CASE Look
  BY <1>1, <1>2, <1>17, LookFrame, LookEffect
<1>18. CASE Pause
  BY <1>1, <1>2, <1>18, PauseFrame, PauseEffect
<1>19. CASE CancelJob
  BY <1>1, <1>2, <1>19, CancelJobFrame, CancelJobEffect
<1>20. CASE CancelInterrupted
  BY <1>1, <1>2, <1>20, CancelInterruptedFrame, CancelInterruptedEffect
<1>21. CASE CallFails
  BY <1>1, <1>2, <1>21, CallFailsFrame, CallFailsEffect
<1>22. CASE Interrupted
  BY <1>1, <1>2, <1>22, InterruptedFrame, InterruptedEffect
<1>23. CASE Inject
  BY <1>1, <1>2, <1>23, InjectFrame, InjectEffect
<1>24. CASE ReadOriginal
  BY <1>1, <1>2, <1>24, ReadOriginalFrame, ReadOriginalEffect
<1>25. CASE SetFault
  BY <1>1, <1>2, <1>25, SetFaultFrame, SetFaultEffect
<1>26. CASE AwaitFault
  BY <1>1, <1>2, <1>26, AwaitFaultFrame, AwaitFaultEffect
<1>27. CASE ReadFault
  BY <1>1, <1>2, <1>27, ReadFaultFrame, ReadFaultEffect
<1>28. CASE UndoFault
  BY <1>1, <1>2, <1>28, UndoFaultFrame, UndoFaultEffect
<1>29. CASE CheckFault
  BY <1>1, <1>2, <1>29, CheckFaultFrame, CheckFaultEffect
<1>30. CASE CanaryKilled
  BY <1>1, <1>2, <1>30, CanaryKilledFrame, CallFailsEffect
<1>31. CASE Tidy
  BY <1>1, <1>2, <1>31, TidyFrame, TidyEffect
<1>32. CASE StopMachines
  BY <1>1, <1>2, <1>32, StopMachinesFrame, StopMachinesEffect
<1>33. CASE Recheck
  BY <1>1, <1>2, <1>33, RecheckFrame, RecheckEffect
<1>34. CASE ProveAbsent
  BY <1>1, <1>2, <1>34, ProveAbsentFrame, ProveAbsentEffect DEF AfterCleanup
<1>35. CASE ReadBack
  BY <1>1, <1>2, <1>35, ReadBackFrame, ReadBackEffect
<1>36. CASE PutBack
  BY <1>1, <1>2, <1>36, PutBackFrame, PutBackEffect
<1>37. CASE VerifyRestored
  BY <1>1, <1>2, <1>37, VerifyRestoredFrame, VerifyRestoredEffect
<1>38. CASE ScenarioResult
  <2>1. PICK r : /\ results' = Append(results, r) /\ r.known = h.known /\ r.live = (job[h.n] = "live")
                 /\ r.error = h.error /\ r.stopped = h.stopped
    BY <1>38, ScenarioRecord
  <2>2. h'.pc = "next" /\ DOMAIN h' = Fields
    BY <1>1, <1>2, <1>38, ScenarioResultEffect
  <2>3. r.known /\ r.live => r.error \/ r.stopped
    BY <1>1, <1>2, <1>38, <2>1, ScenarioResultFrame
  <2>4. LiveJobIsReported'
    BY <1>1, <1>2, <2>1, <2>3, Appending
  <2> QED BY <2>2, <2>4
<1>39. CASE DependentFailure
  <2>1. PICK r : results' = Append(results, r) /\ r.known = FALSE
    BY <1>39, DependentRecord
  <2>2. LiveJobIsReported'
    BY <1>1, <1>2, <2>1, Appending
  <2> QED BY <1>1, <1>2, <1>39, <2>2, DependentFailureFrame, DependentFailureEffect
<1>40. CASE Scorecard
  BY <1>1, <1>2, <1>40, ScorecardFrame, ScorecardEffect
<1> QED
  BY <1>3, <1>4, <1>5, <1>6, <1>7, <1>8, <1>9, <1>10, <1>11, <1>12, <1>13, <1>14, <1>15, <1>16, 
     <1>17, <1>18, <1>19, <1>20, <1>21, <1>22, <1>23, <1>24, <1>25, <1>26, <1>27, <1>28, <1>29, 
     <1>30, <1>31, <1>32, <1>33, <1>34, <1>35, <1>36, <1>37, <1>38, <1>39, <1>40
     DEF HarnessNext

\* No step loses track of a setting that is not the operator's.
LEMMA SettingKnownKept ==
    ASSUME BenchInv, HarnessNext
    PROVE  SettingKnown'
<1> USE FieldNames DEF SettingKnown, Ours, Spoiled, Settings, AtTheEnd, Scenario, plan, Goes, Aborts, Returns, Inside, Looping, Leaving, Before, Rounds, FaultSteps, Removing, PuttingBack,
      SameWorld, SameConfig, SameJobs, SameMachines, Recorded
<1>1. Shape /\ DOMAIN h = Fields /\ h.todo \subseteq Machines /\ h.absent \subseteq Machines
  BY DEF BenchInv, Shape, HarnessShape
<1>2. SettingKnown /\ config \in Settings /\ chosen \subseteq Settings /\ (Inside => ~h.whole)
  BY DEF BenchInv, Shape, Numbered, WorldShape
<1>3. CASE Start
  BY <1>1, <1>2, <1>3, StartFrame, StartEffect
<1>4. CASE NextScenario
  BY <1>1, <1>2, <1>4, NextScenarioFrame, NextScenarioEffect
<1>5. CASE AwaitQuiet
  BY <1>1, <1>2, <1>5, AwaitQuietFrame, AwaitQuietEffect
<1>6. CASE BeginScenario
  BY <1>1, <1>2, <1>6, BeginScenarioFrame, BeginScenarioEffect
<1>7. CASE ReadSetting
  BY <1>1, <1>2, <1>7, ReadSettingFrame, ReadSettingEffect
<1>8. CASE ApplySetting
  BY <1>1, <1>2, <1>8, ApplySettingFrame, ApplySettingEffect
<1>9. CASE ConfirmSetting
  BY <1>1, <1>2, <1>9, ConfirmSettingFrame, ConfirmSettingEffect
<1>10. CASE ArmHook
  BY <1>1, <1>2, <1>10, ArmHookFrame, ArmHookEffect
<1>11. CASE Submit
  <2>1. /\ h.pc = "submit" /\ UNCHANGED <<campaign, config, chosen, score>>
        /\ h'.pc \in {"poll", "tidy", "interrupted"}
        /\ UNCHANGED <<h.n, h.abort, h.previous, h.injected, h.restored, h.whole>>
        /\ (h.error => h'.error) /\ (h.stopped => h'.stopped)
    BY <1>1, <1>2, <1>11, SubmitFrame, SubmitEffect
  <2> QED BY <1>1, <1>2, <2>1
<1>12. CASE SubmitTooLate
  BY <1>1, <1>2, <1>12, SubmitTooLateFrame, SubmitTooLateEffect
<1>13. CASE ReadEvents
  BY <1>1, <1>2, <1>13, ReadEventsFrame, ReadEventsEffect
<1>14. CASE NextEvent
  BY <1>1, <1>2, <1>14, NextEventFrame, NextEventEffect DEF Metering
<1>15. CASE RoundTooLate
  BY <1>1, <1>2, <1>15, RoundTooLateFrame, RoundTooLateEffect
<1>16. CASE Meter
  BY <1>1, <1>2, <1>16, MeterFrame, MeterEffect
<1>17. CASE Look
  BY <1>1, <1>2, <1>17, LookFrame, LookEffect
<1>18. CASE Pause
  BY <1>1, <1>2, <1>18, PauseFrame, PauseEffect
<1>19. CASE CancelJob
  BY <1>1, <1>2, <1>19, CancelJobFrame, CancelJobEffect
<1>20. CASE CancelInterrupted
  BY <1>1, <1>2, <1>20, CancelInterruptedFrame, CancelInterruptedEffect
<1>21. CASE CallFails
  BY <1>1, <1>2, <1>21, CallFailsFrame, CallFailsEffect
<1>22. CASE Interrupted
  BY <1>1, <1>2, <1>22, InterruptedFrame, InterruptedEffect
<1>23. CASE Inject
  BY <1>1, <1>2, <1>23, InjectFrame, InjectEffect
<1>24. CASE ReadOriginal
  BY <1>1, <1>2, <1>24, ReadOriginalFrame, ReadOriginalEffect
<1>25. CASE SetFault
  BY <1>1, <1>2, <1>25, SetFaultFrame, SetFaultEffect
<1>26. CASE AwaitFault
  BY <1>1, <1>2, <1>26, AwaitFaultFrame, AwaitFaultEffect
<1>27. CASE ReadFault
  BY <1>1, <1>2, <1>27, ReadFaultFrame, ReadFaultEffect
<1>28. CASE UndoFault
  BY <1>1, <1>2, <1>28, UndoFaultFrame, UndoFaultEffect
<1>29. CASE CheckFault
  BY <1>1, <1>2, <1>29, CheckFaultFrame, CheckFaultEffect
<1>30. CASE CanaryKilled
  BY <1>1, <1>2, <1>30, CanaryKilledFrame, CallFailsEffect
<1>31. CASE Tidy
  <2>1. /\ h.pc = "tidy" /\ UNCHANGED <<campaign, config, chosen, score>> /\ h'.pc = "stop" /\ h'.whole = FALSE
        /\ UNCHANGED <<h.n, h.abort, h.previous, h.injected, h.restored, h.error>>
        /\ h.stopped => h'.stopped
    BY <1>1, <1>2, <1>31, TidyFrame, TidyEffect
  <2> QED BY <1>1, <1>2, <2>1
<1>32. CASE StopMachines
  BY <1>1, <1>2, <1>32, StopMachinesFrame, StopMachinesEffect
<1>33. CASE Recheck
  BY <1>1, <1>2, <1>33, RecheckFrame, RecheckEffect
<1>34. CASE ProveAbsent
  <2>1. /\ h.pc \in {"prove", "recheck"} /\ UNCHANGED <<campaign, config, chosen, score>>
        /\ UNCHANGED <<h.n, h.abort, h.previous, h.injected, h.stopped, h.error, h.whole>>
        /\ h'.restored = (h.previous = "unsaved")
    BY <1>1, <1>2, <1>34, ProveAbsentFrame, ProveAbsentEffect
  <2>2. \/ h.whole /\ h'.pc = "score"
        \/ ~h.whole /\ h.previous = "unsaved" /\ h'.pc = "result"
        \/ ~h.whole /\ h.previous # "unsaved" /\ h'.pc = "restore"
    BY <1>1, <1>2, <1>34, ProveAbsentEffect DEF AfterCleanup
  <2> QED BY <1>1, <1>2, <2>1, <2>2
<1>35. CASE ReadBack
  BY <1>1, <1>2, <1>35, ReadBackFrame, ReadBackEffect
<1>36. CASE PutBack
  BY <1>1, <1>2, <1>36, PutBackFrame, PutBackEffect
<1>37. CASE VerifyRestored
  <2>1. /\ h.pc = "verify" /\ UNCHANGED <<campaign, config, chosen, score>> /\ h'.pc = "result"
        /\ UNCHANGED <<h.n, h.abort, h.previous, h.injected, h.stopped, h.error, h.whole>>
    BY <1>1, <1>2, <1>37, VerifyRestoredFrame, VerifyRestoredEffect
  <2>2. h'.restored => config = h.previous
    BY <1>1, <1>2, <1>37, VerifyRestoredFrame, VerifyRestoredEffect
  <2> QED BY <1>1, <1>2, <2>1, <2>2
<1>38. CASE ScenarioResult
  <2>1. h.pc = "result" /\ h'.pc = "next" /\ h'.whole = h.whole /\ UNCHANGED <<config, chosen, score>>
    BY <1>1, <1>2, <1>38, ScenarioResultFrame, ScenarioResultEffect
  <2>2. h'.abort \/ (~h.error /\ ~h.stopped /\ h.restored /\ FaultSucceeded)
    BY <1>1, <1>2, <1>38, ScenarioResultEffect DEF ScenarioPassed
  <2>3. h'.abort \/ config \in chosen
    BY <1>1, <1>2, <1>38, <2>2, ScenarioResultFrame DEF FaultSucceeded
  <2> QED BY <1>1, <1>2, <2>1, <2>3
<1>39. CASE DependentFailure
  BY <1>1, <1>2, <1>39, DependentFailureFrame, DependentFailureEffect
<1>40. CASE Scorecard
  <2>1. score'.passed => ~h.abort
    BY <1>40 DEF Scorecard
  <2> QED BY <1>1, <1>2, <1>40, <2>1, ScorecardFrame, ScorecardEffect
<1> QED
  BY <1>3, <1>4, <1>5, <1>6, <1>7, <1>8, <1>9, <1>10, <1>11, <1>12, <1>13, <1>14, <1>15, <1>16, 
     <1>17, <1>18, <1>19, <1>20, <1>21, <1>22, <1>23, <1>24, <1>25, <1>26, <1>27, <1>28, <1>29, 
     <1>30, <1>31, <1>32, <1>33, <1>34, <1>35, <1>36, <1>37, <1>38, <1>39, <1>40
     DEF HarnessNext

-----------------------------------------------------------------------------
(* Every step of the world keeps the invariant *)

\* The coordinator, the provider and the operator leave the harness alone.
WorldMoves ==
    /\ h.pc \notin {"ended", "raised"} /\ UNCHANGED <<campaign, now, rent, h, results, score>>
    /\ config' \in Settings /\ chosen' \subseteq Settings /\ chosen \subseteq chosen'
    /\ config' = config \/ config' \in chosen'
    /\ job' \in [ScenarioNo -> {"none", "live"} \cup Ended]
    /\ \A n \in ScenarioNo : job'[n] = "live" => job[n] = "live"
    /\ served' \in [ScenarioNo -> Seq(Machines)]
    /\ \A k \in ScenarioNo : k # h.n \/ h.pc \notin Rounds => served'[k] = served[k]
    /\ up' \subseteq Machines /\ (h.pc \in Rounds \/ up' \subseteq up)
    /\ journal' \in [ScenarioNo -> Seq(Entry)]
    /\ \A n \in ScenarioNo :
        /\ Len(journal'[n]) <= campaign.entries /\ Len(journal[n]) <= Len(journal'[n])
        /\ \A i \in 1..Len(journal[n]) : journal'[n][i] = journal[n][i]

\* A machine is a number while there is one left to give.
LEMMA NextMachine ==
    ASSUME WorldShape
    PROVE  Cardinality(UNION {Range(served[k]) : k \in ScenarioNo}) \in Nat
<1> DEFINE all == UNION {Range(served[k]) : k \in ScenarioNo}
<1>1. all \subseteq Machines
  <2>1. \A k \in ScenarioNo : served[k] \in Seq(Machines)
    BY DEF WorldShape
  <2>2. ASSUME NEW k \in ScenarioNo PROVE Range(served[k]) \subseteq Machines
    BY <2>1, <2>2 DEF Range
  <2> QED BY <2>2
<1>2. IsFiniteSet(Machines)
  BY Limits, FS_Interval DEF Machines
<1>3. IsFiniteSet(all)
  BY <1>1, <1>2, FS_Subset
<1> QED BY <1>3, FS_CardinalityType

LEMMA JournalGrows ==
    ASSUME WorldShape, NEW n \in ScenarioNo, NEW e \in Entry, Len(journal[n]) < campaign.entries,
           journal' = [journal EXCEPT ![n] = Append(journal[n], e)]
    PROVE  /\ journal' \in [ScenarioNo -> Seq(Entry)]
           /\ \A k \in ScenarioNo :
                /\ Len(journal'[k]) <= campaign.entries /\ Len(journal[k]) <= Len(journal'[k])
                /\ \A i \in 1..Len(journal[k]) : journal'[k][i] = journal[k][i]
<1> DEFINE old == journal[n]
           new == Append(old, e)
<1>1. journal \in [ScenarioNo -> Seq(Entry)] /\ old \in Seq(Entry) /\ \A k \in ScenarioNo : Len(journal[k]) <= campaign.entries
  BY DEF WorldShape
<1>2. campaign.entries \in Nat
  BY CampaignsAssumption DEF WorldShape
<1>3. \A k \in ScenarioNo : Len(journal[k]) \in Nat
  BY <1>1, LenProperties
<1>4. new \in Seq(Entry) /\ Len(new) = Len(old) + 1 /\ \A i \in 1..Len(old) : new[i] = old[i]
  BY <1>1, AppendProperties
<1> HIDE DEF new
<1>5. journal' \in [ScenarioNo -> Seq(Entry)]
  BY <1>1, <1>4 DEF new
<1>6. ASSUME NEW k \in ScenarioNo
      PROVE  /\ Len(journal'[k]) <= campaign.entries /\ Len(journal[k]) <= Len(journal'[k])
             /\ \A i \in 1..Len(journal[k]) : journal'[k][i] = journal[k][i]
  <2>1. CASE k = n
    <3>1. journal'[k] = new
      BY <1>1, <2>1 DEF new
    <3> QED BY <1>2, <1>3, <1>4, <2>1, <3>1
  <2>2. CASE k # n
    <3>1. journal'[k] = journal[k]
      BY <1>1, <2>2
    <3> QED BY <1>1, <1>3, <3>1
  <2> QED BY <2>1, <2>2
<1> QED BY <1>5, <1>6

LEMMA WorldKeeps ==
    ASSUME BenchInv, World
    PROVE  WorldMoves
<1>1. WorldShape /\ \A n \in ScenarioNo : Len(journal[n]) \in Nat
  BY JournalLengths DEF BenchInv, Shape
<1>2. campaign \in Campaigns /\ campaign.machines \in 0..MaxMachines /\ MaxMachines \in Nat
  BY <1>1, CampaignsAssumption, Limits DEF WorldShape
<1>3. (h.pc \in Rounds) => h.n \in ScenarioNo
  BY DEF BenchInv, Shape, Numbered, Inside, Looping
<1> USE DEF Ended
<1>4. ASSUME NEW n \in ScenarioNo, MachineCreated(n) PROVE WorldMoves
  <2> DEFINE m == 1 + Cardinality(UNION {Range(served[k]) : k \in ScenarioNo})
  <2>1. /\ InWorld /\ h.pc \in Rounds /\ n = h.n /\ m <= campaign.machines
        /\ served' = [served EXCEPT ![n] = Append(served[n], m)] /\ up' = up \cup {m}
        /\ UNCHANGED <<config, chosen, job, journal>>
    BY <1>4 DEF MachineCreated
  <2>2. m \in Nat \ {0}
    <3>1. Cardinality(UNION {Range(served[k]) : k \in ScenarioNo}) \in Nat
      BY <1>1, NextMachine
    <3> QED BY <3>1
  <2> HIDE DEF m
  <2>3. m \in Machines
    BY <1>2, <2>1, <2>2 DEF Machines
  <2>4. served \in [ScenarioNo -> Seq(Machines)]
    BY <1>1 DEF WorldShape
  <2>5. Append(served[n], m) \in Seq(Machines)
    BY <2>3, <2>4, AppendProperties
  <2>6. served' \in [ScenarioNo -> Seq(Machines)]
    BY <2>1, <2>4, <2>5
  <2> QED BY <1>1, <2>1, <2>3, <2>6 DEF InWorld, WorldMoves, WorldShape
<1>5. ASSUME NEW n \in ScenarioNo, NEW status \in Ended, JobEnds(n, status) PROVE WorldMoves
  BY <1>1, <1>5 DEF JobEnds, InWorld, WorldMoves, WorldShape
<1>6. ASSUME NEW m \in Machines, NEW says \in Mentions, EventJournaled(m, says) PROVE WorldMoves
  <2> DEFINE e == [machine |-> m, leased |-> says.leased, rated |-> says.rated]
  <2>1. /\ InWorld /\ h.pc \in Rounds /\ Len(journal[h.n]) < campaign.entries
        /\ journal' = [journal EXCEPT ![h.n] = Append(journal[h.n], e)]
        /\ UNCHANGED <<config, chosen, job, served, up>>
    BY <1>6 DEF EventJournaled
  <2>2. e \in Entry
    BY MentionsAssumption DEF Entry
  <2> HIDE DEF e
  <2>3. /\ journal' \in [ScenarioNo -> Seq(Entry)]
        /\ \A k \in ScenarioNo :
             /\ Len(journal'[k]) <= campaign.entries /\ Len(journal[k]) <= Len(journal'[k])
             /\ \A i \in 1..Len(journal[k]) : journal'[k][i] = journal[k][i]
    BY <1>1, <1>3, <2>1, <2>2, JournalGrows
  <2> QED BY <1>1, <2>1, <2>3 DEF InWorld, WorldMoves, WorldShape
<1>7. ASSUME NEW m \in Machines, MachineGone(m) PROVE WorldMoves
  BY <1>1, <1>7 DEF MachineGone, InWorld, WorldMoves, WorldShape
<1>8. CASE OperatorSets
  BY <1>1, <1>8 DEF OperatorSets, InWorld, WorldMoves, WorldShape, Settings
<1> QED BY <1>4, <1>5, <1>6, <1>7, <1>8 DEF World

\* Nothing the world does disturbs the invariant.
LEMMA WorldKeepsInv ==
    ASSUME BenchInv, World
    PROVE  BenchInv'
<1> USE DEF Inside, Looping, Leaving, Before, Rounds, FaultSteps, Removing, PuttingBack
<1>1. WorldMoves /\ BenchInv
  BY WorldKeeps
<1>2. WorldShape'
  BY <1>1 DEF BenchInv, Shape, WorldShape, WorldMoves
<1>3. HarnessShape' /\ Numbered' /\ ResultsShape'
  <2>1. HarnessShape' /\ ResultsShape'
    BY <1>1 DEF BenchInv, Shape, HarnessShape, ResultsShape, RecordShape, WorldMoves
  <2>2. \A k \in ScenarioNo : h.n < k \/ (h.n = k /\ h.pc \in {"quiet", "begin"}) => served'[k] = served[k]
    <3>1. \A k \in ScenarioNo : k # h.n \/ h.pc \notin Rounds => served'[k] = served[k]
      BY <1>1 DEF WorldMoves
    <3>2. h.n \in Int /\ \A k \in ScenarioNo : k \in Int
      BY <1>1, Limits DEF BenchInv, Shape, HarnessShape, ScenarioNo
    <3>3. h.pc \in {"quiet", "begin"} => h.pc \notin Rounds
      OBVIOUS
    <3> QED BY <3>1, <3>2, <3>3
  <2>3. Numbered'
    BY <1>1, <2>2 DEF BenchInv, Shape, Numbered, WorldMoves, plan
  <2> QED BY <2>1, <2>3
<1>4. \A n \in ScenarioNo : Len(journal[n]) \in Nat /\ Len(journal'[n]) \in Nat /\ Len(journal[n]) <= Len(journal'[n])
  <2>1. \A n \in ScenarioNo : journal[n] \in Seq(Entry) /\ journal'[n] \in Seq(Entry)
    BY <1>1, <1>2 DEF BenchInv, Shape, WorldShape
  <2> QED BY <1>1, <2>1, LenProperties DEF WorldMoves
<1>5. Inside => h.n \in ScenarioNo /\ h.cursor \in Nat /\ h.handled \in Nat
  BY <1>1, Limits DEF BenchInv, Shape, HarnessShape, Numbered
<1>6. Cursors'
  BY <1>1, <1>4, <1>5 DEF BenchInv, Shape, Cursors, WorldMoves
<1>7. OnTime'
  BY <1>1 DEF BenchInv, OnTime, Submitting, Watching, Finishing, LoopEnd, LoopOverrun, CleanupBegin, CleanupOverrun,
              WorldMoves
<1>8. Charged'
  BY <1>1 DEF BenchInv, Charged, EstimateCoversRent, WorldMoves
<1>9. ASSUME NEW n \in ScenarioNo, NEW i, i \in 1..Len(journal[n]) PROVE MachineRead(n, i)' = MachineRead(n, i)
  BY <1>1, <1>9 DEF MachineRead, WorldMoves
<1>10. ReadIsHeld'
  <2>1. Inside => \A i \in 1..h.handled : i \in 1..Len(journal[h.n])
    BY <1>1, <1>4, <1>5 DEF BenchInv, Shape, Cursors
  <2>2. Inside => \A i \in 1..h.handled : MachineRead(h.n, i)' = MachineRead(h.n, i)
    BY <1>1, <1>5, <1>9, <2>1 DEF WorldMoves, MachineRead
  <2> QED BY <1>1, <2>2 DEF BenchInv, ReadIsHeld, WorldMoves
<1>11. ReadIsRecorded'
  <2> SUFFICES ASSUME NEW i \in DOMAIN results
               PROVE  /\ results[i].handled <= Len(journal'[results[i].n])
                      /\ results[i].unproved = {} =>
                           \A k \in 1..results[i].handled : journal'[results[i].n][k].machine \in results[i].held
    BY <1>1 DEF ReadIsRecorded, WorldMoves, MachineRead
  <2>1. results[i].n \in ScenarioNo /\ results[i].handled \in Nat /\ results[i].handled <= Len(journal[results[i].n])
    BY <1>1, Limits DEF BenchInv, Shape, ResultsShape, RecordShape, ReadIsRecorded
  <2>2. results[i].handled <= Len(journal'[results[i].n])
    BY <1>4, <2>1
  <2>3. \A k \in 1..results[i].handled : k \in 1..Len(journal[results[i].n])
    BY <1>4, <2>1
  <2>4. \A k \in 1..results[i].handled : journal'[results[i].n][k] = journal[results[i].n][k]
    BY <1>1, <2>1, <2>3 DEF WorldMoves
  <2> QED BY <2>2, <2>4 DEF BenchInv, ReadIsRecorded, MachineRead
<1>12. ListedLast'
  BY <1>1 DEF BenchInv, ListedLast, AtTheEnd, EveryHeld, WorldMoves
<1>13. JobLeft'
  BY <1>1, <1>5 DEF BenchInv, JobLeft, LiveJobIsReported, WorldMoves
<1>14. SettingKnown'
  BY <1>1 DEF BenchInv, SettingKnown, AtTheEnd, Spoiled, Ours, Scenario, plan, WorldMoves
<1> QED BY <1>2, <1>3, <1>6, <1>7, <1>8, <1>10, <1>11, <1>12, <1>13, <1>14 DEF BenchInv, Shape

LEMMA HarnessKeepsInv == ASSUME BenchInv, HarnessNext PROVE BenchInv'
  BY WorldShapeKept, HarnessShapeKept, NumberedKept, ResultsShapeKept, CursorsKept, OnTimeKept, ChargedKept,
     ReadIsHeldKept, ReadIsRecordedKept, ListedLastKept, JobLeftKept, SettingKnownKept
     DEF BenchInv, Shape

LEMMA StutteringKeepsInv == ASSUME BenchInv, UNCHANGED benchVars PROVE BenchInv'
<1> USE DEF benchVars, worldVars
<1>1. Shape'
  BY DEF BenchInv, Shape, WorldShape, HarnessShape, Numbered, ResultsShape, RecordShape, Cursors, plan,
         Inside, Leaving
<1>2. OnTime' /\ Charged' /\ JobLeft'
  BY DEF BenchInv, OnTime, Submitting, Watching, Finishing, LoopEnd, LoopOverrun, CleanupBegin, CleanupOverrun, Charged, EstimateCoversRent, JobLeft, LiveJobIsReported, Inside, Leaving
<1>3. ReadIsHeld' /\ ReadIsRecorded' /\ ListedLast'
  BY DEF BenchInv, ReadIsHeld, ReadIsRecorded, ListedLast, MachineRead, EveryHeld, AtTheEnd, Inside, Leaving,
         ConfirmedMeansGone
<1>4. SettingKnown'
  BY DEF BenchInv, SettingKnown, Inside, Leaving, AtTheEnd, Spoiled, Ours, Scenario, plan
<1> QED BY <1>1, <1>2, <1>3, <1>4 DEF BenchInv

LEMMA BenchBegins == BenchInit => BenchInv
<1> SUFFICES ASSUME BenchInit PROVE BenchInv
  OBVIOUS
<1>1. /\ DOMAIN h = Fields /\ h.pc = "start" /\ h.n = 0 /\ ~h.abort /\ ~h.whole /\ h.until = 0
      /\ h.started = 0 /\ h.at = 0 /\ h.cursor = 0 /\ h.handled = 0 /\ h.held = {} /\ h.unproved = {}
      /\ h.todo = {} /\ h.absent = {} /\ h.offer = 0 /\ h.previous = "unsaved" /\ h.original = "first"
      /\ h.rate = [m \in Machines |-> 0] /\ h.seen = [m \in Machines |-> 0]
  BY DEF BenchInit, Forgetting, Fields
<1>2. ~Inside /\ ~Leaving /\ ~AtTheEnd /\ h.pc \notin Looping
  BY <1>1 DEF Inside, Looping, Leaving, AtTheEnd, Before, Rounds, FaultSteps, Removing, PuttingBack
<1>3. campaign.entries \in Nat /\ campaign \in Campaigns /\ Len(plan) \in Nat /\ Len(plan) >= 0
  <2>1. campaign \in Campaigns
    BY DEF BenchInit
  <2> QED BY <2>1, Lengths, CampaignsAssumption, Limits
<1>4. WorldShape
  <2>1. \A n \in ScenarioNo : journal[n] = << >> /\ served[n] = << >> /\ job[n] = "none"
    BY DEF BenchInit
  <2>2. << >> \in Seq(Machines) /\ << >> \in Seq(Entry) /\ Len(<< >>) = 0
    BY EmptySeq
  <2>3. /\ journal \in [ScenarioNo -> Seq(Entry)] /\ served \in [ScenarioNo -> Seq(Machines)]
        /\ job \in [ScenarioNo -> {"none", "live"} \cup Ended]
    BY <2>2 DEF BenchInit
  <2>4. \A n \in ScenarioNo : Len(journal[n]) <= campaign.entries
    BY <1>3, <2>1, <2>2
  <2>5. config \in Settings /\ chosen \subseteq Settings
    BY <1>3, CampaignsAssumption DEF BenchInit, Settings
  <2> QED BY <1>3, <2>3, <2>4, <2>5, Zeros DEF BenchInit, WorldShape
<1>5. HarnessShape
  BY <1>1, Zeros, Limits DEF HarnessShape, Settings
<1>6. Numbered /\ Cursors
  <2>1. \A n \in ScenarioNo : served[n] = << >>
    BY DEF BenchInit
  <2> QED BY <1>1, <1>2, <1>3, <2>1, Limits DEF Numbered, Cursors
<1>7. results = << >> /\ DOMAIN results = {} /\ ~score.passed /\ score.proof = "none"
  BY DEF BenchInit, NoScore
<1>8. ResultsShape
  BY <1>7 DEF ResultsShape
<1>9. OnTime
  <2>1. /\ LoopEnd \in Nat /\ CleanupOverrun \in Nat /\ campaign.calls \in Nat
    BY <1>4, Overruns
  <2>2. now = 0
    BY DEF BenchInit
  <2> QED BY <1>1, <2>1, <2>2 DEF OnTime
<1>10. Charged
  BY <1>1, <1>2, <1>7 DEF Charged, EstimateCoversRent, BenchInit
<1>11. ReadIsHeld /\ ReadIsRecorded /\ ListedLast
  BY <1>1, <1>2, <1>7 DEF ReadIsHeld, ReadIsRecorded, ListedLast
<1>12. JobLeft
  BY <1>1, <1>2, <1>7 DEF JobLeft, LiveJobIsReported, Before
<1>13. SettingKnown
  <2>1. config \in chosen
    BY DEF BenchInit
  <2> QED BY <1>1, <1>2, <1>7, <2>1 DEF SettingKnown, FaultSteps
<1> QED BY <1>4, <1>5, <1>6, <1>8, <1>9, <1>10, <1>11, <1>12, <1>13 DEF BenchInv, Shape

-----------------------------------------------------------------------------
(* The theorems *)

\* The clock keeps the deadlines, rent and meters go on together, what was read
\* is held, and the harness knows whose setting the coordinator has: whatever
\* the campaigns, the limits and the bounds (BenchmarkRunner.run).
THEOREM BenchInvariant == BenchSpec => []BenchInv
<1>1. ASSUME BenchInv, [BenchNext]_benchVars PROVE BenchInv'
  BY <1>1, HarnessKeepsInv, WorldKeepsInv, StutteringKeepsInv DEF BenchNext
<1> QED BY BenchBegins, <1>1, PTL DEF BenchSpec

\* A cleanup proof the scorecard calls confirmed leaves no machine running that
\* any event looked at named (benchmark.py _cleanup_resources, run).
THEOREM CleanupProofIsTrue == BenchSpec => []ConfirmedMeansGone
<1>1. BenchInv => ConfirmedMeansGone
  BY DEF BenchInv, ListedLast, ConfirmedMeansGone
<1> QED BY BenchInvariant, <1>1, PTL

\* The part in a scenario's estimate of each machine whose lease was proved and
\* whose rate is known is no less than the rent it had cost.  Nothing is said of the
\* machines that stay unproved: they are charged from the event that named them
\* first (_estimated_cost, _run_scenario).
THEOREM RentIsCovered == BenchSpec => []EstimateCoversRent
<1>1. BenchInv => EstimateCoversRent
  BY DEF BenchInv, Charged
<1> QED BY BenchInvariant, <1>1, PTL

\* A passed campaign leaves the setting of the operator (restore_scenario,
\* inject_storage_unavailable).
THEOREM SettingIsTheOperators == BenchSpec => []PassedLeavesOperatorsSetting
<1>1. BenchInv => PassedLeavesOperatorsSetting
  BY DEF BenchInv, SettingKnown, PassedLeavesOperatorsSetting
<1> QED BY BenchInvariant, <1>1, PTL

\* No job is left running without an error or an interrupt on its scenario's
\* record (_run_scenario).
THEOREM JobsAreNotLeftBehind == BenchSpec => []LiveJobIsReported
<1>1. BenchInv => LiveJobIsReported
  BY DEF BenchInv, JobLeft
<1> QED BY BenchInvariant, <1>1, PTL

\* If no call and no hook outlasts its timeout, a campaign outlasts its limit by
\* no more than the calls that have no deadline of its own and two clean-ups (the
\* deadlines of _run_scenario and _cleanup_resources).
THEOREM CampaignsEnd == BenchSpec => []CampaignKeepsItsTime
<1>1. BenchInv => CampaignKeepsItsTime
  BY Latest DEF BenchInv, CampaignKeepsItsTime, LoopEnd
<1> QED BY BenchInvariant, <1>1, PTL

=============================================================================
