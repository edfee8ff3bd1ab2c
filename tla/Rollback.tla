------------------------------ MODULE Rollback ------------------------------
(***************************************************************************)
(* The rollback of one production environment: configuration, compensating *)
(* plan, provider switch and health check, each a call of a keyed port,    *)
(* with the recovery of every failure.  Calls fail with or without effect, *)
(* processes die, and callers repeat a request under its operation key.    *)
(* The caller of the service lets one rollback of an environment run at a  *)
(* time; the service itself has no lock.                                   *)
(***************************************************************************)
EXTENDS Naturals

CONSTANTS
    Keys,           \* operation keys of rollback requests
    Versions,       \* what can be deployed: an artifact with its configuration
    First,          \* the version in production at the start
    TargetOf,       \* the version each request asks for (toDeploymentId)
    Reversibility,  \* the migration evidence of each request
    Approved,       \* the requests with an approved compensating plan
    NoKey,
    MaxFaults       \* bound on failing calls, failing checks and dying processes

ASSUME RollbackAssumption ==
    /\ First \in Versions /\ NoKey \notin Keys /\ MaxFaults \in Nat
    /\ TargetOf \in [Keys -> Versions \ {First}]
    /\ Reversibility \in [Keys -> {"reversible", "compensating", "unavailable"}]
    /\ Approved \subseteq Keys

VARIABLES
    pc,           \* where the call of rollback is
    key,          \* its operation key
    cur,          \* context.current, as resolved by this call
    reason,       \* the failure the call is to record
    answer,       \* the last answer of the service
    config,       \* the active environment configuration
    provider,     \* the deployment the provider serves
    compensated,  \* the requests whose compensating plan has been applied
    done,         \* the activity keys the ports have recorded
    verdict,      \* the recorded health result of each request
    row,          \* the status of the rollback row of each request
    serving,      \* the version of the last deployment marked healthy
    replays,      \* the requests with a stored result
    undone,       \* history: requests a recorded step of which was overwritten
    faults

call == <<pc, key, cur, reason, answer>>
production == <<config, provider, compensated, undone>>
records == <<row, serving, replays>>
vars == <<call, production, done, verdict, records, faults>>

Fault == faults < MaxFaults /\ faults' = faults + 1

-----------------------------------------------------------------------------
(* The ports.  A key that a port has recorded is answered from its record. *)

Recorded(activity) == <<key, activity>> \in done
Record(activity) == done' = done \cup {<<key, activity>>}

\* One port call, going on to `then`, or to `otherwise` when it fails; a
\* failing call may have had its effect, recorded or not.
Port(from, activity, effect, then, otherwise) ==
    /\ pc = from
    /\ \/ /\ Recorded(activity)
          /\ pc' = then
          /\ UNCHANGED <<production, records, done, faults>>
       \/ /\ ~Recorded(activity)
          /\ effect /\ Record(activity)
          /\ pc' = then
          /\ UNCHANGED faults
       \/ /\ Fault
          /\ pc' = otherwise
          /\ \/ UNCHANGED <<production, records, done>>
             \/ ~Recorded(activity) /\ effect /\ (Record(activity) \/ UNCHANGED done)

\* The requests whose recorded step `activity` a change to version v overwrites.
Overwritten(activity, v) == {k \in Keys : <<k, activity>> \in done /\ TargetOf[k] # v}

restoreConfig(v) ==
    /\ config' = v
    /\ undone' = undone \cup Overwritten(<<"config", "target">>, v)
    /\ UNCHANGED <<provider, compensated, records>>

switchProvider(v) ==
    /\ provider' = v
    /\ undone' = undone \cup Overwritten(<<"provider", "target">>, v)
    /\ UNCHANGED <<config, compensated, records>>

-----------------------------------------------------------------------------
(* rollback                                                                *)

databaseState(k) ==
    CASE Reversibility[k] = "reversible" -> "compatible"
      [] Reversibility[k] = "compensating" -> "requires_compensation"
      [] Reversibility[k] = "unavailable" -> "incompatible"

assertDatabaseRollbackAllowed(k) ==
    \/ databaseState(k) = "compatible"
    \/ databaseState(k) = "requires_compensation" /\ k \in Approved

Ends(code) == pc' = "idle" /\ answer' = code

\* External: a caller repeats its request, or gives it up for a new one.
Repeated(k) == k = key \/ row[k] = "none"

\* The stored result, the refusal, or the context as it is now.
Begin(k) ==
    /\ pc = "idle"
    /\ Repeated(k)
    /\ \/ /\ k \in replays
          /\ Ends("healthy") /\ UNCHANGED <<key, cur>>
       \/ /\ k \notin replays /\ ~assertDatabaseRollbackAllowed(k)
          /\ Ends("refused") /\ UNCHANGED <<key, cur>>
       \/ /\ k \notin replays /\ assertDatabaseRollbackAllowed(k)
          /\ pc' = "create" /\ key' = k /\ cur' = serving /\ answer' = "none"
    /\ UNCHANGED <<reason, production, done, verdict, records, faults>>

BeginFails ==
    /\ pc = "idle"
    /\ Fault /\ Ends("error")
    /\ UNCHANGED <<key, cur, reason, production, done, verdict, records>>

Stays == UNCHANGED <<key, cur, verdict>>

\* The keyed store keeps the row of the first attempt.
Create ==
    /\ Port("create", <<"deployment", "create">>,
            row' = [row EXCEPT ![key] = "queued"] /\ UNCHANGED <<production, serving, replays>>,
            "config", "idle")
    /\ answer' = IF pc' = "idle" THEN "error" ELSE answer
    /\ Stays /\ UNCHANGED reason

\* The failure is to be recorded, and answered, as r unless the step succeeds.
Fails(r) == reason' = IF pc' \in {"fail", "recoverConfig", "recoverSwitch"} THEN r ELSE reason

Config ==
    /\ Port("config", <<"config", "target">>, restoreConfig(TargetOf[key]),
            IF databaseState(key) = "requires_compensation" THEN "compensate" ELSE "switch",
            "fail")
    /\ Fails("environment_config_restore_failed")
    /\ Stays /\ UNCHANGED answer

Compensate ==
    /\ Port("compensate", <<"database", "compensate">>,
            compensated' = compensated \cup {key} /\ UNCHANGED <<config, provider, undone, records>>,
            "switch", "recoverConfig")
    /\ Fails("compensating_plan_failed")
    /\ Stays /\ UNCHANGED answer

\* Mutant: the state of the returned handle is not looked at.
SwitchUnchecked ==
    /\ Port("switch", <<"provider", "target">>, switchProvider(TargetOf[key]), "health", "health")
    /\ Fails("provider_rollback_failed")
    /\ Stays /\ UNCHANGED answer
Switch ==
    /\ Port("switch", <<"provider", "target">>, switchProvider(TargetOf[key]), "health", "recoverConfig")
    /\ Fails("provider_rollback_failed")
    /\ Stays /\ UNCHANGED answer

\* The keyed check keeps its first verdict; it fails, or cannot be made, in
\* bounded number.
Health ==
    /\ pc = "health"
    /\ \/ /\ verdict[key] = "none"
          /\ verdict' = [verdict EXCEPT ![key] = "healthy"]
          /\ pc' = "healthy" /\ UNCHANGED faults
       \/ /\ verdict[key] = "none" /\ Fault
          /\ verdict' = [verdict EXCEPT ![key] = "failed"]
          /\ pc' = "recoverSwitch"
       \/ /\ verdict[key] # "none"
          /\ pc' = IF verdict[key] = "healthy" THEN "healthy" ELSE "recoverSwitch"
          /\ UNCHANGED <<verdict, faults>>
       \/ Fault /\ pc' = "recoverSwitch" /\ UNCHANGED verdict
    /\ Fails("rollback_health_failed")
    /\ UNCHANGED <<key, cur, answer, production, done, records>>

MarkHealthy ==
    /\ Port("healthy", <<"deployment", "healthy">>,
            /\ row' = [row EXCEPT ![key] = "healthy"]
            /\ serving' = TargetOf[key]
            /\ UNCHANGED <<production, replays>>,
            "complete", "idle")
    /\ answer' = IF pc' = "idle" THEN "error" ELSE answer
    /\ Stays /\ UNCHANGED reason

\* completeReplay has no key of its own: it stores the result again.
Complete ==
    /\ pc = "complete"
    /\ \/ replays' = replays \cup {key} /\ Ends("healthy") /\ UNCHANGED faults
       \/ Fault /\ replays' \in {replays, replays \cup {key}} /\ Ends("error")
    /\ Stays /\ UNCHANGED <<reason, production, done, row, serving>>

-----------------------------------------------------------------------------
(* The recovery of a failure.                                              *)

\* The configuration of the current deployment after a failed plan or switch;
\* the key names the failure.
RecoverConfig ==
    /\ Port("recoverConfig", <<"config", reason>>, restoreConfig(cur), "fail", "fail")
    /\ reason' = IF faults' = faults THEN reason ELSE "rollback_recovery_failed"
    /\ Stays /\ UNCHANGED answer

\* Mutant: only the configuration is restored, as after a failed switch.
RecoverSwitchSkips ==
    /\ pc = "recoverSwitch" /\ pc' = "recoverCurrent"
    /\ Stays /\ UNCHANGED <<reason, answer, production, records, done, faults>>
\* Provider and configuration of the current deployment after a failed check.
RecoverSwitch ==
    /\ Port("recoverSwitch", <<"provider", "current">>, switchProvider(cur),
            "recoverCurrent", "fail")
    /\ reason' = IF pc' = "fail" THEN "rollback_recovery_failed" ELSE reason
    /\ Stays /\ UNCHANGED answer

RecoverCurrent ==
    /\ Port("recoverCurrent", <<"config", "current">>, restoreConfig(cur), "fail", "fail")
    /\ reason' = IF faults' = faults THEN reason ELSE "rollback_recovery_failed"
    /\ Stays /\ UNCHANGED answer

\* Mutant: the failure is answered and not recorded.
markFailedUnrecorded ==
    /\ pc = "fail" /\ Ends(reason)
    /\ Stays /\ UNCHANGED <<reason, production, records, done, faults>>
\* The failure is recorded and answered.
markFailed ==
    /\ Port("fail", <<"failed", reason>>,
            row' = [row EXCEPT ![key] = "failed"] /\ UNCHANGED <<production, serving, replays>>,
            "idle", "idle")
    /\ answer' = IF faults' = faults THEN reason ELSE "error"
    /\ Stays /\ UNCHANGED reason

\* The process of the call dies.
Crash ==
    /\ pc # "idle"
    /\ Fault /\ Ends("none")
    /\ UNCHANGED <<key, cur, reason, production, done, verdict, records>>

-----------------------------------------------------------------------------

Init ==
    /\ pc = "idle" /\ key = NoKey /\ cur = First /\ reason = "none" /\ answer = "none"
    /\ config = First /\ provider = First /\ compensated = {} /\ undone = {}
    /\ done = {}
    /\ verdict = [k \in Keys |-> "none"]
    /\ row = [k \in Keys |-> "none"]
    /\ serving = First /\ replays = {}
    /\ faults = 0

rollback ==
    \/ Create \/ Config \/ Compensate \/ Switch \/ Health \/ MarkHealthy \/ Complete
    \/ RecoverConfig \/ RecoverSwitch \/ RecoverCurrent \/ markFailed

Next ==
    \/ \E k \in Keys : Begin(k)
    \/ BeginFails
    \/ rollback
    \/ Crash

Spec == Init /\ [][Next]_vars

\* The steps of a call are taken, and the caller repeats an unsettled request.
Fairness ==
    /\ WF_vars(rollback)
    /\ \A k \in Keys : SF_vars(row[k] = "queued" /\ Begin(k))

FairSpec == Spec /\ Fairness

-----------------------------------------------------------------------------

\* The types of the variables.
RollbackTypeOK ==
    /\ pc \in {"idle", "create", "config", "compensate", "switch", "health", "healthy", "complete",
               "recoverConfig", "recoverSwitch", "recoverCurrent", "fail"}
    /\ key \in Keys \cup {NoKey}
    /\ {cur, config, provider, serving} \subseteq Versions
    /\ compensated \subseteq Keys /\ replays \subseteq Keys /\ undone \subseteq Keys
    /\ verdict \in [Keys -> {"none", "healthy", "failed"}]
    /\ row \in [Keys -> {"none", "queued", "failed", "healthy"}]
    /\ faults \in 0..MaxFaults

\* When a rollback is marked healthy, the provider serves its target with the
\* target's configuration, and a required compensating plan has been applied,
\* whatever failed or died in this attempt or an earlier one and whatever a
\* former request has left behind, unless a recovery has overwritten a step of
\* the request that its ports answer from their records.
HealthyIsTarget ==
    (pc = "complete" /\ key \notin undone) =>
        /\ config = TargetOf[key] /\ provider = TargetOf[key]
        /\ Reversibility[key] = "compensating" => key \in compensated

\* An answer that health verification failed says that the formerly healthy
\* deployment was restored: provider and configuration are those of the
\* current deployment, in a first attempt and in a repeated one, whatever an
\* earlier attempt has left behind, unless the same request has been found
\* healthy before.
RestoredIsCurrent ==
    (pc = "idle" /\ answer = "rollback_health_failed" /\ verdict[key] # "healthy")
    => config = cur /\ provider = cur

\* The row of a rollback does not stay queued: the request ends as healthy or
\* failed when its caller repeats it instead of making a new one.
RollbackSettles == \A k \in Keys : (row[k] = "queued") ~> (row[k] # "queued" \/ key # k)

\* Without the exception: a rollback marked healthy is one in production.
HealthyIsLive == pc = "complete" => config = TargetOf[key] /\ provider = TargetOf[key]
=============================================================================
