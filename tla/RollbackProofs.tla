--------------------------- MODULE RollbackProofs ---------------------------
(***************************************************************************)
(* For any set of requests, versions and faults: a rollback marked healthy *)
(* has its target in production, and an answer that the health check       *)
(* failed has the former deployment back.  The inductive invariant says    *)
(* what a step that a port answers from its record still says about        *)
(* production, several attempts and requests later.                        *)
(***************************************************************************)
EXTENDS Rollback, TLAPS

Creation == <<"deployment", "create">>
ConfigTarget == <<"config", "target">>
ProviderTarget == <<"provider", "target">>
ConfigCurrent == <<"config", "current">>
ProviderCurrent == <<"provider", "current">>
Compensation == <<"database", "compensate">>
Activities == {Creation, ConfigTarget, ProviderTarget, ConfigCurrent, ProviderCurrent, Compensation}

\* The failures of steps that have a recovery of their own.
StepFailures == {"environment_config_restore_failed", "compensating_plan_failed",
                 "provider_rollback_failed"}

CallOK ==
    /\ reason \in StepFailures \cup {"none", "rollback_health_failed", "rollback_recovery_failed"}
    /\ pc # "idle" => key \in Keys
    /\ answer = "rollback_health_failed" => key \in Keys
    /\ pc = "recoverConfig" => reason \in StepFailures
    /\ pc \in {"recoverSwitch", "recoverCurrent"} => reason = "rollback_health_failed"
    /\ pc \in {"healthy", "complete"} => verdict[key] = "healthy"

\* What the ports have recorded for a request still holds in production, if
\* no other change has overwritten it.
RecordsHold ==
    \A k \in Keys :
        /\ <<k, ConfigTarget>> \in done /\ k \notin undone => config = TargetOf[k]
        /\ <<k, ProviderTarget>> \in done /\ k \notin undone => provider = TargetOf[k]
        /\ <<k, Compensation>> \in done => k \in compensated

\* A request without a row has no record of a port either: it is a new one.
NewIsUnrecorded ==
    /\ \A k \in Keys, a \in Activities : <<k, a>> \in done => row[k] # "none"
    /\ pc \notin {"idle", "create"} => row[key] # "none"

\* What the call has behind it is recorded.
StepsRecorded ==
    /\ pc \in {"compensate", "switch", "health", "healthy", "complete", "recoverSwitch", "recoverCurrent"}
          => <<key, ConfigTarget>> \in done
    /\ pc \in {"health", "healthy", "complete", "recoverSwitch", "recoverCurrent"}
          => <<key, ProviderTarget>> \in done
    /\ pc \in {"switch", "health", "healthy", "complete"} /\ Reversibility[key] = "compensating"
          => <<key, Compensation>> \in done

\* As long as its request has not been found healthy, a recovery of the
\* current deployment stays in force: the deployment it restored is still the
\* current one, and the steps to the target are not taken again.
RestoredStays ==
    key \in Keys /\ verdict[key] # "healthy" =>
        /\ cur = serving
        /\ <<key, ProviderCurrent>> \in done => <<key, ProviderTarget>> \in done /\ provider = cur
        /\ <<key, ConfigCurrent>> \in done => <<key, ConfigTarget>> \in done /\ config = cur
        /\ pc = "recoverCurrent" => provider = cur
        /\ \/ pc = "fail" /\ reason = "rollback_health_failed"
           \/ pc = "idle" /\ answer = "rollback_health_failed"
           => provider = cur /\ config = cur

\* The inductive invariant.
RollbackInv ==
    /\ RollbackTypeOK
    /\ CallOK
    /\ RecordsHold
    /\ NewIsUnrecorded
    /\ StepsRecorded
    /\ RestoredStays

-----------------------------------------------------------------------------

LEMMA RollbackInvInit == Init => RollbackInv
  BY RollbackAssumption
     DEF Init, RollbackInv, RollbackTypeOK, CallOK, RecordsHold, NewIsUnrecorded, StepsRecorded,
         RestoredStays, StepFailures

-----------------------------------------------------------------------------
(* What a port call does to the records and to production.                 *)

\* The port records the activity a of the request, or nothing.
Notes(a) == done' \in {done, done \cup {<<key, a>>}}

LEMMA Noted ==
    ASSUME NEW a, Notes(a), NEW k, NEW b, <<k, b>> \in done'
    PROVE  <<k, b>> \in done \/ (k = key /\ b = a)
  BY DEF Notes

LEMMA NotedStays ==
    ASSUME NEW a, Notes(a), NEW k, NEW b, <<k, b>> \in done
    PROVE  <<k, b>> \in done'
  BY Zenon DEF Notes

LEMMA ActivitiesDiffer ==
    /\ ConfigTarget \notin {Creation, ProviderTarget, ConfigCurrent, ProviderCurrent, Compensation}
    /\ ProviderTarget \notin {Creation, ConfigCurrent, ProviderCurrent, Compensation}
    /\ ConfigCurrent \notin {Creation, ProviderCurrent, Compensation}
    /\ ProviderCurrent \notin {Creation, Compensation}
    /\ Compensation # Creation
    /\ \A r \in StepFailures : <<"config", r>> \notin Activities
    /\ \A r : <<"failed", r>> \notin Activities
    /\ <<"deployment", "healthy">> \notin Activities
  BY Zenon DEF Activities, Creation, ConfigTarget, ProviderTarget, ConfigCurrent, ProviderCurrent, Compensation,
         StepFailures

\* A call that leaves production alone keeps what the records say of it.
LEMMA RecordsKept ==
    ASSUME RecordsHold, UNCHANGED production, NEW a,
           a \notin {ConfigTarget, ProviderTarget, Compensation}, Notes(a)
    PROVE  RecordsHold'
<1> SUFFICES ASSUME NEW k \in Keys
             PROVE  /\ <<k, ConfigTarget>> \in done' /\ k \notin undone' => config' = TargetOf[k]
                    /\ <<k, ProviderTarget>> \in done' /\ k \notin undone' => provider' = TargetOf[k]
                    /\ <<k, Compensation>> \in done' => k \in compensated'
  BY Zenon DEF RecordsHold
<1> QED
  BY Noted DEF RecordsHold, production

\* A configuration restored now overwrites the records that say otherwise.
LEMMA RecordsRestored ==
    ASSUME RecordsHold, NEW v, restoreConfig(v), NEW a, a \notin {ProviderTarget, Compensation},
           a = ConfigTarget => v = TargetOf[key], Notes(a)
    PROVE  RecordsHold'
<1> SUFFICES ASSUME NEW k \in Keys
             PROVE  /\ <<k, ConfigTarget>> \in done' /\ k \notin undone' => config' = TargetOf[k]
                    /\ <<k, ProviderTarget>> \in done' /\ k \notin undone' => provider' = TargetOf[k]
                    /\ <<k, Compensation>> \in done' => k \in compensated'
  BY Zenon DEF RecordsHold
<1>1. <<k, ConfigTarget>> \in done /\ k \notin undone' => config' = TargetOf[k]
  BY Zenon DEF restoreConfig, Overwritten, ConfigTarget
<1>2. <<k, ConfigTarget>> \in done' /\ <<k, ConfigTarget>> \notin done => config' = TargetOf[k]
  BY Noted DEF restoreConfig
<1>3. UNCHANGED <<provider, compensated>> /\ (k \in undone => k \in undone')
  BY Zenon DEF restoreConfig
<1> QED
  BY <1>1, <1>2, <1>3, Noted DEF RecordsHold

\* So does a switch of the provider.
LEMMA RecordsSwitched ==
    ASSUME RecordsHold, NEW v, switchProvider(v), NEW a, a \notin {ConfigTarget, Compensation},
           a = ProviderTarget => v = TargetOf[key], Notes(a)
    PROVE  RecordsHold'
<1> SUFFICES ASSUME NEW k \in Keys
             PROVE  /\ <<k, ConfigTarget>> \in done' /\ k \notin undone' => config' = TargetOf[k]
                    /\ <<k, ProviderTarget>> \in done' /\ k \notin undone' => provider' = TargetOf[k]
                    /\ <<k, Compensation>> \in done' => k \in compensated'
  BY Zenon DEF RecordsHold
<1>1. <<k, ProviderTarget>> \in done /\ k \notin undone' => provider' = TargetOf[k]
  BY Zenon DEF switchProvider, Overwritten, ProviderTarget
<1>2. <<k, ProviderTarget>> \in done' /\ <<k, ProviderTarget>> \notin done => provider' = TargetOf[k]
  BY Noted DEF switchProvider
<1>3. UNCHANGED <<config, compensated>> /\ (k \in undone => k \in undone')
  BY Zenon DEF switchProvider
<1> QED
  BY <1>1, <1>2, <1>3, Noted DEF RecordsHold

LEMMA RowsKept ==
    ASSUME NewIsUnrecorded, NEW a, Notes(a), UNCHANGED key,
           \A k \in Keys \ {key} : row'[k] = row[k], row'[key] # "none"
    PROVE  NewIsUnrecorded'
<1> SUFFICES ASSUME NEW k \in Keys, NEW b \in Activities, <<k, b>> \in done'
             PROVE  row'[k] # "none"
  BY Zenon DEF NewIsUnrecorded
<1> QED
  BY Zenon, Noted DEF NewIsUnrecorded

LEMMA Typed ==
    ASSUME RollbackTypeOK, UNCHANGED <<key, cur, verdict>>,
           pc' \in {"idle", "create", "config", "compensate", "switch", "health", "healthy", "complete",
                    "recoverConfig", "recoverSwitch", "recoverCurrent", "fail"},
           config' \in Versions, provider' \in Versions, serving' \in Versions,
           compensated' \subseteq Keys, replays' \subseteq Keys, undone' \subseteq Keys,
           row' \in [Keys -> {"none", "queued", "failed", "healthy"}],
           Fault \/ UNCHANGED faults
    PROVE  RollbackTypeOK'
<1>1. faults' \in 0..MaxFaults
  BY RollbackAssumption DEF RollbackTypeOK, Fault
<1> QED
  BY Zenon, <1>1 DEF RollbackTypeOK

\* What the steps leave alone, unless they say otherwise.
LEMMA StepTyped ==
    ASSUME RollbackInv, pc # "idle"
    PROVE  /\ key \in Keys /\ TargetOf[key] \in Versions
           /\ cur \in Versions /\ config \in Versions /\ provider \in Versions /\ serving \in Versions
           /\ compensated \subseteq Keys /\ replays \subseteq Keys /\ undone \subseteq Keys
           /\ row \in [Keys -> {"none", "queued", "failed", "healthy"}]
           /\ ~(Fault /\ UNCHANGED faults)
  BY RollbackAssumption DEF RollbackInv, RollbackTypeOK, CallOK, Fault

-----------------------------------------------------------------------------
(* The steps of a call.                                                    *)

\* A new attempt finds its own records, a new request none.
LEMMA BeginInv ==
    ASSUME RollbackInv, NEW k \in Keys, Begin(k)
    PROVE  RollbackInv'
<1> USE DEF RollbackInv, Begin, Ends, production, records
<1>1. RollbackTypeOK' /\ CallOK'
  BY Zenon DEF RollbackTypeOK, CallOK
<1>2. RecordsHold' /\ NewIsUnrecorded' /\ StepsRecorded'
  BY Zenon DEF RecordsHold, NewIsUnrecorded, StepsRecorded
<1>3. RestoredStays'
  <2>1. CASE pc' = "create" /\ key' = k /\ k # key
    <3>1. \A a \in {ConfigCurrent, ProviderCurrent} : <<k, a>> \notin done
      BY Zenon, <2>1 DEF NewIsUnrecorded, Activities, Repeated
    <3> QED
      BY Zenon, <2>1, <3>1 DEF RestoredStays
  <2>2. CASE pc' = "create" /\ key' = key
    BY Zenon, <2>2 DEF RestoredStays
  <2>3. CASE pc' = "idle" /\ UNCHANGED <<key, cur>> /\ answer' \in {"healthy", "refused"}
    BY Zenon, <2>3 DEF RestoredStays
  <2> QED
    BY Zenon, <2>1, <2>2, <2>3
<1> QED
  BY Zenon, <1>1, <1>2, <1>3

\* A call that cannot read, or a process that dies, changes nothing else.
LEMMA EndsInv ==
    ASSUME RollbackInv, BeginFails \/ Crash
    PROVE  RollbackInv'
<1> USE DEF RollbackInv, BeginFails, Crash, Ends, production, records
<1>1. RollbackTypeOK' /\ CallOK'
  BY RollbackAssumption DEF RollbackTypeOK, CallOK, Fault
<1>2. RecordsHold' /\ NewIsUnrecorded' /\ StepsRecorded' /\ RestoredStays'
  BY Zenon DEF RecordsHold, NewIsUnrecorded, StepsRecorded, RestoredStays
<1> QED
  BY Zenon, <1>1, <1>2

LEMMA CreateInv ==
    ASSUME RollbackInv, Create
    PROVE  RollbackInv'
<1>1. /\ pc = "create" /\ pc' \in {"config", "idle"} /\ Notes(Creation)
      /\ Fault \/ UNCHANGED faults
      /\ UNCHANGED <<key, cur, verdict, reason, production, serving, replays>>
      /\ row' = row \/ row' = [row EXCEPT ![key] = "queued"]
      /\ answer' = IF pc' = "idle" THEN "error" ELSE answer
  BY Zenon DEF Create, Port, Recorded, Record, Stays, Notes, production, records, Creation
<1>2. \/ <<key, Creation>> \in done
      \/ row' = [row EXCEPT ![key] = "queued"]
      \/ done' = done /\ row' = row /\ pc' = "idle"
  BY Zenon DEF Create, Port, Recorded, Record, records, Creation
<1>3. RollbackTypeOK'
  BY Zenon, <1>1, StepTyped, Typed DEF RollbackInv, production
<1>4. CallOK'
  BY Zenon, <1>1, StepTyped DEF RollbackInv, CallOK
<1>5. RecordsHold' /\ StepsRecorded'
  BY Zenon, <1>1, RecordsKept, ActivitiesDiffer DEF RollbackInv, StepsRecorded
<1>6. NewIsUnrecorded'
  <2>1. CASE done' = done /\ row' = row /\ pc' = "idle"
    BY Zenon, <2>1 DEF RollbackInv, NewIsUnrecorded
  <2>2. CASE <<key, Creation>> \in done \/ row' = [row EXCEPT ![key] = "queued"]
    <3>1. row'[key] # "none" /\ \A k \in Keys \ {key} : row'[k] = row[k]
      BY Zenon, <1>1, <2>2, StepTyped DEF RollbackInv, NewIsUnrecorded, Activities
    <3> QED
      BY Zenon, <1>1, <3>1, RowsKept DEF RollbackInv
  <2> QED
    BY Zenon, <1>2, <2>1, <2>2
<1>7. RestoredStays'
  BY Zenon, <1>1, Noted, ActivitiesDiffer, NotedStays DEF RollbackInv, RestoredStays, production
<1> QED
  BY Zenon, <1>3, <1>4, <1>5, <1>6, <1>7 DEF RollbackInv

LEMMA ConfigInv ==
    ASSUME RollbackInv, Config
    PROVE  RollbackInv'
<1>1. /\ pc = "config" /\ pc' \in {"compensate", "switch", "fail"} /\ Notes(ConfigTarget)
      /\ Fault \/ UNCHANGED faults
      /\ UNCHANGED <<key, cur, verdict, answer, records>>
      /\ \/ UNCHANGED <<production, done>>
         \/ restoreConfig(TargetOf[key]) /\ <<key, ConfigTarget>> \notin done
      /\ pc' # "fail" => <<key, ConfigTarget>> \in done'
      /\ pc' = "fail" => reason' = "environment_config_restore_failed"
      /\ pc' # "fail" => reason' = reason
      /\ pc' = "switch" => Reversibility[key] # "compensating"
  BY Zenon DEF Config, Port, Recorded, Record, Stays, Fails, Notes, restoreConfig, production, records,
         ConfigTarget, databaseState
<1>2. RollbackTypeOK'
  BY Zenon, <1>1, StepTyped, Typed DEF RollbackInv, production, records, restoreConfig, Overwritten
<1>3. CallOK'
  BY Zenon, <1>1, StepTyped DEF RollbackInv, CallOK, StepFailures
<1>4. RecordsHold'
  <2>1. CASE UNCHANGED <<production, done>>
    BY Zenon, <2>1 DEF RollbackInv, RecordsHold, production
  <2>2. CASE restoreConfig(TargetOf[key])
    BY Zenon, <1>1, <2>2, RecordsRestored, ActivitiesDiffer DEF RollbackInv
  <2> QED
    BY Zenon, <1>1, <2>1, <2>2
<1>5. NewIsUnrecorded' /\ StepsRecorded'
  <2>1. row[key] # "none"
    BY Zenon, <1>1 DEF RollbackInv, NewIsUnrecorded
  <2> QED
    BY Zenon, <1>1, <2>1, RowsKept DEF RollbackInv, StepsRecorded, records
<1>6. RestoredStays'
  BY Zenon, <1>1, Noted, ActivitiesDiffer, NotedStays
     DEF RollbackInv, RestoredStays, production, records, restoreConfig, StepFailures
<1> QED
  BY Zenon, <1>2, <1>3, <1>4, <1>5, <1>6 DEF RollbackInv

LEMMA CompensateInv ==
    ASSUME RollbackInv, Compensate
    PROVE  RollbackInv'
<1>1. /\ pc = "compensate" /\ pc' \in {"switch", "recoverConfig"} /\ Notes(Compensation)
      /\ Fault \/ UNCHANGED faults
      /\ UNCHANGED <<key, cur, verdict, answer, records, config, provider, undone>>
      /\ \/ UNCHANGED <<compensated, done>>
         \/ compensated' = compensated \cup {key}
      /\ pc' = "switch" => <<key, Compensation>> \in done' /\ reason' = reason
      /\ pc' = "recoverConfig" => reason' = "compensating_plan_failed"
  BY Zenon DEF Compensate, Port, Recorded, Record, Stays, Fails, Notes, production, records, Compensation
<1>2. RollbackTypeOK'
  BY Zenon, <1>1, StepTyped, Typed DEF RollbackInv, records
<1>3. CallOK'
  BY Zenon, <1>1, StepTyped DEF RollbackInv, CallOK, StepFailures
<1>4. RecordsHold'
  <2> SUFFICES ASSUME NEW k \in Keys
               PROVE  /\ <<k, ConfigTarget>> \in done' /\ k \notin undone' => config' = TargetOf[k]
                      /\ <<k, ProviderTarget>> \in done' /\ k \notin undone' => provider' = TargetOf[k]
                      /\ <<k, Compensation>> \in done' => k \in compensated'
    BY Zenon DEF RecordsHold
  <2> QED
    BY Zenon, <1>1, Noted, ActivitiesDiffer DEF RollbackInv, RecordsHold
<1>5. NewIsUnrecorded' /\ StepsRecorded'
  <2>1. row[key] # "none"
    BY Zenon, <1>1 DEF RollbackInv, NewIsUnrecorded
  <2> QED
    BY Zenon, <1>1, <2>1, RowsKept, NotedStays DEF RollbackInv, StepsRecorded, records
<1>6. RestoredStays'
  BY <1>1, Noted, ActivitiesDiffer, NotedStays DEF RollbackInv, RestoredStays, records
<1> QED
  BY Zenon, <1>2, <1>3, <1>4, <1>5, <1>6 DEF RollbackInv

LEMMA SwitchInv ==
    ASSUME RollbackInv, Switch
    PROVE  RollbackInv'
<1>1. /\ pc = "switch" /\ pc' \in {"health", "recoverConfig"} /\ Notes(ProviderTarget)
      /\ Fault \/ UNCHANGED faults
      /\ UNCHANGED <<key, cur, verdict, answer, records>>
      /\ \/ UNCHANGED <<production, done>>
         \/ switchProvider(TargetOf[key]) /\ <<key, ProviderTarget>> \notin done
      /\ pc' = "health" => <<key, ProviderTarget>> \in done' /\ reason' = reason
      /\ pc' = "recoverConfig" => reason' = "provider_rollback_failed"
  BY Zenon DEF Switch, Port, Recorded, Record, Stays, Fails, Notes, switchProvider, production, records,
         ProviderTarget
<1>2. RollbackTypeOK'
  BY Zenon, <1>1, StepTyped, Typed DEF RollbackInv, production, records, switchProvider, Overwritten
<1>3. CallOK'
  BY Zenon, <1>1, StepTyped DEF RollbackInv, CallOK, StepFailures
<1>4. RecordsHold'
  <2>1. CASE UNCHANGED <<production, done>>
    BY Zenon, <2>1 DEF RollbackInv, RecordsHold, production
  <2>2. CASE switchProvider(TargetOf[key])
    BY Zenon, <1>1, <2>2, RecordsSwitched, ActivitiesDiffer DEF RollbackInv
  <2> QED
    BY Zenon, <1>1, <2>1, <2>2
<1>5. NewIsUnrecorded' /\ StepsRecorded'
  <2>1. row[key] # "none"
    BY Zenon, <1>1 DEF RollbackInv, NewIsUnrecorded
  <2> QED
    BY Zenon, <1>1, <2>1, RowsKept, NotedStays DEF RollbackInv, StepsRecorded, records
<1>6. RestoredStays'
  BY Zenon, <1>1, Noted, ActivitiesDiffer, NotedStays
     DEF RollbackInv, RestoredStays, production, records, switchProvider
<1> QED
  BY Zenon, <1>2, <1>3, <1>4, <1>5, <1>6 DEF RollbackInv

LEMMA HealthInv ==
    ASSUME RollbackInv, Health
    PROVE  RollbackInv'
<1>1. /\ pc = "health" /\ pc' \in {"healthy", "recoverSwitch"}
      /\ Fault \/ UNCHANGED faults
      /\ UNCHANGED <<key, cur, answer, production, done, records>>
      /\ \/ verdict' = verdict
         \/ verdict' = [verdict EXCEPT ![key] = "healthy"]
         \/ verdict[key] = "none" /\ verdict' = [verdict EXCEPT ![key] = "failed"]
      /\ pc' = "healthy" => reason' = reason
      /\ pc' = "recoverSwitch" => reason' = "rollback_health_failed"
  BY Zenon DEF Health, Fails
<1>2. RollbackTypeOK'
  BY <1>1, StepTyped, RollbackAssumption DEF RollbackInv, RollbackTypeOK, Fault, production, records
<1>3. CallOK'
  BY Zenon, <1>1, StepTyped DEF RollbackInv, CallOK, RollbackTypeOK, Health, Fails
<1>4. RecordsHold' /\ NewIsUnrecorded' /\ StepsRecorded'
  BY Zenon, <1>1 DEF RollbackInv, RecordsHold, NewIsUnrecorded, StepsRecorded, production, records
<1>5. verdict'[key] # "healthy" => verdict[key] # "healthy"
  BY Zenon, <1>1, StepTyped DEF RollbackInv, RollbackTypeOK
<1>6. RestoredStays'
  BY Zenon, <1>1, <1>5 DEF RollbackInv, RestoredStays, production, records
<1> QED
  BY Zenon, <1>2, <1>3, <1>4, <1>6 DEF RollbackInv

LEMMA MarkHealthyInv ==
    ASSUME RollbackInv, MarkHealthy
    PROVE  RollbackInv'
<1>1. /\ pc = "healthy" /\ pc' \in {"complete", "idle"} /\ Notes(<<"deployment", "healthy">>)
      /\ Fault \/ UNCHANGED faults
      /\ UNCHANGED <<key, cur, verdict, reason, production, replays>>
      /\ row' = row \/ row' = [row EXCEPT ![key] = "healthy"]
      /\ serving' \in {serving, TargetOf[key]}
      /\ answer' = IF pc' = "idle" THEN "error" ELSE answer
  BY Zenon DEF MarkHealthy, Port, Recorded, Record, Stays, Notes, production, records
<1>2. RollbackTypeOK'
  BY Zenon, <1>1, StepTyped, Typed DEF RollbackInv, production
<1>3. CallOK' /\ verdict'[key'] = "healthy"
  BY Zenon, <1>1, StepTyped DEF RollbackInv, CallOK
<1>4. RecordsHold'
  <2>1. <<"deployment", "healthy">> \notin {ConfigTarget, ProviderTarget, Compensation}
    BY Zenon, ActivitiesDiffer DEF Activities
  <2> QED
    BY Zenon, <1>1, <2>1, RecordsKept DEF RollbackInv
<1>5. NewIsUnrecorded'
  <2>1. row'[key] # "none" /\ \A k \in Keys \ {key} : row'[k] = row[k]
    BY Zenon, <1>1, StepTyped DEF RollbackInv, NewIsUnrecorded
  <2> QED
    BY Zenon, <1>1, <2>1, RowsKept DEF RollbackInv
<1>6. StepsRecorded' /\ RestoredStays'
  BY Zenon, <1>1, <1>3, NotedStays DEF RollbackInv, StepsRecorded, RestoredStays
<1> QED
  BY Zenon, <1>2, <1>3, <1>4, <1>5, <1>6 DEF RollbackInv

LEMMA CompleteInv ==
    ASSUME RollbackInv, Complete
    PROVE  RollbackInv'
<1>1. /\ pc = "complete" /\ pc' = "idle" /\ answer' \in {"healthy", "error"}
      /\ Fault \/ UNCHANGED faults
      /\ UNCHANGED <<key, cur, verdict, reason, production, done, row, serving>>
      /\ replays' \in {replays, replays \cup {key}}
  BY Zenon DEF Complete, Ends, Stays
<1>2. RollbackTypeOK'
  BY Zenon, <1>1, StepTyped, Typed DEF RollbackInv, production
<1>3. CallOK' /\ verdict'[key'] = "healthy"
  BY Zenon, <1>1, StepTyped DEF RollbackInv, CallOK
<1>4. RecordsHold' /\ NewIsUnrecorded' /\ StepsRecorded' /\ RestoredStays'
  BY Zenon, <1>1, <1>3 DEF RollbackInv, RecordsHold, NewIsUnrecorded, StepsRecorded, RestoredStays, production
<1> QED
  BY Zenon, <1>2, <1>3, <1>4 DEF RollbackInv

-----------------------------------------------------------------------------
(* The steps of a recovery.                                                *)

LEMMA RecoverConfigInv ==
    ASSUME RollbackInv, RecoverConfig
    PROVE  RollbackInv'
<1>1. /\ pc = "recoverConfig" /\ pc' = "fail" /\ Notes(<<"config", reason>>)
      /\ Fault \/ UNCHANGED faults
      /\ UNCHANGED <<key, cur, verdict, answer, records>>
      /\ UNCHANGED <<production, done>> \/ restoreConfig(cur)
      /\ reason' \in {reason, "rollback_recovery_failed"}
  BY Zenon DEF RecoverConfig, Port, Recorded, Record, Stays, Notes, restoreConfig, production, records
<1>2. reason \in StepFailures /\ reason' # "rollback_health_failed"
  BY Zenon, <1>1 DEF RollbackInv, CallOK, StepFailures
<1>3. RollbackTypeOK'
  BY Zenon, <1>1, StepTyped, Typed DEF RollbackInv, production, records, restoreConfig, Overwritten
<1>4. CallOK'
  BY Zenon, <1>1, <1>2, StepTyped DEF RollbackInv, CallOK, StepFailures
<1>5. RecordsHold'
  <2>1. CASE UNCHANGED <<production, done>>
    BY Zenon, <2>1 DEF RollbackInv, RecordsHold, production
  <2>2. CASE restoreConfig(cur)
    <3>1. <<"config", reason>> \notin {ConfigTarget, ProviderTarget, Compensation}
      BY Zenon, <1>2, ActivitiesDiffer DEF Activities
    <3> QED
      BY Zenon, <1>1, <2>2, <3>1, RecordsRestored DEF RollbackInv
  <2> QED
    BY Zenon, <1>1, <2>1, <2>2
<1>6. NewIsUnrecorded' /\ StepsRecorded'
  <2>1. row[key] # "none"
    BY Zenon, <1>1 DEF RollbackInv, NewIsUnrecorded
  <2> QED
    BY Zenon, <1>1, <2>1, RowsKept DEF RollbackInv, StepsRecorded, records
<1>7. RestoredStays'
  <2>1. <<"config", reason>> \notin {ConfigTarget, ProviderTarget, ConfigCurrent, ProviderCurrent}
    BY Zenon, <1>2, ActivitiesDiffer DEF Activities
  <2> QED
    BY <1>1, <1>2, <2>1, Noted, NotedStays
       DEF RollbackInv, RestoredStays, production, records, restoreConfig
<1> QED
  BY Zenon, <1>3, <1>4, <1>5, <1>6, <1>7 DEF RollbackInv

LEMMA RecoverSwitchInv ==
    ASSUME RollbackInv, RecoverSwitch
    PROVE  RollbackInv'
<1>1. /\ pc = "recoverSwitch" /\ pc' \in {"recoverCurrent", "fail"} /\ Notes(ProviderCurrent)
      /\ Fault \/ UNCHANGED faults
      /\ UNCHANGED <<key, cur, verdict, answer, records>>
      /\ UNCHANGED <<production, done>> \/ switchProvider(cur)
      /\ pc' = "recoverCurrent" =>
            /\ reason' = reason
            /\ <<key, ProviderCurrent>> \in done \/ switchProvider(cur)
      /\ pc' = "fail" => reason' = "rollback_recovery_failed"
  BY Zenon DEF RecoverSwitch, Port, Recorded, Record, Stays, Notes, switchProvider, production, records,
         ProviderCurrent
<1>2. RollbackTypeOK'
  BY Zenon, <1>1, StepTyped, Typed DEF RollbackInv, production, records, switchProvider, Overwritten
<1>3. CallOK'
  BY Zenon, <1>1, StepTyped DEF RollbackInv, CallOK
<1>4. RecordsHold'
  <2>1. CASE UNCHANGED <<production, done>>
    BY Zenon, <2>1 DEF RollbackInv, RecordsHold, production
  <2>2. CASE switchProvider(cur)
    BY Zenon, <1>1, <2>2, RecordsSwitched, ActivitiesDiffer DEF RollbackInv
  <2> QED
    BY Zenon, <1>1, <2>1, <2>2
<1>5. NewIsUnrecorded' /\ StepsRecorded'
  <2>1. row[key] # "none"
    BY Zenon, <1>1 DEF RollbackInv, NewIsUnrecorded
  <2> QED
    BY Zenon, <1>1, <2>1, RowsKept, NotedStays DEF RollbackInv, StepsRecorded, records
<1>6. RestoredStays'
  <2>1. <<key, ProviderTarget>> \in done' /\ cur \in Versions
    BY Zenon, <1>1, NotedStays, StepTyped DEF RollbackInv, StepsRecorded
  <2>2. ASSUME verdict[key] # "healthy", <<key, ProviderCurrent>> \in done' \/ pc' = "recoverCurrent"
        PROVE  provider' = cur
    <3>1. CASE switchProvider(cur)
      BY Zenon, <3>1 DEF switchProvider
    <3>2. CASE UNCHANGED <<production, done>>
      BY Zenon, <1>1, <2>2, <3>2, StepTyped DEF RollbackInv, RestoredStays, production, switchProvider
    <3> QED
      BY Zenon, <1>1, <3>1, <3>2
  <2>3. <<key, ConfigCurrent>> \in done' => <<key, ConfigCurrent>> \in done /\ config' = config
    BY Zenon, <1>1, Noted, ActivitiesDiffer DEF switchProvider, production
  <2> QED
    BY Zenon, <1>1, <2>1, <2>2, <2>3, NotedStays DEF RollbackInv, RestoredStays, records
<1> QED
  BY Zenon, <1>2, <1>3, <1>4, <1>5, <1>6 DEF RollbackInv

LEMMA RecoverCurrentInv ==
    ASSUME RollbackInv, RecoverCurrent
    PROVE  RollbackInv'
<1>1. /\ pc = "recoverCurrent" /\ pc' = "fail" /\ Notes(ConfigCurrent)
      /\ Fault \/ UNCHANGED faults
      /\ UNCHANGED <<key, cur, verdict, answer, records>>
      /\ UNCHANGED <<production, done>> \/ restoreConfig(cur)
      /\ \/ reason' = "rollback_recovery_failed"
         \/ reason' = reason /\ (<<key, ConfigCurrent>> \in done \/ restoreConfig(cur))
  <2>1. ~(Fault /\ UNCHANGED faults)
    BY Zenon, StepTyped DEF RecoverCurrent, Port
  <2> QED
    BY Zenon, <2>1
       DEF RecoverCurrent, Port, Recorded, Record, Stays, Notes, restoreConfig, production, records,
           ConfigCurrent
<1>2. RollbackTypeOK'
  BY Zenon, <1>1, StepTyped, Typed DEF RollbackInv, production, records, restoreConfig, Overwritten
<1>3. CallOK'
  BY Zenon, <1>1, StepTyped DEF RollbackInv, CallOK
<1>4. RecordsHold'
  <2>1. CASE UNCHANGED <<production, done>>
    BY Zenon, <2>1 DEF RollbackInv, RecordsHold, production
  <2>2. CASE restoreConfig(cur)
    BY Zenon, <1>1, <2>2, RecordsRestored, ActivitiesDiffer DEF RollbackInv
  <2> QED
    BY Zenon, <1>1, <2>1, <2>2
<1>5. NewIsUnrecorded' /\ StepsRecorded'
  <2>1. row[key] # "none"
    BY Zenon, <1>1 DEF RollbackInv, NewIsUnrecorded
  <2> QED
    BY Zenon, <1>1, <2>1, RowsKept, NotedStays DEF RollbackInv, StepsRecorded, records
<1>6. RestoredStays'
  <2>1. <<key, ConfigTarget>> \in done' /\ provider' = provider
    BY Zenon, <1>1, NotedStays DEF RollbackInv, StepsRecorded, restoreConfig, production
  <2>2. ASSUME verdict[key] # "healthy",
               <<key, ConfigCurrent>> \in done' \/ reason' = "rollback_health_failed"
        PROVE  config' = cur
    <3>1. CASE restoreConfig(cur)
      BY Zenon, <3>1 DEF restoreConfig
    <3>2. CASE UNCHANGED <<production, done>> /\ ~restoreConfig(cur)
      BY Zenon, <1>1, <2>2, <3>2, StepTyped DEF RollbackInv, RestoredStays, production
    <3> QED
      BY Zenon, <1>1, <3>1, <3>2
  <2>3. <<key, ProviderCurrent>> \in done' => <<key, ProviderCurrent>> \in done
    BY Zenon, <1>1, Noted, ActivitiesDiffer
  <2> QED
    BY Zenon, <1>1, <2>1, <2>2, <2>3, NotedStays DEF RollbackInv, RestoredStays, records
<1> QED
  BY Zenon, <1>2, <1>3, <1>4, <1>5, <1>6 DEF RollbackInv

LEMMA MarkFailedInv ==
    ASSUME RollbackInv, markFailed
    PROVE  RollbackInv'
<1>1. /\ pc = "fail" /\ pc' = "idle" /\ Notes(<<"failed", reason>>)
      /\ Fault \/ UNCHANGED faults
      /\ UNCHANGED <<key, cur, verdict, reason, production, serving, replays>>
      /\ row' = row \/ row' = [row EXCEPT ![key] = "failed"]
      /\ answer' \in {"error", reason}
  BY Zenon DEF markFailed, Port, Recorded, Record, Stays, Notes, production, records
<1>2. <<"failed", reason>> \notin Activities
  BY Zenon, ActivitiesDiffer
<1>3. RollbackTypeOK'
  BY Zenon, <1>1, StepTyped, Typed DEF RollbackInv, production
<1>4. CallOK'
  BY Zenon, <1>1, StepTyped DEF RollbackInv, CallOK
<1>5. RecordsHold'
  BY Zenon, <1>1, <1>2, RecordsKept DEF RollbackInv, Activities
<1>6. NewIsUnrecorded' /\ StepsRecorded'
  <2>1. row'[key] # "none" /\ \A k \in Keys \ {key} : row'[k] = row[k]
    BY Zenon, <1>1, StepTyped DEF RollbackInv, NewIsUnrecorded
  <2> QED
    BY Zenon, <1>1, <2>1, RowsKept DEF RollbackInv, StepsRecorded
<1>7. RestoredStays'
  BY <1>1, <1>2, Noted, NotedStays DEF RollbackInv, RestoredStays, Activities, production
<1> QED
  BY Zenon, <1>3, <1>4, <1>5, <1>6, <1>7 DEF RollbackInv

LEMMA RollbackInvStep == RollbackInv /\ [Next]_vars => RollbackInv'
<1> SUFFICES ASSUME RollbackInv, [Next]_vars PROVE RollbackInv'
  BY Zenon
<1>1. CASE rollback
  BY Zenon, <1>1, CreateInv, ConfigInv, CompensateInv, SwitchInv, HealthInv, MarkHealthyInv, CompleteInv,
     RecoverConfigInv, RecoverSwitchInv, RecoverCurrentInv, MarkFailedInv DEF rollback
<1>2. CASE UNCHANGED vars
  BY <1>2 DEF vars, call, production, records, RollbackInv, RollbackTypeOK, CallOK, RecordsHold,
              NewIsUnrecorded, StepsRecorded, RestoredStays
<1> QED
  BY Zenon, <1>1, <1>2, BeginInv, EndsInv DEF Next

-----------------------------------------------------------------------------

LEMMA RollbackInvariant == Spec => []RollbackInv
<1> QED
  BY RollbackInvInit, RollbackInvStep, PTL DEF Spec

\* Every variable keeps its type.
THEOREM RollbackTyped == Spec => []RollbackTypeOK
<1>1. RollbackInv => RollbackTypeOK
  BY Zenon DEF RollbackInv
<1> QED
  BY <1>1, RollbackInvariant, PTL

\* Whatever failed or died in this attempt or an earlier one: when a rollback
\* is marked healthy, configuration, provider and compensating plan are those
\* of its target, unless a recovery has overwritten a recorded step of it.
THEOREM HealthyHasTarget == Spec => []HealthyIsTarget
<1>1. RollbackInv => HealthyIsTarget
  BY Zenon DEF RollbackInv, CallOK, RecordsHold, StepsRecorded, HealthyIsTarget
<1> QED
  BY <1>1, RollbackInvariant, PTL

\* An answer that the health check failed means that provider and
\* configuration of the current deployment are back, even when a repeated
\* request has its recovery answered from the records of an earlier attempt.
THEOREM UnhealthyIsRestored == Spec => []RestoredIsCurrent
<1>1. RollbackInv => RestoredIsCurrent
  BY Zenon DEF RollbackInv, CallOK, RestoredStays, RestoredIsCurrent
<1> QED
  BY <1>1, RollbackInvariant, PTL
=============================================================================
