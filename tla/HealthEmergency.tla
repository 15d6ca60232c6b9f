-------------------------- MODULE HealthEmergency ---------------------------
(***************************************************************************)
(* Operational health of the paper system: the HealthCoordinator checks    *)
(* the database and the risk engine periodically, opens and closes the     *)
(* database gate of the RiskEngine, and on a transition to CRITICAL calls  *)
(* EmergencyStop.activate, which an operator may call as well.             *)
(*                                                                         *)
(* Market and pipeline monitors can be given to the coordinator, but       *)
(* check_now never asks them; they have no part in its decisions.          *)
(***************************************************************************)
EXTENDS Naturals, Sequences, SequencesExt

CONSTANTS
    RiskMonitored,    \* a RiskHealthMonitor is configured
    NotifierFails,    \* the notifier may be down
    MayStop,          \* the application may stop the coordinator
    MaxChanges        \* bound on the changes of the environment

ASSUME HealthAssumption ==
    /\ {RiskMonitored, NotifierFails, MayStop} \subseteq BOOLEAN
    /\ MaxChanges \in Nat

VARIABLES
    database,     \* what the connection check meets: a DatabaseHealthStatus
    sound,        \* reconciliation, drawdown and daily loss are all in order
    notifier,     \* the notifier delivers
    gate,         \* RiskEngine.database_available
    last,         \* HealthCoordinator._last_status, "NONE" before the first check
    result,       \* status found by the check under way
    pc,           \* what each activator awaits: the coordinator's loop, the operator
    active,       \* EmergencyStop.active
    holder,       \* holder of EmergencyStop._lock
    step,         \* index of the emergency step under way
    calls,        \* history: how often each step was attempted
    changes

env == <<database, sound, notifier, changes>>
stopVars == <<active, holder, step, calls>>
vars == <<env, gate, last, result, pc, stopVars>>

-----------------------------------------------------------------------------
Activators == {"loop", "operator"}
Statuses == {"HEALTHY", "DEGRADED", "CRITICAL"}

\* The safety steps in the order of activate().
Steps == <<"disable_trading", "close_execution", "save_checkpoint", "record_risk_event",
           "notify", "stop_runtime">>

TypeOK ==
    /\ database \in {"OK", "DEGRADED", "UNAVAILABLE"}
    /\ {sound, notifier, gate, active} \subseteq BOOLEAN
    /\ last \in Statuses \cup {"NONE"} /\ result \in Statuses
    /\ pc["loop"] \in {"idle", "checking", "alerting", "locking", "stopping", "cancelled"}
    /\ pc["operator"] \in {"idle", "locking", "stopping", "returned"}
    /\ holder \in Activators \cup {"nobody"}
    /\ step \in 1 .. Len(Steps)
    /\ calls \in [ToSet(Steps) -> 0 .. 2]
    /\ changes \in 0 .. MaxChanges

Init ==
    /\ database = "OK" /\ sound = TRUE /\ notifier = TRUE /\ changes = 0
    /\ gate = TRUE /\ last = "NONE" /\ result = "HEALTHY"
    /\ pc = [a \in Activators |-> "idle"]
    /\ active = FALSE /\ holder = "nobody" /\ step = 1
    /\ calls = [s \in ToSet(Steps) |-> 0]

-----------------------------------------------------------------------------
(* HealthCoordinator.                                                      *)

\* RiskHealthMonitor.check: CRITICAL for any failed condition, else OK.
RiskCritical(databaseAvailable) == RiskMonitored /\ (~databaseAvailable \/ ~sound)

Overall(databaseAvailable) ==
    IF ~databaseAvailable \/ RiskCritical(databaseAvailable) THEN "CRITICAL"
    ELSE IF database = "DEGRADED" THEN "DEGRADED" ELSE "HEALTHY"

CheckBegins ==
    /\ pc["loop"] = "idle"
    /\ pc' = [pc EXCEPT !["loop"] = "checking"]
    /\ UNCHANGED <<env, gate, last, result, stopVars>>

\* Mutant: the gate of the risk engine only moves when a status has been settled.
CheckReturnsLateGate ==
    LET available == database # "UNAVAILABLE"
        status == Overall(available)
    IN  /\ pc["loop"] = "checking"
        /\ result' = status
        /\ IF status = last \/ (status = "HEALTHY" /\ last = "NONE")
             THEN gate' = available /\ last' = status /\ pc' = [pc EXCEPT !["loop"] = "idle"]
             ELSE UNCHANGED <<gate, last>> /\ pc' = [pc EXCEPT !["loop"] = "alerting"]
        /\ UNCHANGED <<env, stopVars>>

\* The connection check returns, or raises and counts as UNAVAILABLE: the gate
\* moves first, then a changed status is announced.
CheckReturns ==
    LET available == database # "UNAVAILABLE"
        status == Overall(available)
    IN  /\ pc["loop"] = "checking"
        /\ gate' = available
        /\ result' = status
        /\ IF status = last \/ (status = "HEALTHY" /\ last = "NONE")
             THEN last' = status /\ pc' = [pc EXCEPT !["loop"] = "idle"]
             ELSE UNCHANGED last /\ pc' = [pc EXCEPT !["loop"] = "alerting"]
        /\ UNCHANGED <<env, stopVars>>

AlertSent ==
    /\ pc["loop"] = "alerting" /\ notifier
    /\ IF result = "CRITICAL"
         THEN UNCHANGED last /\ pc' = [pc EXCEPT !["loop"] = "locking"]
         ELSE last' = result /\ pc' = [pc EXCEPT !["loop"] = "idle"]
    /\ UNCHANGED <<env, gate, result, stopVars>>

\* Mutant: the new status is kept although its announcement failed.
AlertRaisesSettled ==
    /\ pc["loop"] = "alerting" /\ ~notifier
    /\ last' = result
    /\ pc' = [pc EXCEPT !["loop"] = "idle"]
    /\ UNCHANGED <<env, gate, result, stopVars>>

\* The exception leaves check_now before _last_status is set: the loop logs it
\* and the next check meets the same transition again.
AlertRaises ==
    /\ pc["loop"] = "alerting" /\ ~notifier
    /\ pc' = [pc EXCEPT !["loop"] = "idle"]
    /\ UNCHANGED <<env, gate, last, result, stopVars>>

\* stop_periodic cancels the loop at whatever it awaits; a lock it holds is released.
StopPeriodic ==
    /\ MayStop /\ pc["loop"] # "cancelled"
    /\ pc' = [pc EXCEPT !["loop"] = "cancelled"]
    /\ holder' = IF holder = "loop" THEN "nobody" ELSE holder
    /\ UNCHANGED <<env, gate, last, result, active, step, calls>>

-----------------------------------------------------------------------------
(* EmergencyStop.activate, called by a.                                    *)

OperatorActivates ==
    /\ pc["operator"] = "idle"
    /\ pc' = [pc EXCEPT !["operator"] = "locking"]
    /\ UNCHANGED <<env, gate, last, result, stopVars>>

\* activate() returns or raises; the coordinator swallows the exception and
\* settles the status.
Returns(a) ==
    /\ holder' = "nobody"
    /\ pc' = [pc EXCEPT ![a] = IF a = "loop" THEN "idle" ELSE "returned"]
    /\ last' = IF a = "loop" THEN result ELSE last

\* Mutant: the lock is taken, but nobody looks whether a stop was made before.
AcquiresBlindly(a) ==
    /\ pc[a] = "locking" /\ holder = "nobody"
    /\ active' = TRUE /\ holder' = a /\ step' = 1
    /\ pc' = [pc EXCEPT ![a] = "stopping"]
    /\ UNCHANGED <<last, env, gate, result, calls>>

Acquires(a) ==
    /\ pc[a] = "locking" /\ holder = "nobody"
    /\ IF active
         THEN Returns(a) /\ UNCHANGED <<active, step>>
         ELSE /\ active' = TRUE /\ holder' = a /\ step' = 1
              /\ pc' = [pc EXCEPT ![a] = "stopping"]
              /\ UNCHANGED last
    /\ UNCHANGED <<env, gate, result, calls>>

Attempt(s) == calls' = [calls EXCEPT ![s] = @ + 1]

\* Mutant: the first step that raises ends the activation.
GivesUp(a) ==
    /\ pc[a] = "stopping" /\ Steps[step] # "stop_runtime"
    /\ Attempt(Steps[step])
    /\ \/ step' = step + 1 /\ UNCHANGED <<pc, last, holder>>
       \/ UNCHANGED step /\ Returns(a)
    /\ UNCHANGED <<env, gate, result, active>>

\* Mutant: the first step that raises goes straight to the stop of the runtime.
SkipsToStop(a) ==
    /\ pc[a] = "stopping" /\ Steps[step] # "stop_runtime"
    /\ Attempt(Steps[step])
    /\ step' \in {step + 1, Len(Steps)}
    /\ UNCHANGED <<env, gate, result, active, pc, last, holder>>

\* The callbacks before the notification: whether it returns or raises, the
\* next step follows.  The notification is not protected: when it
\* raises, activate() ends there.
NextStep(a) ==
    /\ pc[a] = "stopping" /\ Steps[step] # "stop_runtime"
    /\ Attempt(Steps[step])
    /\ IF Steps[step] = "notify" /\ ~notifier
         THEN UNCHANGED step /\ Returns(a)
         ELSE step' = step + 1 /\ UNCHANGED <<pc, last, holder>>
    /\ UNCHANGED <<env, gate, result, active>>

StopRuntime(a) ==
    /\ pc[a] = "stopping" /\ Steps[step] = "stop_runtime"
    /\ Attempt("stop_runtime")
    /\ Returns(a)
    /\ UNCHANGED <<env, gate, result, active, step>>

-----------------------------------------------------------------------------
(* The environment.                                                        *)

Environment ==
    /\ changes < MaxChanges /\ changes' = changes + 1
    /\ \/ /\ database' \in {"OK", "DEGRADED", "UNAVAILABLE"} \ {database}
          /\ UNCHANGED <<sound, notifier>>
       \/ sound' = ~sound /\ UNCHANGED <<database, notifier>>
       \/ NotifierFails /\ notifier' = ~notifier /\ UNCHANGED <<database, sound>>
    /\ UNCHANGED <<gate, last, result, pc, stopVars>>

Coordinator == CheckBegins \/ CheckReturns \/ AlertSent \/ AlertRaises

Activation(a) == Acquires(a) \/ NextStep(a) \/ StopRuntime(a)

Next ==
    \/ Coordinator \/ StopPeriodic \/ OperatorActivates \/ Environment
    \/ \E a \in Activators : Activation(a)

Spec == Init /\ [][Next]_vars

\* The loop wakes up after every interval and the event loop resumes whoever
\* awaits; asyncio.Lock serves its waiters in order.
Fairness ==
    /\ WF_vars(Coordinator)
    /\ \A a \in Activators : WF_vars(NextStep(a) \/ StopRuntime(a)) /\ SF_vars(Acquires(a))

FairSpec == Spec /\ Fairness

-----------------------------------------------------------------------------
(* Properties.                                                             *)

\* "Activate once": however coordinator and operator interleave, and whatever
\* fails or is cancelled, no safety step is attempted a second time.
EachStepAtMostOnce == \A s \in ToSet(Steps) : calls[s] <= 1

\* The runtime is stopped only after every step that makes the stop safe.
RuntimeStoppedLast ==
    calls["stop_runtime"] > 0 => \A s \in ToSet(Steps) : calls[s] > 0

\* The coordinator's loop is never cancelled.
Monitored == [](pc["loop"] # "cancelled")

\* "Feed health status into RiskEngine": a database that stays away closes the
\* gate, and one that stays reachable opens it, even if no alert gets through.
GateFollowsDatabase ==
    Monitored =>
        /\ <>[](database = "UNAVAILABLE") => <>[]~gate
        /\ <>[](database # "UNAVAILABLE") => <>[]gate

\* "Trigger EmergencyStop on critical failures (fail-closed)", provided that
\* the notifier is not down for good: a check whose alert raised is repeated
\* until the emergency stop has been called.
HeardCriticalActivates ==
    Monitored /\ <>[](database = "UNAVAILABLE" /\ notifier) => <>active

\* "attempt every safety step even if an earlier step fails": a stop that no
\* cancellation and no failing notification cuts short attempts them all.
ActivationIsComplete ==
    Monitored /\ []notifier => (active ~> \A s \in ToSet(Steps) : calls[s] > 0)

\* EmergencyStop.activate, whoever calls it and whatever fails: every safety
\* step at most once, and the runtime only after all of them.
StepsOnceAndInOrder == EachStepAtMostOnce /\ RuntimeStoppedLast

\* From a critical status to the last safety step: the stop is called in the
\* end, and a stop that was called is carried out.
CriticalIsHandled == HeardCriticalActivates /\ ActivationIsComplete
=============================================================================
