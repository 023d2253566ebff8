------------------------------- MODULE Service -------------------------------
(***************************************************************************)
(* A task of the service behind the load balancer: the target group probes *)
(* /readyz and counts, and the ECS service replaces a task whose target is *)
(* unhealthy.  The task is one worker process, its requests are its        *)
(* clients'.                                                               *)
(***************************************************************************)
EXTENDS Worker

CONSTANTS HealthyThreshold,   \* probes in a row
          UnhealthyThreshold

ASSUME ThresholdsAssumption ==
    HealthyThreshold \in Nat \ {0} /\ UnhealthyThreshold \in Nat \ {0}

VARIABLES
    awaited,  \* the load balancer waits for the probe's answer
    target,   \* the state of the target
    streak,   \* probes in a row that spoke against it
    doubt     \* history: there has been a fault since the process started or a probe
              \* last found the target healthy

balancer == <<awaited, target, streak, doubt>>
vars == <<worker, balancer>>

Init ==
    /\ WorkerInit
    /\ awaited = FALSE
    /\ target = "initial"
    /\ streak = 0
    /\ doubt = FALSE

\* Slip: a state changes one probe too late.
CountLate(ok) ==
    LET turned == streak = IF ok THEN HealthyThreshold ELSE UnhealthyThreshold
    IN  IF ok /\ target = "initial" THEN target' = "healthy" /\ streak' = 0
        ELSE IF ok = (target # "unhealthy") THEN UNCHANGED target /\ streak' = 0
        ELSE /\ target' = IF ~turned THEN target ELSE IF ok THEN "healthy" ELSE "unhealthy"
             /\ streak' = IF turned THEN 0 ELSE streak + 1

\* A new target is healthy at its first pass; otherwise a state changes after a
\* threshold of probes in a row that speak against it.
Count(ok) ==
    LET turned == streak + 1 = IF ok THEN HealthyThreshold ELSE UnhealthyThreshold
    IN  IF ok /\ target = "initial" THEN target' = "healthy" /\ streak' = 0
        ELSE IF ok = (target # "unhealthy") THEN UNCHANGED target /\ streak' = 0
        ELSE /\ target' = IF ~turned THEN target ELSE IF ok THEN "healthy" ELSE "unhealthy"
             /\ streak' = IF turned THEN 0 ELSE streak + 1

StartProbe ==
    /\ AskReady
    /\ awaited' = TRUE
    /\ UNCHANGED <<target, streak, doubt>>

\* Redis or Postgres is not up; the pool is the third that may be at fault.
Outage == redis # "up" \/ postgres = "down"

\* The handler ends; its answer counts if the load balancer still waits.
EndProbe ==
    /\ Ping
    /\ awaited' = FALSE
    /\ IF awaited THEN Count(Healthy) ELSE UNCHANGED <<target, streak>>
    /\ doubt' = IF awaited /\ Healthy /\ target' = "healthy" THEN Outage ELSE doubt

ProbeStep ==
    \/ (Connect(Probe) \/ SelectOne) /\ UNCHANGED balancer
    \/ Unready /\ doubt' = TRUE /\ UNCHANGED <<awaited, target, streak>>
    \/ EndProbe

\* The load balancer gives up on a probe whose handler cannot go on, and on
\* every later one while it cannot.  The handlers it has given up on hold
\* nothing: one stands for them all.
Timeout ==
    /\ \/ pc[Probe] = "connect" /\ Exhausted
       \/ pc[Probe] = "ping" /\ redis = "hanging"
    /\ awaited' = FALSE
    /\ Count(FALSE)
    /\ Blame(Probe)
    /\ doubt' = TRUE
    /\ UNCHANGED <<redis, postgres, handling>>

\* Slip: a target that is not yet healthy is taken for an unhealthy one.
ReplaceEarly ==
    /\ target # "healthy"
    /\ Restart
    /\ awaited' = FALSE
    /\ target' = "initial"
    /\ streak' = 0
    /\ doubt' = Outage

\* ECS stops a task whose target is unhealthy, any time after its grace
\* period, and starts another.
Replace ==
    /\ target = "unhealthy"
    /\ Restart
    /\ awaited' = FALSE
    /\ target' = "initial"
    /\ streak' = 0
    /\ doubt' = Outage

Next ==
    \/ \E r \in Requests : (Arrive(r) \/ Step(r)) /\ UNCHANGED balancer
    \/ (RedisChanges \/ PostgresChanges) /\ doubt' = TRUE /\ UNCHANGED <<awaited, target, streak>>
    \/ StartProbe \/ ProbeStep \/ Timeout \/ Replace

Fairness ==
    /\ \A r \in Requests : WF_vars(Step(r) /\ UNCHANGED balancer)
    /\ WF_vars(StartProbe \/ ProbeStep)

Spec == Init /\ [][Next]_vars
FairSpec == Spec /\ Fairness

TypeOK ==
    /\ WorkerTypeOK
    /\ awaited \in BOOLEAN
    /\ target \in {"initial", "healthy", "unhealthy"}
    /\ streak \in 0 .. (IF target = "unhealthy" THEN HealthyThreshold ELSE UnhealthyThreshold) - 1
    /\ doubt \in BOOLEAN

\* No task is replaced and no client cut off by it for a fault that is over: there
\* has been one, of Redis, of Postgres or of the pool, since the process started
\* or a probe last found its target healthy.  Of readyz, whose late answers do not
\* count, and of the target group.  A dead database is such a fault, though
\* README.md says that a task which has one should not be killed.
CutOffForCause ==
    [][\A r \in Requests : pc[r] # "dropped" /\ pc'[r] = "dropped" => doubt]_vars

\* Every request ends, answered or not, unless Redis hangs for good: no await
\* of a route is without an end.  Of routes.py, cache.py and security.py.
EveryRequestEnds ==
    <>[](redis # "hanging") => <>[](\A r \in Requests : pc[r] \in {"idle"} \cup Ended)

\* After the last outage the target is healthy for good, whatever requests and
\* probes were caught by it.  Of readyz and the pool.
ServiceRecovers ==
    <>[](redis = "up" /\ postgres = "up") => <>[](target = "healthy")
=============================================================================
