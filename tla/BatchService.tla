---------------------------- MODULE BatchService ----------------------------
(***************************************************************************)
(* What the batch system promises a client that stays alive: its job is    *)
(* announced once, each task is reported once and only after it ran, and   *)
(* the job is reported finished only after all of its tasks were.  How the *)
(* scheduler, its threads and the workers achieve this is module Scheduler.*)
(***************************************************************************)
EXTENDS Integers

CONSTANTS ServiceJob,   \* the jobs
          ServiceTask   \* the tasks, pairs <<job, id>>

VARIABLES started,   \* jobs announced to their client
          ran,       \* tasks that ran to completion on a worker
          reported,  \* tasks whose completion the client was told
          finished,  \* jobs the client was told are finished
          crashed    \* jobs whose client died

serviceVars == <<started, ran, reported, finished, crashed>>

ServiceTasksOf(j) == {t \in ServiceTask : t[1] = j}

ServiceInit ==
    started = {} /\ ran = {} /\ reported = {} /\ finished = {} /\ crashed = {}

StartJob(j) ==
    /\ j \notin started \union finished \union crashed
    /\ started' = started \union {j}
    /\ UNCHANGED <<ran, reported, finished, crashed>>

RunTask(t) ==
    /\ t \notin ran
    /\ t[1] \in started \union crashed
    /\ ran' = ran \union {t}
    /\ UNCHANGED <<started, reported, finished, crashed>>

ReportTask(t) ==
    /\ t \in ran \ reported
    /\ t[1] \notin finished \union crashed
    /\ reported' = reported \union {t}
    /\ UNCHANGED <<started, ran, finished, crashed>>

FinishJob(j) ==
    /\ j \notin finished \union crashed
    /\ ServiceTasksOf(j) # {} => j \in started
    /\ ServiceTasksOf(j) \subseteq reported
    /\ finished' = finished \union {j}
    /\ UNCHANGED <<started, ran, reported, crashed>>

CrashClient(j) ==
    /\ j \notin crashed
    /\ crashed' = crashed \union {j}
    /\ UNCHANGED <<started, ran, reported, finished>>

ServiceNext ==
    \/ \E j \in ServiceJob : StartJob(j) \/ FinishJob(j) \/ CrashClient(j)
    \/ \E t \in ServiceTask : RunTask(t) \/ ReportTask(t)

ServiceSpec == ServiceInit /\ [][ServiceNext]_serviceVars

=============================================================================
