--------------------------- MODULE TemporalProxy ----------------------------
(***************************************************************************)
(* The hop from the saga to an actor: an activity that sends an update as  *)
(* a client of the server and waits for its answer.  An attempt that does  *)
(* not hear in time is given up and made again, with the same update id;   *)
(* what it has sent may still be under way, even when the whole activity   *)
(* has failed, because nothing stops an attempt that has timed out.        *)
(***************************************************************************)
EXTENDS TemporalActor

CONSTANTS
    MaxTries,    \* attempts of the proxy activity (3 in the code)
    MaxTimeouts  \* bound: how many of them are not heard

ASSUME ProxyAssumption == MaxTries \in Nat \ {0} /\ MaxTimeouts \in Nat

VARIABLES
    tries,       \* saga -> number of its proxy's present attempt
    timeouts     \* how much of the bound is used up

proxyVars == <<cluster, entity, bounds, wire, call, reply, tries, timeouts>>

ProxyTypeOK ==
    /\ ActorTypeOK
    /\ tries \in [Sagas -> 1..MaxTries]
    /\ timeouts \in 0..MaxTimeouts

ProxyInit ==
    /\ ActorInit
    /\ tries = [s \in Sagas |-> 1]
    /\ timeouts = 0

\* The saga schedules the activity, whose first attempt sends the request.
Send(s, update) ==
    /\ call' = [call EXCEPT ![s] = {update}]
    /\ wire' = wire \union {update}
    /\ reply' = [reply EXCEPT ![s] = "waiting"]
    /\ UNCHANGED <<cluster, entity, bounds, tries, timeouts>>

\* Fault: the actor does not look whether it has seen the id before.
DeliverAnyway(update) ==
    /\ update \in wire
    /\ wire' = wire \ {update}
    /\ LET f == update.family
       IN  /\ queue' = [queue EXCEPT ![f] = Append(@, update)]
           /\ actor' = [actor EXCEPT ![f] = IF @ = "absent" THEN "starting" ELSE @]
    /\ UNCHANGED <<cluster, cache, steps, attempt, finished, ran, twice, bounds,
                   call, reply, tries, timeouts>>

\* The request reaches the family's actor, which is started if there is none.
\* An id that its run has finished is answered again, one that is in line is
\* not queued twice.
Deliver(update) ==
    /\ update \in wire
    /\ wire' = wire \ {update}
    /\ LET f     == update.family
           known == {done \in finished[f] : done.id = update.id}
       IN  /\ IF known = {} THEN UNCHANGED reply
              ELSE Tell({update.id}, (CHOOSE done \in known : TRUE).answer)
           /\ queue' = [queue EXCEPT ![f] =
                  IF known # {} \/ \E u \in ToSet(@) : u.id = update.id
                  THEN @ ELSE Append(@, update)]
           /\ actor' = [actor EXCEPT ![f] = IF @ = "absent" THEN "starting" ELSE @]
    /\ UNCHANGED <<cluster, cache, steps, attempt, finished, ran, twice, bounds,
                   call, tries, timeouts>>

\* The attempt times out or its worker dies, whatever it has heard.
NotHeard(s) ==
    /\ call[s] # {}
    /\ timeouts < MaxTimeouts
    /\ timeouts' = timeouts + 1

\* The next attempt sends the same request.
TryAgain(s) ==
    /\ NotHeard(s)
    /\ tries[s] < MaxTries
    /\ tries' = [tries EXCEPT ![s] = @ + 1]
    /\ wire' = wire \union call[s]
    /\ reply' = [reply EXCEPT ![s] = "waiting"]
    /\ UNCHANGED <<cluster, entity, bounds, call>>

\* There is no next attempt: the activity has failed.
GiveUp(s) ==
    /\ NotHeard(s)
    /\ tries[s] = MaxTries
    /\ reply[s] # "failed"
    /\ reply' = [reply EXCEPT ![s] = "failed"]
    /\ UNCHANGED <<cluster, entity, bounds, wire, call, tries>>

\* The update was aborted with its run: a failure the proxy does not retry.
Refused(s) ==
    /\ reply[s] = "aborted"
    /\ reply' = [reply EXCEPT ![s] = "failed"]
    /\ UNCHANGED <<cluster, entity, bounds, wire, call, tries, timeouts>>

\* The answer is recorded as the activity's result.  A request of one of its
\* attempts that has not been delivered is lost, or is delivered later.
Receive(s, answers) ==
    /\ reply[s] \in answers
    /\ reply' = [reply EXCEPT ![s] = "none"]
    /\ call' = [call EXCEPT ![s] = {}]
    /\ tries' = [tries EXCEPT ![s] = 1]
    /\ wire' \in {wire, wire \ call[s]}
    /\ UNCHANGED <<cluster, entity, bounds, timeouts>>

ProxyStep(s) ==
    \/ TryAgain(s)
    \/ GiveUp(s)
    \/ Refused(s)

\* Every request still under way belongs to a call that is being made.
NoneLate == \A u \in wire : \E s \in Sagas : u \in call[s]
=============================================================================
