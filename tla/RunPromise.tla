---------------------------- MODULE RunPromise ----------------------------
(***************************************************************************)
(* What POST /experiments promises about a run, whatever machinery serves  *)
(* it: a run that is accepted answers its questions one after another, and *)
(* the result kept for it covers the whole dataset unless somebody asked   *)
(* for the run to stop.  ExperimentRun is shown to implement this module.  *)
(***************************************************************************)
EXTENDS Naturals

CONSTANTS
    Runs,       \* identifiers of runs
    Questions   \* Questions[r]: number of questions in the dataset of run r

VARIABLES
    life,       \* life[r]: what has become of run r
    answered,   \* answered[r]: questions of r that have a result
    asked       \* runs whose stop request was accepted

promiseVars == <<life, answered, asked>>

Lives == {"unborn", "active", "complete", "cut", "failed", "lost"}

PromiseInit ==
    /\ life = [r \in Runs |-> "unborn"]
    /\ answered = [r \in Runs |-> 0]
    /\ asked = {}

Begin(r) ==
    /\ life[r] = "unborn"
    /\ life' = [life EXCEPT ![r] = "active"]
    /\ UNCHANGED <<answered, asked>>

Answer(r) ==
    /\ life[r] = "active"
    /\ answered[r] < Questions[r]
    /\ answered' = [answered EXCEPT ![r] = @ + 1]
    /\ UNCHANGED <<life, asked>>

AskToStop(r) ==
    /\ life[r] = "active"
    /\ asked' = asked \cup {r}
    /\ UNCHANGED <<life, answered>>

(***************************************************************************)
(* The two ways of keeping a result.  A cut result is short, and only a    *)
(* run that was asked to stop has one.                                     *)
(***************************************************************************)
KeepComplete(r) ==
    /\ life[r] = "active"
    /\ answered[r] = Questions[r]
    /\ life' = [life EXCEPT ![r] = "complete"]
    /\ UNCHANGED <<answered, asked>>

KeepCut(r) ==
    /\ life[r] = "active"
    /\ r \in asked
    /\ answered[r] < Questions[r]
    /\ life' = [life EXCEPT ![r] = "cut"]
    /\ UNCHANGED <<answered, asked>>

Fail(r) ==
    /\ life[r] = "active"
    /\ life' = [life EXCEPT ![r] = "failed"]
    /\ UNCHANGED <<answered, asked>>

\* The process that was serving the active runs is gone.
Lose ==
    /\ life' = [r \in Runs |-> IF life[r] = "active" THEN "lost" ELSE life[r]]
    /\ UNCHANGED <<answered, asked>>

PromiseNext ==
    \/ \E r \in Runs :
          \/ Begin(r)
          \/ Answer(r)
          \/ AskToStop(r)
          \/ KeepComplete(r)
          \/ KeepCut(r)
          \/ Fail(r)
    \/ Lose

PromiseSpec == PromiseInit /\ [][PromiseNext]_promiseVars
============================================================================
