------------------------------ MODULE RunQueue ------------------------------
(***************************************************************************)
(* What AgentRuntime.executeRun promises the callers of one tenant, and    *)
(* nothing of how: requests for a run are served one at a time per tenant  *)
(* and in the order they arrived; a request is either served or turned     *)
(* away when its turn comes.  Runs of different tenants do not wait for    *)
(* each other.                                                             *)
(***************************************************************************)
EXTENDS Naturals

CONSTANTS Tenants,   \* tenant ids
          MaxRuns    \* bound: how many requests are ever made

VARIABLES owner,     \* owner[r]: the tenants run r was requested for ({} before)
          stage      \* stage[r]: how far the request has got

queueVars == <<owner, stage>>

Runs == 1..MaxRuns
Stages == {"absent", "queued", "serving", "left"}

Init == /\ owner = [r \in Runs |-> {}]
        /\ stage = [r \in Runs |-> "absent"]

\* A new request takes a number above every number in use.
Arrive(r, t) == /\ \A q \in Runs : q >= r => stage[q] = "absent"
                /\ stage' = [stage EXCEPT ![r] = "queued"]
                /\ owner' = [owner EXCEPT ![r] = {t}]

\* It is r's turn: nobody of the same tenant is ahead of it.
Turn(r) == /\ stage[r] = "queued"
           /\ \A q \in Runs : q < r /\ owner[q] = owner[r] => stage[q] = "left"

Serve(r) == /\ Turn(r)
            /\ stage' = [stage EXCEPT ![r] = "serving"]
            /\ UNCHANGED owner

TurnAway(r) == /\ Turn(r)
               /\ stage' = [stage EXCEPT ![r] = "left"]
               /\ UNCHANGED owner

Leave(r) == /\ stage[r] = "serving"
            /\ stage' = [stage EXCEPT ![r] = "left"]
            /\ UNCHANGED owner

Next == \E r \in Runs : \/ \E t \in Tenants : Arrive(r, t)
                        \/ Serve(r)
                        \/ TurnAway(r)
                        \/ Leave(r)

Spec == Init /\ [][Next]_queueVars

\* A turn is taken and a service ends, whatever the work being served does.
FairSpec == /\ Spec
            /\ \A r \in Runs : /\ WF_queueVars(Serve(r) \/ TurnAway(r))
                               /\ WF_queueVars(Leave(r))
=============================================================================
