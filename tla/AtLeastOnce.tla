----------------------------- MODULE AtLeastOnce -----------------------------
(***************************************************************************)
(* What the delivery of notifications promises, with no workers, leases,   *)
(* clocks or database in sight: a notification that is open is tried a     *)
(* bounded number of times and then settled; it is called sent only on the *)
(* word of the newest attempt; attempts given up may still reach the       *)
(* recipient, at any time; what is settled stays so, unless somebody sends *)
(* a dead notification round again.                                        *)
(***************************************************************************)
EXTENDS Integers

CONSTANTS
    Jobs,       \* notifications
    Attempts    \* attempts allowed for each round

VARIABLES
    state,      \* state[j]
    begun,      \* begun[j]: attempts so far; they are numbered
    reached,    \* reached[j]: the attempts that got through to the recipient
    rounds      \* rounds[j]: times j was sent round again

vars == <<state, begun, reached, rounds>>

\* closed: nobody to send to, or settled before this promise was given.
States == {"absent", "open", "sent", "dead", "closed"}

Init ==
    /\ state \in [Jobs -> {"absent", "closed"}]
    /\ begun = [j \in Jobs |-> 0]
    /\ reached = [j \in Jobs |-> {}]
    /\ rounds = [j \in Jobs |-> 0]

\* The notifications of one event appear together.
Create(new, open) ==
    /\ \A j \in new : state[j] = "absent"
    /\ state' = [j \in Jobs |->
            IF j \in new THEN (IF j \in open THEN "open" ELSE "closed") ELSE state[j]]
    /\ UNCHANGED <<begun, reached, rounds>>

Begin(j) ==
    /\ state[j] = "open"
    /\ begun[j] < Attempts * (1 + rounds[j])
    /\ begun' = [begun EXCEPT ![j] = @ + 1]
    /\ UNCHANGED <<state, reached, rounds>>

\* Any attempt, in any state of the notification: it cannot be called back.
Reach(j, attempt) ==
    /\ attempt \in 1..begun[j]
    /\ reached' = [reached EXCEPT ![j] = @ \cup {attempt}]
    /\ UNCHANGED <<state, begun, rounds>>

Succeed(j) ==
    /\ state[j] = "open"
    /\ begun[j] \in reached[j]
    /\ state' = [state EXCEPT ![j] = "sent"]
    /\ UNCHANGED <<begun, reached, rounds>>

GiveUp(j) ==
    /\ state[j] = "open"
    /\ begun[j] > 0
    /\ state' = [state EXCEPT ![j] = "dead"]
    /\ UNCHANGED <<begun, reached, rounds>>

SendRoundAgain(j) ==
    /\ state[j] = "dead"
    /\ state' = [state EXCEPT ![j] = "open"]
    /\ rounds' = [rounds EXCEPT ![j] = @ + 1]
    /\ UNCHANGED <<begun, reached>>

Next ==
    \/ \E new, open \in SUBSET Jobs : Create(new, open)
    \/ \E j \in Jobs :
          \/ Begin(j) \/ Succeed(j) \/ GiveUp(j) \/ SendRoundAgain(j)
          \/ \E attempt \in 1..begun[j] : Reach(j, attempt)

Safe == Init /\ [][Next]_vars

\* What is open is settled in the end.
Live == \A j \in Jobs : state[j] = "open" ~> state[j] \in {"sent", "dead"}

Spec == Safe /\ Live
=============================================================================
