------------------------------ MODULE PushStages ------------------------------
(***************************************************************************)
(* What the push pipeline promises about one notification, with no queue,  *)
(* no index and no channel: a notification that a handler has taken charge *)
(* of is submitted once, then climbs the ladder Approval -> Channel ->     *)
(* Subscribers.  The bot handler is asked about one notification at a      *)
(* time, and only its answer moves a notification up a rung or takes it    *)
(* off the ladder.  A notification never skips a rung, never goes down     *)
(* one, and never comes back without a new submission.  The one thing that *)
(* takes a notification off unasked is the death of the process, which     *)
(* takes all of them at once and begins another life.                      *)
(***************************************************************************)
CONSTANT Notifications

VARIABLES
    stage,          \* the stage of each notification
    asked,          \* the notification the bot handler is being asked about, if any
    life            \* flips when the process dies, and never otherwise

vars == <<stage, asked, life>>

Idle    == "idle"       \* nobody has to push it
Offered == "offered"    \* a handler or the closer is about to enqueue it

\* The three kinds of request (entity.PushForApproval, PushToChannel,
\* PushToSubscribers), in the order in which one answers for the next.
Kinds == {"Approval", "Channel", "Subscribers"}

\* A handler asks for an approval push, the closer and re-push for a channel
\* push; the subscriber push is only ever reached through the channel push.
Entries == {"Approval", "Channel"}

Successor == [Approval |-> "Channel", Channel |-> "Subscribers"]

Stages == {Idle, Offered} \cup Kinds

Init ==
    /\ stage = [n \in Notifications |-> Idle]
    /\ asked = {}
    /\ life = FALSE

Offer(S) ==
    /\ \A n \in S : stage[n] = Idle
    /\ stage' = [n \in Notifications |-> IF n \in S THEN Offered ELSE stage[n]]
    /\ UNCHANGED <<asked, life>>

Submit(n) ==
    /\ stage[n] = Offered
    /\ \E k \in Entries : stage' = [stage EXCEPT ![n] = k]
    /\ UNCHANGED <<asked, life>>

\* The bot handler is asked to push the notification at its stage.
Ask(n) ==
    /\ asked = {}
    /\ stage[n] \in Kinds
    /\ asked' = {n}
    /\ UNCHANGED <<stage, life>>

\* It accepted, and there is a next rung.
Advance(n) ==
    /\ asked = {n}
    /\ stage[n] \in DOMAIN Successor
    /\ stage' = [stage EXCEPT ![n] = Successor[@]]
    /\ asked' = {}
    /\ UNCHANGED life

\* It accepted the push at the top, or refused.
Leave(n) ==
    /\ asked = {n}
    /\ stage[n] \in Kinds
    /\ stage' = [stage EXCEPT ![n] = Idle]
    /\ asked' = {}
    /\ UNCHANGED life

\* It answered "retry": the notification stays where it is.
Postpone(n) ==
    /\ asked = {n}
    /\ asked' = {}
    /\ UNCHANGED <<stage, life>>

\* Whoever had the pushes in charge kept them in memory, and is gone.
LoseAll ==
    /\ stage' = [n \in Notifications |-> Idle]
    /\ asked' = {}
    /\ life' = ~life

Next ==
    \/ \E S \in SUBSET Notifications : Offer(S)
    \/ LoseAll
    \/ \E n \in Notifications :
          Submit(n) \/ Ask(n) \/ Advance(n) \/ Leave(n) \/ Postpone(n)

Spec == Init /\ [][Next]_vars

TypeOK ==
    /\ stage \in [Notifications -> Stages]
    /\ asked \subseteq Notifications
    /\ life \in BOOLEAN
===============================================================================
