------------------------- MODULE InstanceLifecycle -------------------------
(***************************************************************************)
(* What an InstanceId promises, with no slots, generations or counters.    *)
(* A name is reserved once, occupied once, and dies once; only a live or a *)
(* closing instance has users; it dies only when it has none; a closing    *)
(* instance, whose owner has let go, dies with its last user.              *)
(***************************************************************************)
CONSTANTS Names, Handles

VARIABLES
  status,   \* the stage of each name
  users     \* the handles that hold a checkout of each name

vars == <<status, users>>

Stages == {"unborn", "reserved", "live", "closing", "dead"}

\* Each name has one stage and a set of users.
TypeOK ==
  /\ status \in [Names -> Stages]
  /\ users \in [Names -> SUBSET Handles]

Init ==
  /\ status = [n \in Names |-> "unborn"]
  /\ users = [n \in Names |-> {}]

Move(n, from, to) ==
  /\ status[n] = from
  /\ status' = [status EXCEPT ![n] = to]
  /\ UNCHANGED users

Reserve(n) == Move(n, "unborn", "reserved")
Abandon(n) == Move(n, "reserved", "dead")
Occupy(n) == Move(n, "reserved", "live")
Free(n) == users[n] = {} /\ Move(n, "live", "dead")

Acquire(h, n) ==
  /\ status[n] \in {"live", "closing"}
  /\ \A m \in Names : h \notin users[m]
  /\ users' = [users EXCEPT ![n] = @ \cup {h}]
  /\ UNCHANGED status

Leave(h, n) ==
  /\ h \in users[n]
  /\ users' = [users EXCEPT ![n] = @ \ {h}]
  /\ status' = [status EXCEPT ![n] =
                  IF @ = "closing" /\ users[n] = {h} THEN "dead" ELSE @]

\* The owner lets go: the instance dies now, or with its last user.
DropOwner(h, n) ==
  /\ h \in users[n]
  /\ users' = [users EXCEPT ![n] = @ \ {h}]
  /\ status' = [status EXCEPT ![n] = IF users[n] = {h} THEN "dead" ELSE "closing"]

Next ==
  \E n \in Names :
    \/ Reserve(n) \/ Abandon(n) \/ Occupy(n) \/ Free(n)
    \/ \E h \in Handles : Acquire(h, n) \/ Leave(h, n) \/ DropOwner(h, n)

Spec == Init /\ [][Next]_vars
=============================================================================
