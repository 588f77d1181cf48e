------------------------------ MODULE LinkPool ------------------------------
(***************************************************************************)
(* What the warm pool promises the rest of the server, without a lock, a   *)
(* channel, an order or a clock: a link is parked at most once, one user   *)
(* at most gets it and keeps it until the user hangs up, whatever else     *)
(* happens to the pool; a link nobody got is dropped before it is closed;  *)
(* and a user is served from an open pool only.                            *)
(***************************************************************************)
CONSTANTS
  Links,    \* links that can be offered to the pool
  Users,    \* end users that ask for one
  Nobody    \* no user

VARIABLES
  state,    \* what became of a link
  user,     \* the user a handed link serves
  asking,   \* users waiting for a link
  shut      \* the pool was closed

vars == <<state, user, asking, shut>>

States == {"gone", "offered", "parked", "handed", "dropped"}

TypeOK ==
  /\ state \in [Links -> States]
  /\ user \in [Links -> Users \cup {Nobody}]
  /\ asking \subseteq Users
  /\ shut \in BOOLEAN

Init ==
  /\ state = [l \in Links |-> "gone"]
  /\ user = [l \in Links |-> Nobody]
  /\ asking = {}
  /\ shut = FALSE

Become(l, from, to) ==
  /\ state[l] = from
  /\ state' = [state EXCEPT ![l] = to]

Offer(l) == ~shut /\ Become(l, "gone", "offered") /\ UNCHANGED <<user, asking, shut>>

(* The link turns out unfit before it is parked. *)
Withdraw(l) == Become(l, "offered", "gone") /\ UNCHANGED <<user, asking, shut>>

Park(l) == ~shut /\ Become(l, "offered", "parked") /\ UNCHANGED <<user, asking, shut>>

Refuse(l) == shut /\ Become(l, "offered", "dropped") /\ UNCHANGED <<user, asking, shut>>

Ask(u) == u \notin asking /\ asking' = asking \cup {u} /\ UNCHANGED <<state, user, shut>>

(* A user leaves with nothing; unusable parked links may go on the way. *)
Deny(u) == u \in asking /\ asking' = asking \ {u} /\ UNCHANGED <<state, user, shut>>

(* Links leave the pool unused: some may be closed at once ("gone"), the   *)
(* others are dropped and closed later.                                    *)
Discard(now, later) ==
  /\ \A l \in now \cup later : state[l] = "parked"
  /\ state' = [l \in Links |-> IF l \in now THEN "gone"
                              ELSE IF l \in later THEN "dropped" ELSE state[l]]
  /\ UNCHANGED <<user, asking>>

Expire == \E S \in SUBSET Links : (Discard(S, {}) \/ Discard({}, S)) /\ UNCHANGED shut

Shut ==
  /\ ~shut
  /\ shut' = TRUE
  /\ Discard({}, {l \in Links : state[l] = "parked"})

(* The user gets a parked link; links found unusable on the way go. *)
Hand(l, u, S) ==
  /\ ~shut
  /\ u \in asking
  /\ state[l] = "parked"
  /\ l \notin S
  /\ \A s \in S : state[s] = "parked"
  /\ state' = [k \in Links |-> IF k = l THEN "handed"
                              ELSE IF k \in S THEN "gone" ELSE state[k]]
  /\ user' = [user EXCEPT ![l] = u]
  /\ asking' = asking \ {u}
  /\ UNCHANGED shut

Finish(l) ==
  /\ Become(l, "handed", "gone")
  /\ user' = [user EXCEPT ![l] = Nobody]
  /\ UNCHANGED <<asking, shut>>

Close(l) == Become(l, "dropped", "gone") /\ UNCHANGED <<user, asking, shut>>

Next ==
  \/ \E l \in Links : Offer(l) \/ Withdraw(l) \/ Park(l) \/ Refuse(l) \/ Finish(l) \/ Close(l)
  \/ \E u \in Users : Ask(u) \/ Deny(u)
  \/ \E l \in Links, u \in Users, S \in SUBSET Links : Hand(l, u, S)
  \/ Expire
  \/ Shut

Spec == Init /\ [][Next]_vars
=============================================================================
