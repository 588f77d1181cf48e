----------------------------- MODULE PoolTunnel -----------------------------
(***************************************************************************)
(* A whole pool-mode tunnel: the client's pool workers                     *)
(* (src/internal/client/client.go), the goroutines of the server that park *)
(* links and forward end users (src/internal/server/server.go), and the    *)
(* links between them.  The server's ready queue is the abstract pool      *)
(* LinkPool, which ReadyQueue shows pool.Ready to implement.               *)
(*                                                                         *)
(* A link is a value of Links.  It has two ends that close independently;  *)
(* what one end wrote before it closed can still be read by the other, and *)
(* a broken link delivers what it already carried, or nothing.  The role   *)
(* byte and the target are the two messages a link carries before it is    *)
(* spliced.  The control role is reserved: no client sends it.             *)
(***************************************************************************)
EXTENDS Naturals, FiniteSets

CONSTANTS
  Workers,   \* the pool workers, cfg.Pool.Size of them
  Links,     \* link identities, taken up again once both ends are closed
  Users,     \* end users of the forwarded ports
  Allowed,   \* users whose forward has a target the client allows
  MaxDelay,  \* how often the backoff doubles until it is at its maximum
  NoLink,    \* nil net.Conn
  Nobody     \* no user

ASSUME UserAssumption == Allowed \subseteq Users /\ Nobody \notin Users
ASSUME LinkAssumption == NoLink \notin Links
ASSUME FiniteAssumption == IsFiniteSet(Workers) /\ IsFiniteSet(Links)
ASSUME DelayAssumption == MaxDelay \in Nat

VARIABLES
  state, user, asking, shut,  \* the pool, see LinkPool
  pc,          \* where a worker is in poolWorker
  link,        \* the link a worker holds
  serves,      \* the user whose target a worker has read
  delay,       \* a worker's backoff, as the number of doublings
  announced,   \* links the client has written the role byte to
  target,      \* the user whose target the server has written to a link
  sConns,      \* the server's gauge of open forwarded connections
  cConns,      \* the client's
  sLinked,     \* the server's flag that a peer is connected
  cLinked,     \* the client's
  broken,      \* links whose path is lost
  stable,      \* from now on links and dials do not fail
  cancelled    \* the client's context has ended

pool == <<state, user, asking, shut>>
worker == <<pc, link, serves, delay>>
wire == <<announced, target>>
gauges == <<sConns, cConns, sLinked, cLinked>>
world == <<broken, stable, cancelled>>
vars == <<state, user, asking, shut, pc, link, serves, delay, announced, target,
          sConns, cConns, sLinked, cLinked, broken, stable, cancelled>>

P == INSTANCE LinkPool

ServerEnd(l) == state[l] # "gone"
ClientEnd(l) == \E w \in Workers : link[w] = l

(* An end that waits on the link notices that the other one is gone. *)
ServerSeesEnd(l) == l \in broken \/ ~ClientEnd(l)
ClientSeesEnd(l) == l \in broken \/ ~ServerEnd(l)

(* Links between a user and the peer. *)
Piped == {l \in Links : state[l] = "handed" /\ target[l] # Nobody}

TypeOK ==
  /\ P!TypeOK
  /\ pc \in [Workers -> {"top", "dialing", "sleeping", "announcing", "parked",
                         "connecting", "serving", "stopped"}]
  /\ link \in [Workers -> Links \cup {NoLink}]
  /\ serves \in [Workers -> Users \cup {Nobody}]
  /\ delay \in [Workers -> 0 .. MaxDelay]
  /\ announced \subseteq Links
  /\ target \in [Links -> Users \cup {Nobody}]
  /\ sConns \in 0 .. Cardinality(Links)
  /\ cConns \in 0 .. Cardinality(Workers)
  /\ sLinked \in BOOLEAN /\ cLinked \in BOOLEAN
  /\ broken \subseteq Links
  /\ stable \in BOOLEAN /\ cancelled \in BOOLEAN

Init ==
  /\ P!Init
  /\ pc = [w \in Workers |-> "top"]
  /\ link = [w \in Workers |-> NoLink]
  /\ serves = [w \in Workers |-> Nobody]
  /\ delay = [w \in Workers |-> 0]
  /\ announced = {}
  /\ target = [l \in Links |-> Nobody]
  /\ sConns = 0 /\ cConns = 0
  /\ sLinked = FALSE /\ cLinked = FALSE
  /\ broken = {} /\ stable = FALSE /\ cancelled = FALSE

-----------------------------------------------------------------------------
(* The client's pool worker. *)

Goto(w, place) == pc' = [pc EXCEPT ![w] = place]

(* The worker closes its link and starts over at once. *)
HangUp(w) ==
  /\ Goto(w, "top")
  /\ link' = [link EXCEPT ![w] = NoLink]
  /\ serves' = [serves EXCEPT ![w] = Nobody]
  /\ UNCHANGED <<delay, wire>>

(* The head of the loop looks at the context. *)
Check(w) ==
  /\ pc[w] = "top"
  /\ Goto(w, IF cancelled THEN "stopped" ELSE "dialing")
  /\ UNCHANGED <<pool, link, serves, delay, wire, gauges, world>>

(* Dial and the handshake succeed; the server's goroutine has accepted the *)
(* link and waits for the role.                                            *)
Dial(w, l) ==
  /\ pc[w] = "dialing"
  /\ ~ClientEnd(l)
  /\ P!Offer(l)
  /\ Goto(w, "announcing")
  /\ link' = [link EXCEPT ![w] = l]
  /\ delay' = [delay EXCEPT ![w] = 0]
  /\ announced' = announced \ {l}
  /\ target' = [target EXCEPT ![l] = Nobody]
  /\ broken' = broken \ {l}
  /\ cLinked' = TRUE
  /\ UNCHANGED <<serves, sConns, cConns, sLinked, stable, cancelled>>

DialFails(w) ==
  /\ pc[w] = "dialing"
  /\ ~stable \/ shut \/ cancelled
  /\ Goto(w, IF cancelled THEN "stopped" ELSE "sleeping")
  /\ UNCHANGED <<pool, link, serves, delay, wire, gauges, world>>

\* The backoff's maximum is ignored.
SlipDoubled(d) == d + 1

(* The maximum need not be a power of two times the minimum: the last step *)
(* may be a shorter one.                                                   *)
Doubled(d) == IF d < MaxDelay THEN d + 1 ELSE d

(* backoff.sleep returns, and has doubled the backoff. *)
SleepEnds(w) ==
  /\ pc[w] = "sleeping"
  /\ IF cancelled
       THEN Goto(w, "stopped") /\ UNCHANGED delay
       ELSE Goto(w, "top") /\ delay' = [delay EXCEPT ![w] = Doubled(@)]
  /\ UNCHANGED <<pool, link, serves, wire, gauges, world>>

Announce(w) ==
  /\ pc[w] = "announcing"
  /\ Goto(w, "parked")
  /\ announced' = announced \cup {link[w]}
  /\ UNCHANGED <<pool, link, serves, delay, target, gauges, world>>

(* WriteRole fails. *)
AnnounceFails(w) ==
  /\ pc[w] = "announcing"
  /\ ClientSeesEnd(link[w])
  /\ HangUp(w)
  /\ UNCHANGED <<pool, gauges, world>>

(* serveLink reads a target, be the other end closed by now or not, and    *)
(* dials it if that is allowed.                                            *)
ReadTarget(w) ==
  /\ pc[w] = "parked"
  /\ target[link[w]] # Nobody
  /\ IF target[link[w]] \in Allowed
       THEN /\ Goto(w, "connecting")
            /\ serves' = [serves EXCEPT ![w] = target[link[w]]]
            /\ UNCHANGED <<link, delay, wire>>
       ELSE HangUp(w)
  /\ UNCHANGED <<pool, gauges, world>>

\* The worker waits for a target on a link that is dead.
SlipReadTargetFails(w) == FALSE

(* The parked link ends before it was used. *)
ReadTargetFails(w) ==
  /\ pc[w] = "parked"
  /\ \/ link[w] \in broken
     \/ ~ServerEnd(link[w]) /\ target[link[w]] = Nobody
  /\ HangUp(w)
  /\ UNCHANGED <<pool, gauges, world>>

Connect(w) ==
  /\ pc[w] = "connecting"
  /\ Goto(w, "serving")
  /\ cConns' = cConns + 1
  /\ UNCHANGED <<pool, link, serves, delay, wire, sConns, sLinked, cLinked, world>>

ConnectFails(w) ==
  /\ pc[w] = "connecting"
  /\ HangUp(w)
  /\ UNCHANGED <<pool, gauges, world>>

(* The pipe between the local target and the link ends: both are closed. *)
EndService(w) ==
  /\ pc[w] = "serving"
  /\ HangUp(w)
  /\ cConns' = cConns - 1
  /\ UNCHANGED <<pool, sConns, sLinked, cLinked, world>>

LocalEnds(w) == EndService(w)
LinkEnds(w) == pc[w] = "serving" /\ ClientSeesEnd(link[w]) /\ EndService(w)

-----------------------------------------------------------------------------
(* The server's goroutine of a link. *)

(* The role byte has come: onPooledLink parks the link. *)
Park(l) ==
  /\ l \in announced
  /\ P!Park(l)
  /\ sLinked' = TRUE
  /\ UNCHANGED <<worker, wire, sConns, cConns, cLinked, world>>

Refuse(l) ==
  /\ l \in announced
  /\ P!Refuse(l)
  /\ UNCHANGED <<worker, wire, gauges, world>>

(* The rest of the handshake or the role byte does not come. *)
Reject(l) ==
  /\ ServerSeesEnd(l)
  /\ l \notin announced \/ l \in broken
  /\ P!Withdraw(l)
  /\ UNCHANGED <<worker, wire, gauges, world>>

(* The reaper drops a parked link; the link is closed a step later. *)
Reap(l) ==
  /\ state[l] = "parked"
  /\ P!Discard({}, {l})
  /\ UNCHANGED <<shut, worker, wire, gauges, world>>

CloseDropped(l) == P!Close(l) /\ UNCHANGED <<worker, wire, gauges, world>>

-----------------------------------------------------------------------------
(* The server's goroutine of an end user, and the user. *)

(* A user connects; forward asks the pool for a link. *)
Ask(u) ==
  /\ \A l \in Links : user[l] # u
  /\ P!Ask(u)
  /\ UNCHANGED <<worker, wire, gauges, world>>

(* linkFor gives up after 5 seconds, or the pool is closed. *)
Deny(u) == P!Deny(u) /\ UNCHANGED <<worker, wire, gauges, world>>

Take(u, l) ==
  /\ \E S \in SUBSET Links : P!Hand(l, u, S)
  /\ UNCHANGED <<worker, wire, gauges, world>>

\* The gauge counts the user once more on the way.
SlipSplice(l) ==
  /\ state[l] = "handed"
  /\ target[l] = Nobody
  /\ target' = [target EXCEPT ![l] = user[l]]
  /\ UNCHANGED <<pool, worker, announced, gauges, world>>

(* forward writes the target, which works on a link whose other end is     *)
(* gone unless that is known by now, and splices the link to the user.     *)
Splice(l) ==
  /\ state[l] = "handed"
  /\ target[l] = Nobody
  /\ target' = [target EXCEPT ![l] = user[l]]
  /\ sConns' = sConns + 1
  /\ UNCHANGED <<pool, worker, announced, cConns, sLinked, cLinked, world>>

SpliceFails(l) ==
  /\ state[l] = "handed"
  /\ target[l] = Nobody
  /\ ServerSeesEnd(l)
  /\ P!Finish(l)
  /\ UNCHANGED <<worker, wire, gauges, world>>

\* The link goes back to the pool for the next user.
SlipRecycle(l) ==
  /\ l \in Piped
  /\ state' = [state EXCEPT ![l] = "parked"]
  /\ user' = [user EXCEPT ![l] = Nobody]
  /\ sConns' = sConns - 1
  /\ UNCHANGED <<asking, shut, worker, wire, cConns, sLinked, cLinked, world>>

(* The pipe ends: link and user are closed. *)
EndPipe(l) ==
  /\ l \in Piped
  /\ P!Finish(l)
  /\ sConns' = sConns - 1
  /\ UNCHANGED <<worker, wire, cConns, sLinked, cLinked, world>>

UserHangsUp(l) == EndPipe(l)

\* The server's end of a link notices nothing.
SlipLinkDies(l) == FALSE

LinkDies(l) == ServerSeesEnd(l) /\ EndPipe(l)

-----------------------------------------------------------------------------
(* The world. *)

Break(l) ==
  /\ ~stable
  /\ ServerEnd(l) \/ ClientEnd(l)
  /\ l \notin broken
  /\ broken' = broken \cup {l}
  /\ UNCHANGED <<pool, worker, wire, gauges, stable, cancelled>>

Stabilize ==
  /\ ~stable
  /\ stable' = TRUE
  /\ UNCHANGED <<pool, worker, wire, gauges, broken, cancelled>>

(* The client is told to stop. *)
Cancel ==
  /\ ~cancelled
  /\ cancelled' = TRUE
  /\ UNCHANGED <<pool, worker, wire, gauges, broken, stable>>

(* The server is told to stop: Run returns and closes the pool. *)
Stop == P!Shut /\ UNCHANGED <<worker, wire, gauges, world>>

WorkerStep(w) ==
  \/ Check(w)
  \/ \E l \in Links : Dial(w, l)
  \/ DialFails(w)
  \/ SleepEnds(w)
  \/ Announce(w) \/ AnnounceFails(w)
  \/ ReadTarget(w) \/ ReadTargetFails(w)
  \/ Connect(w) \/ ConnectFails(w)
  \/ LinkEnds(w)

LinkStep(l) ==
  \/ Park(l) \/ Refuse(l) \/ Reject(l)
  \/ CloseDropped(l)
  \/ Splice(l) \/ SpliceFails(l)
  \/ LinkDies(l)

Next ==
  \/ \E w \in Workers : WorkerStep(w) \/ LocalEnds(w)
  \/ \E l \in Links : LinkStep(l) \/ Reap(l) \/ UserHangsUp(l) \/ Break(l)
  \/ \E u \in Users : Ask(u) \/ Deny(u) \/ \E l \in Links : Take(u, l)
  \/ Stabilize
  \/ Cancel
  \/ Stop

Spec == Init /\ [][Next]_vars

(* Goroutines run, reads on a dead link return, the deadlines of a dial, a *)
(* local dial and a waiting user pass, and a parked link grows stale.  No  *)
(* user comes or leaves, no local service hangs up, nobody stops a side.   *)
Fairness ==
  /\ \A w \in Workers : WF_vars(WorkerStep(w))
  /\ \A l \in Links : WF_vars(LinkStep(l)) /\ WF_vars(Reap(l))
  /\ \A u \in Users : WF_vars(Deny(u))

FairSpec == Spec /\ Fairness
-----------------------------------------------------------------------------
(* A link carries one user only, at both ends: a worker serves the user    *)
(* the server gave its link to, and a link that is parked, and so can be   *)
(* given to a user, carries no target and has a worker that is waiting for *)
(* one or none at all.  Workers redial, links break and close at one end   *)
(* while the other still uses them, and no identifier in the protocol      *)
(* tells users apart: it all rests on a link being used once.              *)
NoCrosstalk ==
  /\ \A w, v \in Workers : w # v /\ link[w] # NoLink => link[w] # link[v]
  /\ \A w \in Workers :
       serves[w] # Nobody /\ state[link[w]] = "handed" =>
         user[link[w]] = serves[w]
  /\ \A l \in Links : state[l] \in {"offered", "parked"} =>
       /\ target[l] = Nobody
       /\ \A w \in Workers : link[w] = l => pc[w] \in {"announcing", "parked"}

(* The server hands out a link only after the client has said what it is   *)
(* for, so that the first byte the client reads on it is the target.       *)
HandedIsAnnounced ==
  \A l \in Links : state[l] \in {"parked", "handed"} => l \in announced

(* A link is used once, for one user, and only for what it was announced.  *)
UsedOnce == NoCrosstalk /\ HandedIsAnnounced

(* The gauges of open connections count the spliced links on either side:  *)
(* no way out of forward or serveLink leaves them off by one.              *)
GaugesExact ==
  /\ sConns = Cardinality(Piped)
  /\ cConns = Cardinality({w \in Workers : pc[w] = "serving"})

(* Liveness: the pool refills.  Once dials and links have stopped failing, *)
(* a worker that is without a parked link gets a link into the server's    *)
(* pool, whatever half-dead links it left there.                           *)
Warm(w) == link[w] # NoLink /\ state[link[w]] = "parked"
PoolRefills ==
  \A w \in Workers :
    stable /\ pc[w] \in {"top", "dialing", "sleeping", "announcing"} ~>
      Warm(w) \/ shut \/ cancelled

(* Liveness: a user that was given a link is served or hung up on, also    *)
(* when the link was dead before it was taken from the pool.               *)
NobodyStranded ==
  \A l \in Links : state[l] = "handed" ~>
    state[l] # "handed" \/ \E w \in Workers : link[w] = l /\ pc[w] = "serving"
=============================================================================
