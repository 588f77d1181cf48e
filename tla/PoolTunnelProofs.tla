---------------------------- MODULE PoolTunnelProofs --------------------------
(***************************************************************************)
(* Proofs about PoolTunnel for any number of workers, links and users.     *)
(* That a link is used once is not inductive: a worker knows the user of a *)
(* link from the target it has read only, so the invariant follows the     *)
(* target from the server's goroutine through the link to the worker.      *)
(***************************************************************************)
EXTENDS PoolTunnel, FiniteSetTheorems, TLAPS

(* No two workers hold the same link.                                      *)
OwnLinks == \A w, v \in Workers : w # v /\ link[w] # NoLink => link[w] # link[v]

(* A link that can still be given to a user has carried no target.         *)
UnusedIsBlank == \A l \in Links : state[l] \in {"offered", "parked"} => target[l] = Nobody

(* A worker has a link from the dial to the end of the service.            *)
HoldsLink ==
  \A w \in Workers : link[w] = NoLink <=> pc[w] \in {"top", "dialing", "sleeping", "stopped"}

(* A worker serves the user whose target its link has carried.             *)
ServesTarget ==
  \A w \in Workers : IF pc[w] \in {"connecting", "serving"}
                       THEN serves[w] # Nobody /\ serves[w] = target[link[w]]
                       ELSE serves[w] = Nobody

(* The server writes the target of the user it gave the link to.           *)
TargetIsUsers ==
  \A l \in Links : state[l] = "handed" => user[l] # Nobody /\ target[l] \in {Nobody, user[l]}

(* Who is at the ends of a link, without the types.                        *)
Ends == /\ OwnLinks /\ UnusedIsBlank /\ HandedIsAnnounced
        /\ HoldsLink /\ ServesTarget /\ TargetIsUsers

(* The types, without the ranges of the gauges, which are counted.         *)
Places == {"top", "dialing", "sleeping", "announcing", "parked", "connecting", "serving", "stopped"}
Typed ==
  /\ state \in [Links -> {"gone", "offered", "parked", "handed", "dropped"}]
  /\ user \in [Links -> Users \cup {Nobody}]
  /\ asking \subseteq Users /\ shut \in BOOLEAN
  /\ pc \in [Workers -> Places]
  /\ link \in [Workers -> Links \cup {NoLink}]
  /\ serves \in [Workers -> Users \cup {Nobody}]
  /\ delay \in [Workers -> 0 .. MaxDelay]
  /\ announced \subseteq Links
  /\ target \in [Links -> Users \cup {Nobody}]
  /\ sLinked \in BOOLEAN /\ cLinked \in BOOLEAN
  /\ broken \subseteq Links
  /\ stable \in BOOLEAN /\ cancelled \in BOOLEAN

(* The inductive invariant.                                                *)
IInv == Typed /\ Ends /\ GaugesExact

(* Before anything is dialed there are no links and all gauges are 0.       *)
LEMMA InvInit == Init => IInv
<1> SUFFICES ASSUME Init PROVE IInv
  OBVIOUS
<1> USE DEF Init, P!Init
<1>1. Typed
  <2>1. 0 \in 0 .. MaxDelay
    BY DelayAssumption
  <2> QED BY <2>1 DEF Typed, Places
<1>2. Ends
  BY DEF Ends, OwnLinks, UnusedIsBlank, HandedIsAnnounced, HoldsLink, ServesTarget, TargetIsUsers
<1>3. GaugesExact
  <2>1. Piped = {} /\ {w \in Workers : pc[w] = "serving"} = {}
    BY DEF Piped
  <2> QED BY <2>1, FS_EmptySet DEF GaugesExact
<1> QED BY <1>1, <1>2, <1>3 DEF IInv

-----------------------------------------------------------------------------
(* Types                                                                   *)

(* A worker's step keeps the types.                                         *)
LEMMA WorkerTyped ==
  ASSUME Typed, HoldsLink, NEW w \in Workers, WorkerStep(w) \/ LocalEnds(w) PROVE Typed'
<1> USE DEF Typed, Places
<1> USE DEF Goto, HangUp, pool, wire, gauges, world
<1>1. CASE Check(w) BY <1>1 DEF Check
<1>2. ASSUME NEW l \in Links, Dial(w, l) PROVE Typed'
  <2>1. 0 \in 0 .. MaxDelay
    BY DelayAssumption
  <2> QED BY <1>2, <2>1 DEF Dial, P!Offer, P!Become
<1>3. CASE DialFails(w) BY <1>3 DEF DialFails
<1>4. CASE SleepEnds(w)
  <2>1. Doubled(delay[w]) \in 0 .. MaxDelay
    BY DelayAssumption DEF Doubled
  <2> QED BY <1>4, <2>1 DEF SleepEnds
<1>5. CASE Announce(w)
  <2>1. link[w] \in Links
    BY <1>5 DEF Announce, HoldsLink
  <2> QED BY <1>5, <2>1 DEF Announce
<1>6. CASE AnnounceFails(w) \/ ReadTargetFails(w)
  BY <1>6 DEF AnnounceFails, ReadTargetFails
<1>10. CASE ReadTarget(w)
  <2>1. CASE target[link[w]] \in Allowed
    <3>1. target[link[w]] \in Users
      BY <2>1, UserAssumption
    <3> QED BY <1>10, <2>1, <3>1 DEF ReadTarget
  <2>2. CASE target[link[w]] \notin Allowed
    BY <1>10, <2>2 DEF ReadTarget
  <2> QED BY <2>1, <2>2
<1>7. CASE Connect(w) BY <1>7 DEF Connect
<1>8. CASE ConnectFails(w) BY <1>8 DEF ConnectFails
<1>9. CASE LinkEnds(w) \/ LocalEnds(w)
  BY <1>9 DEF LinkEnds, LocalEnds, EndService
<1> QED BY <1>1, <1>2, <1>3, <1>4, <1>5, <1>6, <1>7, <1>8, <1>9, <1>10 DEF WorkerStep

(* What a server does with one link, and what a link suffers, keeps the types.*)
LEMMA LinkTyped ==
  ASSUME Typed, NEW l \in Links, LinkStep(l) \/ Reap(l) \/ UserHangsUp(l) \/ Break(l) PROVE Typed'
<1> USE DEF Typed, P!Become
<1> USE DEF worker, wire, gauges, world, pool
<1>1. CASE Park(l) BY <1>1 DEF Park, P!Park
<1>2. CASE Refuse(l) BY <1>2 DEF Refuse, P!Refuse
<1>3. CASE Reject(l) BY <1>3 DEF Reject, P!Withdraw
<1>4. CASE CloseDropped(l) BY <1>4 DEF CloseDropped, P!Close
<1>5. CASE Splice(l) BY <1>5 DEF Splice
<1>6. CASE SpliceFails(l) BY <1>6 DEF SpliceFails, P!Finish
<1>7. CASE EndPipe(l) BY <1>7 DEF EndPipe, P!Finish
<1>8. CASE Reap(l) BY <1>8 DEF Reap, P!Discard
<1>9. CASE Break(l) BY <1>9 DEF Break
<1> QED BY <1>1, <1>2, <1>3, <1>4, <1>5, <1>6, <1>7, <1>8, <1>9 DEF LinkStep, LinkDies, UserHangsUp

(* Users, and the start and the end of the tunnel, keep the types.          *)
LEMMA OthersTyped ==
  ASSUME Typed,
         \/ \E u \in Users : Ask(u) \/ Deny(u) \/ \E l \in Links : Take(u, l)
         \/ Stabilize \/ Cancel \/ Stop \/ UNCHANGED vars
  PROVE  Typed'
<1> USE DEF Typed
<1> USE DEF worker, wire, gauges, world, pool
<1>1. ASSUME NEW u \in Users, Ask(u) \/ Deny(u) PROVE Typed'
  BY <1>1 DEF Ask, Deny, P!Ask, P!Deny
<1>2. ASSUME NEW u \in Users, NEW l \in Links, Take(u, l) PROVE Typed'
  BY <1>2 DEF Take, P!Hand
<1>3. CASE Stabilize \/ Cancel BY <1>3 DEF Stabilize, Cancel
<1>4. CASE Stop BY <1>4 DEF Stop, P!Shut, P!Discard
<1>5. CASE UNCHANGED vars BY <1>5 DEF vars
<1> QED BY <1>1, <1>2, <1>3, <1>4, <1>5

-----------------------------------------------------------------------------
(* The ends of the links                                                   *)

(* A worker that keeps or closes its link, the pool looking on.            *)
LEMMA WorkerFrame ==
  ASSUME Typed, Ends, NEW w \in Workers,
         UNCHANGED <<pool, target>>, announced \subseteq announced',
         \A v \in Workers \ {w} : UNCHANGED <<pc[v], link[v], serves[v]>>,
         link'[w] \in {link[w], NoLink},
         link'[w] = NoLink <=> pc'[w] \in {"top", "dialing", "sleeping", "stopped"},
         IF pc'[w] \in {"connecting", "serving"}
           THEN serves'[w] # Nobody /\ serves'[w] = target[link'[w]]
           ELSE serves'[w] = Nobody
  PROVE  Ends'
<1>1. OwnLinks' /\ HoldsLink'
  BY DEF Ends, OwnLinks, HoldsLink
<1>2. UnusedIsBlank' /\ HandedIsAnnounced' /\ TargetIsUsers'
  BY DEF Ends, UnusedIsBlank, HandedIsAnnounced, TargetIsUsers, pool
<1>3. ServesTarget'
  BY DEF Ends, ServesTarget
<1> QED BY <1>1, <1>2, <1>3 DEF Ends

(* A new link starts with nothing said on it.                               *)
LEMMA DialEnds ==
  ASSUME Typed, Ends, NEW w \in Workers, NEW l \in Links, Dial(w, l) PROVE Ends'
<1> USE DEF Typed, Dial, P!Offer, P!Become, ClientEnd, Goto
<1>1. OwnLinks' /\ HoldsLink'
  BY LinkAssumption DEF Ends, OwnLinks, HoldsLink
<1>2. UnusedIsBlank' /\ HandedIsAnnounced' /\ TargetIsUsers'
  BY DEF Ends, UnusedIsBlank, HandedIsAnnounced, TargetIsUsers
<1>3. ServesTarget'
  BY DEF Ends, ServesTarget
<1> QED BY <1>1, <1>2, <1>3 DEF Ends

(* A worker's step is about the link that it holds.                         *)
LEMMA WorkerEnds ==
  ASSUME Typed, Ends, NEW w \in Workers, WorkerStep(w) \/ LocalEnds(w) PROVE Ends'
<1> USE DEF Typed, Places, Goto, wire
<1>1. HoldsLink /\ ServesTarget
  BY DEF Ends
<1>2. ASSUME HangUp(w), pc[w] \in {"announcing", "parked", "connecting", "serving"}, UNCHANGED pool
      PROVE  Ends'
  BY <1>2, WorkerFrame DEF HangUp
<1>3. CASE Check(w) \/ DialFails(w) \/ SleepEnds(w)
  BY <1>1, <1>3, WorkerFrame DEF Check, DialFails, SleepEnds, HoldsLink, ServesTarget
<1>4. ASSUME NEW l \in Links, Dial(w, l) PROVE Ends'
  BY <1>4, DialEnds
<1>5. CASE Announce(w)
  BY <1>1, <1>5, WorkerFrame DEF Announce, HoldsLink, ServesTarget
<1>6. CASE ReadTarget(w)
  <2>1. CASE target[link[w]] \in Allowed
    BY <1>1, <1>6, <2>1, WorkerFrame DEF ReadTarget, HoldsLink, ServesTarget
  <2>2. CASE target[link[w]] \notin Allowed
    BY <1>2, <1>6, <2>2 DEF ReadTarget
  <2> QED BY <2>1, <2>2
<1>7. CASE Connect(w)
  BY <1>1, <1>7, WorkerFrame DEF Connect, HoldsLink, ServesTarget
<1>8. CASE AnnounceFails(w) \/ ReadTargetFails(w) \/ ConnectFails(w)
  BY <1>2, <1>8 DEF AnnounceFails, ReadTargetFails, ConnectFails
<1>9. CASE LinkEnds(w) \/ LocalEnds(w)
  BY <1>2, <1>9 DEF LinkEnds, LocalEnds, EndService
<1> QED BY <1>3, <1>4, <1>5, <1>6, <1>7, <1>8, <1>9 DEF WorkerStep

(* The pool parks what was announced, hands out what is parked, and gives  *)
(* anything up; the workers look on.                                       *)
LEMMA PoolFrame ==
  ASSUME Typed, Ends, UNCHANGED <<worker, wire>>,
         \A l \in Links :
           \/ UNCHANGED <<state[l], user[l]>>
           \/ state'[l] \in {"gone", "dropped"}
           \/ state[l] = "offered" /\ state'[l] = "parked" /\ l \in announced
           \/ state[l] = "parked" /\ state'[l] = "handed" /\ user'[l] # Nobody
  PROVE  Ends'
<1>1. OwnLinks' /\ HoldsLink' /\ ServesTarget'
  BY DEF Ends, OwnLinks, HoldsLink, ServesTarget, worker, wire
<1>2. UnusedIsBlank' /\ HandedIsAnnounced' /\ TargetIsUsers'
  BY DEF Ends, UnusedIsBlank, HandedIsAnnounced, TargetIsUsers, wire
<1> QED BY <1>1, <1>2 DEF Ends

(* What is announced and spliced is the user's own target.                  *)
LEMMA SpliceEnds ==
  ASSUME Typed, Ends, NEW l \in Links, Splice(l) PROVE Ends'
<1> USE DEF Typed, Splice, pool, worker, Ends
<1>1. OwnLinks' /\ HoldsLink'
  BY DEF OwnLinks, HoldsLink
<1>2. UnusedIsBlank' /\ HandedIsAnnounced' /\ TargetIsUsers'
  BY DEF UnusedIsBlank, HandedIsAnnounced, TargetIsUsers
<1>3. ServesTarget'
  BY DEF ServesTarget
<1> QED BY <1>1, <1>2, <1>3

(* A server's step with one link leaves the two ends of all links in line.  *)
LEMMA LinkEndsStep ==
  ASSUME Typed, Ends, NEW l \in Links, LinkStep(l) \/ Reap(l) \/ UserHangsUp(l) \/ Break(l) PROVE Ends'
<1> USE DEF Typed
<1> USE DEF P!Become
<1>1. CASE Park(l) BY <1>1, PoolFrame DEF Park, P!Park
<1>2. CASE Refuse(l) BY <1>2, PoolFrame DEF Refuse, P!Refuse
<1>3. CASE Reject(l) BY <1>3, PoolFrame DEF Reject, P!Withdraw
<1>4. CASE CloseDropped(l) BY <1>4, PoolFrame DEF CloseDropped, P!Close
<1>5. CASE Splice(l) BY <1>5, SpliceEnds
<1>6. CASE SpliceFails(l) BY <1>6, PoolFrame DEF SpliceFails, P!Finish
<1>7. CASE EndPipe(l) BY <1>7, PoolFrame DEF EndPipe, P!Finish
<1>8. CASE Reap(l) BY <1>8, PoolFrame DEF Reap, P!Discard
<1>9. CASE Break(l) BY <1>9, PoolFrame DEF Break, pool
<1> QED BY <1>1, <1>2, <1>3, <1>4, <1>5, <1>6, <1>7, <1>8, <1>9 DEF LinkStep, LinkDies, UserHangsUp

(* So do users, and the start and the end of the tunnel.                    *)
LEMMA OthersEnds ==
  ASSUME Typed, Ends,
         \/ \E u \in Users : Ask(u) \/ Deny(u) \/ \E l \in Links : Take(u, l)
         \/ Stabilize \/ Cancel \/ Stop \/ UNCHANGED vars
  PROVE  Ends'
<1>1. ASSUME NEW u \in Users, Ask(u) \/ Deny(u) PROVE Ends'
  BY <1>1, PoolFrame DEF Ask, Deny, P!Ask, P!Deny
<1>2. ASSUME NEW u \in Users, NEW l \in Links, Take(u, l) PROVE Ends'
  <2>1. UNCHANGED <<worker, wire>> /\ state[l] = "parked" /\ state'[l] = "handed" /\ user'[l] = u
    BY <1>2 DEF Take, P!Hand, Typed
  <2>2. \A k \in Links \ {l} : UNCHANGED <<state[k], user[k]>> \/ state'[k] = "gone"
    BY <1>2 DEF Take, P!Hand, Typed
  <2> QED BY <2>1, <2>2, UserAssumption, PoolFrame
<1>3. CASE Stabilize \/ Cancel BY <1>3, PoolFrame DEF Stabilize, Cancel, pool
<1>4. CASE Stop BY <1>4, PoolFrame DEF Stop, P!Shut, P!Discard
<1>5. CASE UNCHANGED vars BY <1>5, PoolFrame DEF vars, worker, wire
<1> QED BY <1>1, <1>2, <1>3, <1>4, <1>5

-----------------------------------------------------------------------------
(* The gauges                                                              *)

Serving == {w \in Workers : pc[w] = "serving"}

(* What is counted is finite.                                               *)
LEMMA Finite ==
  /\ IsFiniteSet(Piped) /\ Cardinality(Piped) \in 0 .. Cardinality(Links)
  /\ IsFiniteSet(Serving) /\ Cardinality(Serving) \in 0 .. Cardinality(Workers)
<1>1. Piped \in SUBSET Links /\ Serving \in SUBSET Workers
  BY DEF Piped, Serving
<1>2. /\ Cardinality(Links) \in Nat /\ Cardinality(Workers) \in Nat
  BY FiniteAssumption, FS_CardinalityType
<1>3. /\ IsFiniteSet(Piped) /\ Cardinality(Piped) <= Cardinality(Links)
      /\ IsFiniteSet(Serving) /\ Cardinality(Serving) <= Cardinality(Workers)
  BY <1>1, FiniteAssumption, FS_Subset
<1>4. Cardinality(Piped) \in Nat /\ Cardinality(Serving) \in Nat
  BY <1>3, FS_CardinalityType
<1> QED BY <1>2, <1>3, <1>4

(* A step that moves no worker into or out of the service, and no link     *)
(* into or out of a pipe, leaves the gauges alone.                         *)
LEMMA GaugesFrame ==
  ASSUME GaugesExact, UNCHANGED <<sConns, cConns>>,
         \A w \in Workers : pc'[w] = "serving" <=> pc[w] = "serving",
         \A l \in Links : (state'[l] = "handed" /\ target'[l] # Nobody)
                          <=> (state[l] = "handed" /\ target[l] # Nobody)
  PROVE  GaugesExact'
<1>1. Piped' = Piped /\ Serving' = Serving
  BY DEF Piped, Serving
<1> QED BY <1>1 DEF GaugesExact, Serving

(* A worker counts a stream when it opens it and when it ends.              *)
LEMMA WorkerGauges ==
  ASSUME Typed, Ends, GaugesExact, NEW w \in Workers, WorkerStep(w) \/ LocalEnds(w)
  PROVE  GaugesExact'
<1> USE DEF Typed, Goto, HangUp, wire, gauges
<1>1. CASE Check(w) \/ DialFails(w) \/ SleepEnds(w)
  BY <1>1, GaugesFrame DEF Check, DialFails, SleepEnds, pool
<1>2. ASSUME NEW l \in Links, Dial(w, l) PROVE GaugesExact'
  BY <1>2, GaugesFrame DEF Dial, P!Offer, P!Become
<1>3. CASE Announce(w) \/ AnnounceFails(w) \/ ReadTarget(w) \/ ReadTargetFails(w) \/ ConnectFails(w)
  BY <1>3, GaugesFrame DEF Announce, AnnounceFails, ReadTarget, ReadTargetFails, ConnectFails, pool
<1>4. ASSUME UNCHANGED <<pool, target, sConns>> PROVE Piped' = Piped /\ sConns' = Cardinality(Piped')
  BY <1>4 DEF Piped, pool, GaugesExact
<1>5. CASE Connect(w)
  <2>1. Serving' = Serving \cup {w} /\ w \notin Serving
    BY <1>5 DEF Connect, Serving
  <2>2. Cardinality(Serving') = Cardinality(Serving) + 1
    BY <2>1, Finite, FS_AddElement
  <2> QED BY <1>4, <1>5, <2>2 DEF Connect, GaugesExact, Serving
<1>6. CASE LinkEnds(w) \/ LocalEnds(w)
  <2>1. Serving' = Serving \ {w} /\ w \in Serving
    BY <1>6 DEF LinkEnds, LocalEnds, EndService, Serving
  <2>2. Cardinality(Serving') = Cardinality(Serving) - 1
    BY <2>1, Finite, FS_RemoveElement
  <2> QED BY <1>4, <1>6, <2>2 DEF LinkEnds, LocalEnds, EndService, GaugesExact, Serving
<1> QED BY <1>1, <1>2, <1>3, <1>5, <1>6 DEF WorkerStep

(* A server counts a pipe when it splices it and when it ends.              *)
LEMMA LinkGauges ==
  ASSUME Typed, Ends, GaugesExact, NEW l \in Links, LinkStep(l) \/ Reap(l) \/ UserHangsUp(l) \/ Break(l)
  PROVE  GaugesExact'
<1> USE DEF Typed, P!Become, worker, wire, gauges
<1>1. CASE Park(l) BY <1>1, GaugesFrame DEF Park, P!Park
<1>2. CASE Refuse(l) BY <1>2, GaugesFrame DEF Refuse, P!Refuse
<1>3. CASE Reject(l) BY <1>3, GaugesFrame DEF Reject, P!Withdraw
<1>4. CASE CloseDropped(l) BY <1>4, GaugesFrame DEF CloseDropped, P!Close
<1>5. CASE SpliceFails(l) BY <1>5, GaugesFrame DEF SpliceFails, P!Finish
<1>6. CASE Reap(l) BY <1>6, GaugesFrame DEF Reap, P!Discard
<1>7. CASE Break(l) BY <1>7, GaugesFrame DEF Break, pool
<1>8. ASSUME UNCHANGED <<worker, cConns>> PROVE cConns' = Cardinality({w \in Workers : pc[w] = "serving"}')
  BY <1>8 DEF GaugesExact
<1>9. CASE Splice(l)
  <2>1. Piped' = Piped \cup {l} /\ l \notin Piped
    BY <1>9 DEF Splice, Piped, pool, Ends, TargetIsUsers
  <2>2. Cardinality(Piped') = Cardinality(Piped) + 1
    BY <2>1, Finite, FS_AddElement
  <2> QED BY <1>8, <1>9, <2>2 DEF Splice, GaugesExact
<1>10. CASE EndPipe(l)
  <2>1. Piped' = Piped \ {l} /\ l \in Piped
    BY <1>10 DEF EndPipe, P!Finish, Piped
  <2>2. Cardinality(Piped') = Cardinality(Piped) - 1
    BY <2>1, Finite, FS_RemoveElement
  <2> QED BY <1>8, <1>10, <2>2 DEF EndPipe, GaugesExact
<1> QED BY <1>1, <1>2, <1>3, <1>4, <1>5, <1>6, <1>7, <1>9, <1>10 DEF LinkStep, LinkDies, UserHangsUp

(* Nothing else changes what the gauges count.                              *)
LEMMA OthersGauges ==
  ASSUME Typed, Ends, GaugesExact,
         \/ \E u \in Users : Ask(u) \/ Deny(u) \/ \E l \in Links : Take(u, l)
         \/ Stabilize \/ Cancel \/ Stop \/ UNCHANGED vars
  PROVE  GaugesExact'
<1> USE DEF Typed, worker, wire, gauges, pool
<1>1. ASSUME NEW u \in Users, Ask(u) \/ Deny(u) PROVE GaugesExact'
  BY <1>1, GaugesFrame DEF Ask, Deny, P!Ask, P!Deny
<1>2. ASSUME NEW u \in Users, NEW l \in Links, Take(u, l) PROVE GaugesExact'
  BY <1>2, GaugesFrame DEF Take, P!Hand, Ends, UnusedIsBlank
<1>3. CASE Stabilize \/ Cancel BY <1>3, GaugesFrame DEF Stabilize, Cancel
<1>4. CASE Stop BY <1>4, GaugesFrame DEF Stop, P!Shut, P!Discard
<1>5. CASE UNCHANGED vars BY <1>5, GaugesFrame DEF vars
<1> QED BY <1>1, <1>2, <1>3, <1>4, <1>5

-----------------------------------------------------------------------------
(* The types, the ends of the links and the gauges hold together, whoever  *)
(* of the workers, the server's goroutines, the users and the world acts.  *)
THEOREM Invariant == Spec => []IInv
<1>1. IInv /\ [Next]_vars => IInv'
  <2> SUFFICES ASSUME IInv, [Next]_vars PROVE IInv'
    OBVIOUS
  <2>1. Typed /\ Ends /\ GaugesExact /\ HoldsLink
    BY DEF IInv, Ends
  <2>2. ASSUME NEW w \in Workers, WorkerStep(w) \/ LocalEnds(w) PROVE IInv'
    BY <2>1, <2>2, WorkerTyped, WorkerEnds, WorkerGauges DEF IInv
  <2>3. ASSUME NEW l \in Links, LinkStep(l) \/ Reap(l) \/ UserHangsUp(l) \/ Break(l) PROVE IInv'
    BY <2>1, <2>3, LinkTyped, LinkEndsStep, LinkGauges DEF IInv
  <2>4. ASSUME \/ \E u \in Users : Ask(u) \/ Deny(u) \/ \E l \in Links : Take(u, l)
               \/ Stabilize \/ Cancel \/ Stop \/ UNCHANGED vars
        PROVE  IInv'
    BY <2>1, <2>4, OthersTyped, OthersEnds, OthersGauges DEF IInv
  <2> QED BY <2>2, <2>3, <2>4 DEF Next
<1> QED BY <1>1, InvInit, PTL DEF Spec

(* For any number of workers, links and users the state keeps its type,    *)
(* and neither gauge ever leaves the range that the links and the workers  *)
(* allow: it does not go below zero.                                       *)
THEOREM TypeCorrect == Spec => []TypeOK
<1>1. IInv => TypeOK
  BY Finite DEF IInv, Typed, Places, GaugesExact, Serving, TypeOK, P!TypeOK, P!States
<1> QED BY <1>1, Invariant, PTL

(* For any number of workers, links and users a link carries one user only *)
(* and is announced before it is handed out: what a worker connects to a   *)
(* local target is the user the server gave that very link to.             *)
THEOREM LinksAreUsedOnce == Spec => []UsedOnce
<1>1. IInv => UsedOnce
  <2> SUFFICES ASSUME IInv PROVE UsedOnce
    OBVIOUS
  <2> USE DEF IInv, Typed, Ends
  <2>1. \A w, v \in Workers : w # v /\ link[w] # NoLink => link[w] # link[v]
    BY DEF OwnLinks
  <2>2. \A w \in Workers : serves[w] # Nobody =>
          pc[w] \in {"connecting", "serving"} /\ link[w] \in Links /\ serves[w] = target[link[w]]
    BY DEF ServesTarget, HoldsLink
  <2>3. \A w \in Workers : serves[w] # Nobody /\ state[link[w]] = "handed" => user[link[w]] = serves[w]
    BY <2>2 DEF TargetIsUsers
  <2>4. ASSUME NEW l \in Links, state[l] \in {"offered", "parked"}
        PROVE  /\ target[l] = Nobody
               /\ \A w \in Workers : link[w] = l => pc[w] \in {"announcing", "parked"}
    BY <2>4, LinkAssumption DEF UnusedIsBlank, ServesTarget, HoldsLink, Places
  <2> QED BY <2>1, <2>3, <2>4 DEF UsedOnce, NoCrosstalk
<1> QED BY <1>1, Invariant, PTL

(* For any number of workers, links and users both gauges of open          *)
(* connections are exact: every way out of forward and serveLink takes     *)
(* back what the way in has counted, once.                                 *)
THEOREM GaugesAreExact == Spec => []GaugesExact
<1>1. IInv => GaugesExact BY DEF IInv
<1> QED BY <1>1, Invariant, PTL
=============================================================================
