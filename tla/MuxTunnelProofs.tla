--------------------------- MODULE MuxTunnelProofs --------------------------
(***************************************************************************)
(* Proofs about MuxTunnel for any number of clients, sessions and users.   *)
(* OneLiveSession is not inductive: that a goroutine which remembers a     *)
(* replaced session is still about to close it, and that a session is down *)
(* once its goroutine has stopped draining it, are needed with it.         *)
(***************************************************************************)
EXTENDS MuxTunnel, TLAPS

(* A session to be closed is remembered from setCurrent's unlock to the    *)
(* close only.                                                             *)
OldIsPending == \A t \in Sessions : old[t] # NoSess => spc[t] = "superseding"

(* A session is up only from the handshake to the end of the drain loop. *)
UpIsServed ==
  \A s \in sUp : spc[s] \in {"accepted", "superseding", "linking", "draining"}

(* The inductive invariant. *)
IInv == TypeOK /\ OneLiveSession /\ CurrentIsOwned /\ OldIsPending /\ UpIsServed

(* The server starts without a session. *)
LEMMA InvInit == Init => IInv
<1> SUFFICES ASSUME Init PROVE IInv
  OBVIOUS
<1>1. TypeOK
  <2>1. 0 \in 0 .. MaxDelay BY DelayAssumption
  <2>2. delay \in [Clients -> 0 .. MaxDelay] BY <2>1, Zenon DEF Init
  <2> QED BY <2>2, Zenon DEF Init, TypeOK, SessOrNone
<1>2. OneLiveSession /\ CurrentIsOwned /\ OldIsPending /\ UpIsServed
  BY DEF Init, OneLiveSession, CurrentIsOwned, OldIsPending, UpIsServed
<1> QED BY <1>1, <1>2 DEF IInv

(* Every step of runMux, onMuxLink, forward and the world keeps the state  *)
(* well typed.                                                             *)
LEMMA TypeStep == TypeOK /\ [Next]_vars => TypeOK'
<1> SUFFICES ASSUME TypeOK, [Next]_vars PROVE TypeOK'
  OBVIOUS
<1> USE DelayAssumption DEF TypeOK, SessOrNone, Goto
<1>1. ASSUME NEW c \in Clients, ClientStep(c) PROVE TypeOK'
  <2>1. CASE Check(c) BY <2>1 DEF Check, server, users, world
  <2>2. ASSUME NEW s \in Sessions, Dial(c, s) PROVE TypeOK'
    BY <2>2 DEF Dial, users, world
  <2>3. CASE DialFails(c) BY <2>3 DEF DialFails, server, users, world
  <2>4. CASE SleepEnds(c)
    BY <2>4 DEF SleepEnds, Doubled, server, users, world
  <2>5. CASE ServeEnds(c) BY <2>5 DEF ServeEnds, server, users, world
  <2> QED BY <1>1, <2>1, <2>2, <2>3, <2>4, <2>5 DEF ClientStep
<1>2. ASSUME NEW c \in Clients, WatcherCloses(c) \/ Cancel(c) PROVE TypeOK'
  BY <1>2 DEF WatcherCloses, Cancel, client, server, users, world
<1>3. ASSUME NEW s \in Sessions, LinkStep(s) PROVE TypeOK'
  BY <1>3 DEF LinkStep, SetCurrent, CloseOld, SetLinked, DrainEnds,
       ClearCurrent, Without, ClearLinked, client, users, world
<1>4. ASSUME NEW s \in Sessions, ServerNotices(s) \/ ClientNotices(s) PROVE TypeOK'
  BY <1>4 DEF ServerNotices, ClientNotices, client, server, users, world
<1>5. ASSUME NEW u \in Users,
             Choose(u) \/ OpenStream(u) \/ StreamEnds(u) \/ StreamDies(u)
      PROVE  TypeOK'
  BY <1>5 DEF Choose, OpenStream, StreamEnds, StreamDies, DropUser, client,
       server, world
<1>6. CASE Stabilize BY <1>6 DEF Stabilize, client, server, users
<1>7. CASE UNCHANGED vars BY <1>7 DEF vars
<1> QED BY <1>1, <1>2, <1>3, <1>4, <1>5, <1>6, <1>7 DEF Next

(* What is left of the invariant is about the sessions' goroutines only. *)
Sessionwise == OneLiveSession /\ CurrentIsOwned /\ OldIsPending /\ UpIsServed

(* Every step that touches a session keeps it accounted for: installed and *)
(* current, about to be closed, or down.                                   *)
LEMMA SessionStep == TypeOK /\ Sessionwise /\ [Next]_vars => Sessionwise'
<1> SUFFICES ASSUME TypeOK, Sessionwise, [Next]_vars PROVE Sessionwise'
  OBVIOUS
<1> USE SessAssumption DEF Sessionwise, OneLiveSession, CurrentIsOwned,
                           OldIsPending, UpIsServed
<1>1. ASSUME UNCHANGED <<spc, old, current>>, sUp' \subseteq sUp PROVE Sessionwise'
  BY <1>1
<1>2. ASSUME NEW c \in Clients, NEW s \in Sessions, Dial(c, s) PROVE Sessionwise'
  BY <1>2 DEF Dial, Unreferenced, TypeOK, SessOrNone
<1>3. ASSUME NEW s \in Sessions, SetCurrent(s) PROVE Sessionwise'
  BY <1>3 DEF SetCurrent, TypeOK, SessOrNone
<1>4. ASSUME NEW s \in Sessions, CloseOld(s) PROVE Sessionwise'
  BY <1>4 DEF CloseOld, TypeOK, SessOrNone
<1>5. ASSUME NEW s \in Sessions, SetLinked(s) \/ DrainEnds(s) PROVE Sessionwise'
  BY <1>5 DEF SetLinked, DrainEnds, TypeOK, SessOrNone
<1>6. ASSUME NEW s \in Sessions, ClearCurrent(s) PROVE Sessionwise'
  BY <1>6 DEF ClearCurrent, Without, TypeOK, SessOrNone
<1>7. ASSUME NEW s \in Sessions, ClearLinked(s) PROVE Sessionwise'
  BY <1>7 DEF ClearLinked, TypeOK, SessOrNone
<1>8. \/ UNCHANGED <<spc, old, current>> /\ sUp' \subseteq sUp
      \/ \E c \in Clients, s \in Sessions : Dial(c, s)
      \/ \E s \in Sessions : LinkStep(s)
  BY DEF Next, ClientStep, Check, DialFails, SleepEnds, ServeEnds, WatcherCloses,
         Cancel, ServerNotices, ClientNotices, Choose, OpenStream, StreamEnds,
         StreamDies, DropUser, Stabilize, vars, client, server, users, world
<1> QED BY <1>1, <1>2, <1>3, <1>4, <1>5, <1>6, <1>7, <1>8 DEF LinkStep

(* The inductive invariant of the mux-mode tunnel holds in every reachable *)
(* state.                                                                  *)
THEOREM Invariant == Spec => []IInv
<1>1. IInv /\ [Next]_vars => IInv'
  BY TypeStep, SessionStep DEF IInv, Sessionwise
<1> QED BY <1>1, InvInit, PTL DEF Spec

(* For any number of clients, sessions and users the state of the tunnel   *)
(* always has its type, the backoff its bound included.                    *)
THEOREM TypeCorrect == Spec => []TypeOK
<1>1. IInv => TypeOK BY DEF IInv
<1> QED BY <1>1, Invariant, PTL

(* However many clients link up at once, setCurrent and clearCurrent leave *)
(* no installed session up that is neither current nor about to be closed. *)
THEOREM NoForgottenSession == Spec => []OneLiveSession
<1>1. IInv => OneLiveSession BY DEF IInv
<1> QED BY <1>1, Invariant, PTL

(* s.current always has a goroutine that will clear it. *)
THEOREM CurrentIsNeverOrphaned == Spec => []CurrentIsOwned
<1>1. IInv => CurrentIsOwned BY DEF IInv
<1> QED BY <1>1, Invariant, PTL

(* setCurrent and clearCurrent forget no session, current or replaced. *)
THEOREM NoSessionIsLost == Spec => []SessionsAccounted
<1>1. SessionsAccounted <=> OneLiveSession /\ CurrentIsOwned BY DEF SessionsAccounted
<1> QED BY <1>1, NoForgottenSession, CurrentIsNeverOrphaned, PTL
=============================================================================
