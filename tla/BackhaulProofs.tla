---------------------------- MODULE BackhaulProofs ----------------------------
(***************************************************************************)
(* Proofs about Backhaul for every timeout and every choice of carriers.   *)
(* What an end shows depends on what is under way to it, and what is under *)
(* way on who has run and on whether the server's host echoes; the latter  *)
(* on what the server's Close is going to write back.                      *)
(***************************************************************************)
EXTENDS Backhaul, TLAPS

(* An end that is not running has no engine and shows nothing. *)
OffIsEnded == \A e \in End : e \notin on => eng[e] = Ended

(* The servers whose Close will write the setting back are running, at most *)
(* one, and it has the kernel silent until then.                           *)
RestorersRun ==
    /\ on \subseteq ran
    /\ Server \in restore => Server \in on
    /\ Neighbour \in restore => beside
    /\ \A s, t \in restore : s = t
    /\ restore # {} => carrier = "icmp" /\ ~found /\ echoIgnore

(* A kernel that was not silent at first is so because a running server     *)
(* will write that back, or because one has failed to.                     *)
SilenceHasReason == echoIgnore /\ ~found => restore # {} \/ left

(* A server that has the kernel silent since its start has no company.      *)
KeptAlone == kept => Server \in on /\ ~beside /\ carrier = "icmp" /\ echoIgnore

(* A host that has been told to ignore pings keeps ignoring them, and only *)
(* one with an ICMP tunnel of its own has another.                         *)
FoundStays ==
    /\ found => carrier = "icmp" /\ echoIgnore
    /\ shared => carrier = "icmp"
    /\ beside => shared

HostInv == RestorersRun /\ SilenceHasReason /\ KeptAlone /\ FoundStays

(* A frame comes from an end that has run, and no end gets its own frames  *)
(* but one that may be echoed.                                             *)
Honest(w) ==
    \A e \in End :
       /\ w[e] \in End => w[e] \in ran
       /\ w[e] = e => MayBeEchoed(e)

WireIsHonest == Honest(wire)

(* The inductive invariant. *)
IInv == /\ TypeOK /\ OffIsEnded /\ LinkedIsRecent /\ HostInv /\ WireIsHonest /\ LinkedMeansPeerUnlessEchoed

(* An engine that starts, and none. *)
LEMMA EngineType ==
  /\ Fresh \in Engine /\ Ended \in Engine
  /\ ~Fresh.linked /\ ~Ended.linked /\ ~Ended.stale /\ Ended.due = {}
<1>1. Fresh \in Engine /\ ~Fresh.linked /\ ~Fresh.stale
  BY TimeoutAssumption DEF Fresh, Engine
<1> QED BY <1>1 DEF Ended, Engine

(* Nothing runs at first. *)
LEMMA InvInit == Init => IInv
<1> SUFFICES ASSUME Init PROVE IInv
  OBVIOUS
<1> USE EndAssumption, NoneAssumption, TimeoutAssumption DEF Init
<1>1. TypeOK
  <2>1. eng \in [End -> Engine] BY EngineType
  <2>2. wire \in [End -> Frame \union {None}] OBVIOUS
  <2> QED BY <2>1, <2>2 DEF TypeOK, Addr
<1>2. OffIsEnded BY DEF OffIsEnded
<1>3. LinkedIsRecent /\ LinkedMeansPeerUnlessEchoed
  BY DEF LinkedIsRecent, LinkedMeansPeerUnlessEchoed, Ended, Fresh
<1>4. HostInv
  BY DEF HostInv, RestorersRun, SilenceHasReason, KeptAlone, FoundStays
<1>5. WireIsHonest BY DEF WireIsHonest, Honest, End, Frame
<1> QED BY <1>1, <1>2, <1>3, <1>4, <1>5 DEF IInv

(* What Send, the delivery of a frame and Learn yield is well typed.       *)
LEMMA SentType ==
  ASSUME NEW e \in End, NEW d, NEW w \in [End -> Frame \union {None}]
  PROVE  Sent(e, w, d) \in [End -> Frame \union {None}]
BY DEF Sent, Other, End, Frame

(* What has arrived at an end is a frame or nothing.                        *)
LEMMA ArrivedType ==
  ASSUME TypeOK, NEW e \in End
  PROVE  Arrived(e) \in [End -> Frame \union {None}]
BY DEF Arrived, TypeOK, End, Frame

(* Every step of the ends and the network keeps the state well typed.      *)
LEMMA TypeStep == TypeOK /\ [Next]_vars => TypeOK'
<1> SUFFICES ASSUME TypeOK, [Next]_vars PROVE TypeOK'
  OBVIOUS
<1> USE TimeoutAssumption DEF TypeOK, config, host, past
<1>1. ASSUME NEW e \in End, Start(e) PROVE TypeOK'
  <2>1. UNCHANGED host \/ Silenced(Server) \/ Refused
    BY <1>1 DEF Start
  <2>2. echoIgnore' \in BOOLEAN /\ restore' \in SUBSET Pingers
    BY <2>1 DEF Silenced, Refused, Pingers
  <2>3. kept' \in BOOLEAN /\ UNCHANGED <<beside, left>>
    BY <1>1 DEF Start
  <2>4. eng' \in [End -> Engine] /\ dst' \in Addr \union {None}
    BY <1>1, EngineType DEF Start
  <2> QED BY <1>1, <2>2, <2>3, <2>4 DEF Start
<1>2. ASSUME NEW e \in End, Return(e) \/ Kill(e) PROVE TypeOK'
  <2>1. UNCHANGED host \/ ((GivesBack(Server) \/ Forgets(Server)) /\ kept' = FALSE /\ UNCHANGED beside)
    BY <1>2 DEF Return, Kill
  <2>2. echoIgnore' \in BOOLEAN /\ restore' \in SUBSET Pingers /\ left' \in BOOLEAN
    BY <2>1 DEF GivesBack, Restored, Forgets
  <2>3. eng' \in [End -> Engine]
    BY <1>2, EngineType DEF Return, Kill
  <2> QED BY <1>2, <2>1, <2>2, <2>3 DEF Return, Kill
<1>3. ASSUME NEW t \in Pingers, GivesUp(t) PROVE TypeOK'
  BY <1>3 DEF GivesUp
<1>16. CASE NeighbourStarts
  BY <1>16 DEF NeighbourStarts, Silenced, Refused, Pingers
<1>17. CASE NeighbourEnds
  BY <1>17 DEF NeighbourEnds, GivesBack, Restored, Forgets
<1>4. ASSUME NEW e \in End, Hear(e) PROVE TypeOK'
  <2>1. dst' \in Addr \union {None}
    BY <1>4 DEF Hear, Learn, LearnUDP, LearnRaw, From, Addr
  <2>2. wire' \in [End -> Frame \union {None}]
    BY <1>4, ArrivedType, SentType DEF Hear
  <2>3. eng' \in [End -> Engine]
    BY <1>4 DEF Hear, Engine
  <2> QED BY <1>4, <2>1, <2>2, <2>3 DEF Hear
<1>5. ASSUME NEW e \in End, Packet(e) PROVE TypeOK'
  BY <1>5, SentType DEF Packet
<1>6. ASSUME NEW e \in End, Keepalive(e) PROVE TypeOK'
  <2>1. eng' \in [End -> Engine] BY <1>6 DEF Keepalive, Engine
  <2>2. wire' \in [End -> Frame \union {None}] BY <1>6, SentType DEF Keepalive
  <2>3. UNCHANGED <<config, on, peer, dst, host, stable, past>>
    BY <1>6 DEF Keepalive
  <2> QED BY <2>1, <2>2, <2>3
<1>7. ASSUME NEW e \in End, WatchdogLooks(e) PROVE TypeOK'
  <2> DEFINE remains == eng[e].due \ {"watchdog"}
             b == Stale(e)
  <2>1. remains \in SUBSET {"keepalive", "watchdog"} /\ b \in BOOLEAN
    BY DEF Engine, Stale
  <2>2. eng' = [eng EXCEPT ![e] = [eng[e] EXCEPT !.due = remains, !.stale = b]]
    BY <1>7 DEF WatchdogLooks
  <2> HIDE DEF remains, b
  <2>3. [eng[e] EXCEPT !.due = remains, !.stale = b] \in Engine BY <2>1 DEF Engine
  <2>4. eng' \in [End -> Engine] BY <2>2, <2>3
  <2>5. UNCHANGED <<config, on, peer, dst, host, wire, stable, past>>
    BY <1>7 DEF WatchdogLooks
  <2> QED BY <2>4, <2>5
<1>8. ASSUME NEW e \in End, WatchdogDrops(e) PROVE TypeOK'
  <2>1. [eng[e] EXCEPT !.stale = FALSE, !.linked = FALSE] \in Engine BY DEF Engine
  <2>2. eng' = [eng EXCEPT ![e] = [eng[e] EXCEPT !.stale = FALSE, !.linked = FALSE]]
    BY <1>8 DEF WatchdogDrops
  <2>3. eng' \in [End -> Engine] BY <2>1, <2>2
  <2>4. UNCHANGED <<config, on, peer, dst, host, wire, stable, past>>
    BY <1>8 DEF WatchdogDrops
  <2> QED BY <2>3, <2>4
<1>9. ASSUME NEW e \in End, Bounce(e) PROVE TypeOK'
  BY <1>9, ArrivedType DEF Bounce
<1>10. ASSUME NEW e \in End, Lose(e) PROVE TypeOK'
  BY <1>10 DEF Lose
<1>11. CASE Tick
  <2>1. ASSUME NEW e \in End PROVE eng'[e] \in Engine
    <3>1. CASE e \notin on BY <1>11, <3>1 DEF Tick
    <3>2. CASE e \in on
      <4> DEFINE h == IF eng[e].heard > LinkTimeout THEN eng[e].heard ELSE eng[e].heard + 1
      <4>1. h \in 0..LinkTimeout + 1 BY DEF Engine
      <4>2. eng'[e] = [eng[e] EXCEPT !.due = {"keepalive", "watchdog"}, !.heard = h]
        BY <1>11, <3>2 DEF Tick
      <4> HIDE DEF h
      <4> QED BY <4>1, <4>2 DEF Engine
    <3> QED BY <3>1, <3>2
  <2>2. eng' \in [End -> Engine] BY <1>11, <2>1 DEF Tick
  <2> QED BY <1>11, <2>2 DEF Tick
<1>12. CASE Unrelated
  BY <1>12 DEF Unrelated, End, Frame
<1>13. CASE Move
  BY <1>13 DEF Move, Addr
<1>14. CASE Stabilise
  BY <1>14 DEF Stabilise
<1>15. CASE UNCHANGED vars
  BY <1>15 DEF vars
<1> QED
  BY <1>1, <1>2, <1>3, <1>4, <1>5, <1>6, <1>7, <1>8, <1>9, <1>10, <1>11, <1>12,
     <1>13, <1>14, <1>15, <1>16, <1>17 DEF Next

(* What a server does to the setting on its way in and out keeps the host   *)
(* in order.                                                               *)
LEMMA HostStep == TypeOK /\ HostInv /\ [Next]_vars => HostInv'
<1> SUFFICES ASSUME TypeOK, HostInv, [Next]_vars PROVE HostInv'
  OBVIOUS
<1> USE EndAssumption DEF TypeOK, HostInv, RestorersRun, SilenceHasReason, KeptAlone, FoundStays,
                          config, host, past, Pingers, End
<1>1. ASSUME NEW e \in End, Start(e) PROVE HostInv'
  <2>1. CASE e = Server /\ carrier = "icmp"
    <3>1. CASE Silenced(Server)
      BY <1>1, <2>1, <3>1 DEF Start, Silenced
    <3>2. CASE Refused
      BY <1>1, <2>1, <3>2 DEF Start, Refused
    <3> QED BY <1>1, <2>1, <3>1, <3>2 DEF Start
  <2>2. CASE ~(e = Server /\ carrier = "icmp")
    BY <1>1, <2>2 DEF Start
  <2> QED BY <2>1, <2>2
<1>2. ASSUME NEW e \in End, Return(e) \/ Kill(e) PROVE HostInv'
  <2>1. CASE e = Server /\ carrier = "icmp"
    <3>0. /\ on' = on \ {Server} /\ kept' = FALSE /\ UNCHANGED <<beside, config, ran>>
          /\ GivesBack(Server) \/ Forgets(Server)
      BY <1>2, <2>1 DEF Return, Kill
    <3>1. CASE GivesBack(Server)
      <4>1. CASE Server \in restore
        <5>1. restore' = {} /\ (echoIgnore' = FALSE \/ left' = TRUE)
          BY <3>1, <4>1 DEF GivesBack, Restored
        <5>2. found => echoIgnore' = echoIgnore
          BY <4>1
        <5> QED BY <3>0, <5>1, <5>2
      <4>2. CASE Server \notin restore
        BY <3>0, <3>1, <4>2 DEF GivesBack, Restored
      <4> QED BY <4>1, <4>2
    <3>2. CASE Forgets(Server)
      BY <3>0, <3>2 DEF Forgets
    <3> QED BY <3>0, <3>1, <3>2
  <2>2. CASE ~(e = Server /\ carrier = "icmp")
    BY <1>2, <2>2 DEF Return, Kill
  <2> QED BY <2>1, <2>2
<1>3. ASSUME NEW t \in Pingers, GivesUp(t) PROVE HostInv'
  BY <1>3 DEF GivesUp
<1>4. CASE NeighbourStarts
  <2>1. CASE Silenced(Neighbour)
    BY <1>4, <2>1 DEF NeighbourStarts, Silenced
  <2>2. CASE Refused
    BY <1>4, <2>2 DEF NeighbourStarts, Refused
  <2> QED BY <1>4, <2>1, <2>2 DEF NeighbourStarts
<1>5. CASE NeighbourEnds
  <2>1. CASE GivesBack(Neighbour)
    <3>1. CASE Neighbour \in restore
      BY <1>5, <2>1, <3>1 DEF NeighbourEnds, GivesBack, Restored
    <3>2. CASE Neighbour \notin restore
      BY <1>5, <2>1, <3>2 DEF NeighbourEnds, GivesBack, Restored
    <3> QED BY <3>1, <3>2
  <2>2. CASE Forgets(Neighbour)
    BY <1>5, <2>2 DEF NeighbourEnds, Forgets
  <2> QED BY <1>5, <2>1, <2>2 DEF NeighbourEnds
<1>6. CASE UNCHANGED <<config, on, host, past>>
  BY <1>6
<1>7. ASSUME NEW e \in End,
             Hear(e) \/ Packet(e) \/ Keepalive(e) \/ WatchdogLooks(e) \/ WatchdogDrops(e)
             \/ Bounce(e) \/ Lose(e)
      PROVE  UNCHANGED <<config, on, host, past>>
  BY <1>7 DEF Hear, Packet, Keepalive, WatchdogLooks, WatchdogDrops, Bounce, Lose
<1>8. Tick \/ Unrelated \/ Move \/ Stabilise \/ UNCHANGED vars
        => UNCHANGED <<config, on, host, past>>
  BY DEF Tick, Unrelated, Move, Stabilise, vars
<1> QED BY <1>1, <1>2, <1>3, <1>4, <1>5, <1>6, <1>7, <1>8 DEF Next

(* The watchdog looks once per interval, after the interval has been added *)
(* to the time since the last frame.                                       *)
LEMMA RecentStep ==
  TypeOK /\ OffIsEnded /\ LinkedIsRecent /\ [Next]_vars => (OffIsEnded /\ LinkedIsRecent)'
<1> SUFFICES ASSUME TypeOK, OffIsEnded, LinkedIsRecent, [Next]_vars,
                    NEW e \in End
             PROVE  /\ e \notin on' => eng'[e] = Ended
                    /\ eng'[e].linked /\ eng'[e].heard > LinkTimeout
                         => "watchdog" \in eng'[e].due \/ eng'[e].stale
  BY DEF OffIsEnded, LinkedIsRecent
<1> DEFINE Goal == /\ e \notin on' => eng'[e] = Ended
                   /\ eng'[e].linked /\ eng'[e].heard > LinkTimeout
                        => "watchdog" \in eng'[e].due \/ eng'[e].stale
<1>0. /\ eng \in [End -> Engine]
      /\ e \notin on => eng[e] = Ended
      /\ eng[e].linked /\ eng[e].heard > LinkTimeout
           => "watchdog" \in eng[e].due \/ eng[e].stale
  BY DEF TypeOK, OffIsEnded, LinkedIsRecent
<1> USE <1>0
<1>1. ASSUME NEW x \in End, Start(x) PROVE Goal
  BY <1>1, EngineType DEF Start
<1>2. ASSUME NEW x \in End, Return(x) \/ Kill(x) PROVE Goal
  BY <1>2, EngineType DEF Return, Kill
<1>3. ASSUME NEW x \in End, Hear(x) PROVE Goal
  BY <1>3, TimeoutAssumption DEF Hear, Engine
<1>4. ASSUME NEW x \in End, Keepalive(x) PROVE Goal
  BY <1>4, EngineType DEF Keepalive, Engine
<1>5. ASSUME NEW x \in End, WatchdogLooks(x) PROVE Goal
  <2>1. CASE e # x BY <1>5, <2>1 DEF WatchdogLooks
  <2>2. CASE e = x
    <3> DEFINE remains == eng[e].due \ {"watchdog"}
    <3>1. eng'[e] = [eng[e] EXCEPT !.due = remains, !.stale = Stale(e)]
      BY <1>5, <2>2 DEF WatchdogLooks
    <3>2. eng'[e].stale = Stale(e) /\ eng'[e].heard = eng[e].heard
      BY <3>1 DEF Engine
    <3>3. e \in on' BY <1>5, <2>2, EngineType DEF WatchdogLooks
    <3> QED BY <3>2, <3>3 DEF Stale
  <2> QED BY <2>1, <2>2
<1>6. ASSUME NEW x \in End, WatchdogDrops(x) PROVE Goal
  BY <1>6, EngineType DEF WatchdogDrops, Engine
<1>7. CASE Tick
  <2>1. CASE e \notin on BY <1>7, <2>1 DEF Tick
  <2>2. CASE e \in on
    <3>1. eng'[e].due = {"keepalive", "watchdog"} BY <1>7, <2>2 DEF Tick, Engine
    <3> QED BY <1>7, <2>2, <3>1 DEF Tick
  <2> QED BY <2>1, <2>2
<1>8. ASSUME NEW x \in End, Packet(x) \/ Bounce(x) \/ Lose(x) PROVE Goal
  BY <1>8 DEF Packet, Bounce, Lose
<1>9. CASE Unrelated \/ Move \/ Stabilise \/ NeighbourStarts \/ NeighbourEnds \/ UNCHANGED vars
  BY <1>9 DEF Unrelated, Move, Stabilise, NeighbourStarts, NeighbourEnds, vars
<1>10. ASSUME NEW t \in Pingers, GivesUp(t) PROVE Goal
  BY <1>10 DEF GivesUp
<1> QED BY <1>1, <1>2, <1>3, <1>4, <1>5, <1>6, <1>7, <1>8, <1>9, <1>10 DEF Next

(* Sending and delivering keep the wire honest: an end that sends runs, and *)
(* a host echoes only if it has not been told to ignore pings.             *)
LEMMA SentHonest ==
  ASSUME NEW e \in End, NEW d, NEW w \in [End -> Frame \union {None}], Honest(w), e \in ran
  PROVE  Honest(Sent(e, w, d))
BY EndAssumption DEF Honest, Sent, Other, End

(* What arrives on an honest wire is honest.                                *)
LEMMA ArrivedHonest ==
  ASSUME TypeOK, FoundStays, WireIsHonest, NEW e \in End
  PROVE  Honest(Arrived(e))
<1> USE EndAssumption, NoneAssumption DEF TypeOK, WireIsHonest, Honest, End, Frame
<1>1. CASE carrier = "icmp" /\ ~echoIgnore /\ e = Server /\ wire[e] = Client
  <2>1. MayBeEchoed(Client) BY <1>1 DEF FoundStays, MayBeEchoed
  <2>2. Arrived(e) = [wire EXCEPT ![Server] = None, ![Client] = Client]
    BY <1>1 DEF Arrived
  <2>3. Client \in ran BY <1>1
  <2> QED BY <2>1, <2>2, <2>3
<1>2. CASE ~(carrier = "icmp" /\ ~echoIgnore /\ e = Server /\ wire[e] = Client)
  <2>1. Arrived(e) = [wire EXCEPT ![e] = None] BY <1>2 DEF Arrived
  <2> QED BY <2>1
<1> QED BY <1>1, <1>2

(* What an end hears is its peer's, or its own where it may be echoed. *)
LEMMA LinkedStep ==
  IInv /\ [Next]_vars => (WireIsHonest /\ LinkedMeansPeerUnlessEchoed)'
<1> SUFFICES ASSUME IInv, [Next]_vars
             PROVE  (WireIsHonest /\ LinkedMeansPeerUnlessEchoed)'
  OBVIOUS
<1> USE DEF IInv, HostInv
<1>1. /\ eng \in [End -> Engine] /\ wire \in [End -> Frame \union {None}]
      /\ on \in SUBSET End /\ Honest(wire)
  BY DEF TypeOK, WireIsHonest
<1>2. ASSUME UNCHANGED config, ran \subseteq ran', Honest(wire')
      PROVE  WireIsHonest'
  BY <1>2 DEF WireIsHonest, Honest, MayBeEchoed, config
<1>3. ASSUME UNCHANGED config, ran \subseteq ran',
             \A x \in End : eng'[x].linked => eng[x].linked
      PROVE  LinkedMeansPeerUnlessEchoed'
  BY <1>3 DEF LinkedMeansPeerUnlessEchoed, MayBeEchoed, config
<1>4. ASSUME NEW e \in End, Start(e) \/ Return(e) \/ Kill(e)
      PROVE  (WireIsHonest /\ LinkedMeansPeerUnlessEchoed)'
  <2>1. UNCHANGED config /\ ran \subseteq ran' /\ wire' = wire
    BY <1>4 DEF Start, Return, Kill, past
  <2>2. \A x \in End : eng'[x].linked => eng[x].linked
    BY <1>1, <1>4, EngineType DEF Start, Return, Kill
  <2> QED BY <1>1, <1>2, <1>3, <2>1, <2>2
<1>5. ASSUME NEW e \in End, Hear(e)
      PROVE  (WireIsHonest /\ LinkedMeansPeerUnlessEchoed)'
  <2>1. UNCHANGED config /\ ran' = ran BY <1>5 DEF Hear, past
  <2>2. e \in ran BY <1>5 DEF Hear, RestorersRun
  <2>3. Honest(Arrived(e)) BY ArrivedHonest
  <2>4. Arrived(e) \in [End -> Frame \union {None}] BY ArrivedType
  <2>5. Honest(wire')
    BY <1>5, <2>2, <2>3, <2>4, SentHonest DEF Hear
  <2>6. ASSUME NEW x \in End, eng'[x].linked, ~eng[x].linked
        PROVE  x = e /\ Opens(e, wire[e])
    BY <1>1, <1>5, <2>6 DEF Hear
  <2>7. ASSUME Opens(e, wire[e]), ~MayBeEchoed(e)
        PROVE  sameToken /\ Other(e) \in ran
    <3>1. wire[e] # e BY <1>1, <2>7 DEF Honest
    <3> QED BY <1>1, <2>7, <3>1 DEF Honest, Opens, Other, End
  <2>8. LinkedMeansPeerUnlessEchoed'
    BY <2>1, <2>6, <2>7 DEF LinkedMeansPeerUnlessEchoed, MayBeEchoed, config
  <2> QED BY <1>2, <2>1, <2>5, <2>8
<1>6. ASSUME NEW e \in End, Packet(e) \/ Keepalive(e)
      PROVE  (WireIsHonest /\ LinkedMeansPeerUnlessEchoed)'
  <2>1. UNCHANGED config /\ ran' = ran /\ wire' = Sent(e, wire, dst)
    BY <1>6 DEF Packet, Keepalive, past
  <2>2. e \in ran
    BY <1>6, EngineType DEF Packet, Keepalive, OffIsEnded, RestorersRun
  <2>3. \A x \in End : eng'[x].linked => eng[x].linked
    BY <1>1, <1>6 DEF Packet, Keepalive, Engine
  <2>4. Honest(wire') BY <1>1, <2>1, <2>2, SentHonest
  <2> QED BY <1>2, <1>3, <2>1, <2>3, <2>4
<1>7. ASSUME NEW e \in End, WatchdogLooks(e) \/ WatchdogDrops(e)
      PROVE  (WireIsHonest /\ LinkedMeansPeerUnlessEchoed)'
  <2>1. UNCHANGED config /\ ran' = ran /\ wire' = wire
    BY <1>7 DEF WatchdogLooks, WatchdogDrops, past
  <2>2. \A x \in End : eng'[x].linked => eng[x].linked
    BY <1>1, <1>7 DEF WatchdogLooks, WatchdogDrops, Engine
  <2> QED BY <1>1, <1>2, <1>3, <2>1, <2>2
<1>8. CASE Tick
  <2>1. UNCHANGED config /\ ran' = ran /\ wire' = wire BY <1>8 DEF Tick, past
  <2>2. ASSUME NEW x \in End PROVE eng'[x].linked => eng[x].linked
    <3>1. CASE x \in on BY <1>1, <1>8, <3>1 DEF Tick, Engine
    <3>2. CASE x \notin on BY <1>1, <1>8, <3>2 DEF Tick
    <3> QED BY <3>1, <3>2
  <2> QED BY <1>1, <1>2, <1>3, <2>1, <2>2
<1>9. ASSUME NEW e \in End, Bounce(e) \/ Lose(e)
      PROVE  (WireIsHonest /\ LinkedMeansPeerUnlessEchoed)'
  <2>1. UNCHANGED <<config, eng>> /\ ran' = ran BY <1>9 DEF Bounce, Lose, past
  <2>2. Honest(wire')
    <3>1. CASE Bounce(e) BY <3>1, ArrivedHonest DEF Bounce
    <3>2. CASE Lose(e)
      BY <1>1, <3>2, NoneAssumption DEF Lose, Honest, Frame, End
    <3> QED BY <1>9, <3>1, <3>2
  <2> QED BY <1>2, <1>3, <2>1, <2>2
<1>10. CASE Unrelated \/ Move
  <2>1. UNCHANGED <<config, eng>> /\ ran' = ran BY <1>10 DEF Unrelated, Move, past
  <2>2. Honest(wire')
    BY <1>1, <1>10, NoneAssumption, EndAssumption DEF Unrelated, Move, Honest, Frame, End
  <2> QED BY <1>2, <1>3, <2>1, <2>2
<1>12. ASSUME NEW t \in Pingers, GivesUp(t)
       PROVE  (WireIsHonest /\ LinkedMeansPeerUnlessEchoed)'
  <2>1. UNCHANGED <<config, eng, wire>> /\ ran' = ran
    BY <1>12 DEF GivesUp, past
  <2> QED BY <1>1, <1>2, <1>3, <2>1
<1>13. CASE NeighbourStarts \/ NeighbourEnds
  <2>1. UNCHANGED <<config, eng, wire>> /\ ran' = ran
    BY <1>13 DEF NeighbourStarts, NeighbourEnds, past
  <2> QED BY <1>1, <1>2, <1>3, <2>1
<1>11. CASE Stabilise \/ UNCHANGED vars
  <2>1. UNCHANGED <<config, eng, wire>> /\ ran' = ran
    BY <1>11 DEF Stabilise, vars, past
  <2> QED BY <1>1, <1>2, <1>3, <2>1
<1> QED
  BY <1>4, <1>5, <1>6, <1>7, <1>8, <1>9, <1>10, <1>11, <1>12, <1>13 DEF Next

(* Every step preserves the inductive invariant. *)
LEMMA InvStep == IInv /\ [Next]_vars => IInv'
BY TypeStep, HostStep, RecentStep, LinkedStep DEF IInv

-----------------------------------------------------------------------------
(* The inductive invariant holds: what the ends show follows from what is  *)
(* under way, and that from who has run and what the kernel echoes.        *)
THEOREM Invariant == Spec => []IInv
<1> QED BY InvInit, InvStep, PTL DEF Spec

(* The state has its type, for every timeout and all carriers. *)
THEOREM TypeCorrect == Spec => []TypeOK
<1>1. IInv => TypeOK BY DEF IInv
<1> QED BY <1>1, Invariant, PTL

(* An end shows its peer at most for the timeout after it was heard, until *)
(* the watchdog's next look (engine.go:156-172), for every timeout.        *)
THEOREM StatusIsRecent == Spec => []LinkedIsRecent
<1>1. IInv => LinkedIsRecent BY DEF IInv
<1> QED BY <1>1, Invariant, PTL

(* No end shows a peer that has never run or has another token, but for an *)
(* ICMP client whose own frames are echoed (engine.go:216-223).            *)
THEOREM StatusIsHonest == Spec => []LinkedMeansPeerUnlessEchoed
<1>1. IInv => LinkedMeansPeerUnlessEchoed BY DEF IInv
<1> QED BY <1>1, Invariant, PTL

(* An ICMP server keeps the kernel silent as long as it has no company, and *)
(* when none runs on the host its setting is what it was at first, unless  *)
(* one that had changed it was killed, gave up or could not write: in      *)
(* whatever order the servers of a host come and go, refused or not        *)
(* (carrier_raw.go:62-75, 169-174 and 222-243).                            *)
THEOREM EchoIsGivenBack == Spec => []EchoSetting
<1>1. IInv => EchoSetting
  <2> SUFFICES ASSUME IInv PROVE EchoSetting
    OBVIOUS
  <2>1. kept => echoIgnore
    BY DEF IInv, HostInv, KeptAlone
  <2>2. ASSUME Server \notin on, ~beside, ~left PROVE echoIgnore = found
    <3>1. restore = {}
      BY <2>2 DEF IInv, TypeOK, Pingers, HostInv, RestorersRun
    <3> QED BY <2>2, <3>1 DEF IInv, TypeOK, HostInv, SilenceHasReason, FoundStays
  <2> QED BY <2>1, <2>2 DEF EchoSetting
<1> QED BY <1>1, Invariant, PTL

(* What an end shows is recent and, the kernel's echo aside, its peer's. *)
THEOREM WhatIsShownIsSo == Spec => []LinkedIsHonest
<1>1. LinkedIsHonest <=> LinkedIsRecent /\ LinkedMeansPeerUnlessEchoed BY DEF LinkedIsHonest
<1> QED BY <1>1, StatusIsRecent, StatusIsHonest, PTL
=============================================================================
