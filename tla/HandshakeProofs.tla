---------------------------- MODULE HandshakeProofs ---------------------------
(***************************************************************************)
(* Proofs about Handshake for any number of connections.  What each end    *)
(* believes of the other rests on what is under way between them: the      *)
(* invariant follows a connection from the magic to the link, for the      *)
(* server's goroutine, whoever is at the other end, and for the pair of    *)
(* ends that have not given it up.                                         *)
(***************************************************************************)
EXTENDS Handshake, TLAPS

(* The answer of a client to a challenge. *)
Proof == IF sameToken THEN "goodProof" ELSE "badProof"

(* What the server's goroutine may still find in the stream: at most one   *)
(* message, the one it waits for or one that it refuses.                   *)
Awaited(k) ==
  /\ spc[k] \in {"salt", "magic"} =>
       \/ toServer[k] \in {<<>>, <<"junk">>}
       \/ k \notin stray /\ \E b \in BOOLEAN : toServer[k] = Magic(b)
  /\ spc[k] = "proof" => k \notin stray /\ toServer[k] \in {<<>>, <<Proof>>}
  /\ spc[k] = "version" => k \notin stray /\ sameToken /\ sv2[k] /\ toServer[k] \in {<<>>, <<"version">>}
  /\ spc[k] = "linked" => k \notin stray /\ sameToken /\ toServer[k] = <<>>

ServerSide == \A k \in Conns : Awaited(k)

(* The two ends of the client's connection take turns.  Each disjunct is a *)
(* turn, or the server is gone and has left something to be read.          *)
Challenged(k) ==
  \/ spc[k] \in {"salt", "magic"} /\ toServer[k] = Magic(v2) /\ toClient[k] = <<>>
  \/ spc[k] = "proof" /\ toServer[k] = <<>> /\ toClient[k] = <<"challenge">> /\ sv2[k] = v2
  \/ spc[k] = "none" /\ toClient[k] \in {<<>>, <<"challenge">>}

Welcome == IF v2 THEN <<"ok", "version">> ELSE <<"ok">>

Judged(k) ==
  \/ spc[k] = "proof" /\ toServer[k] = <<Proof>> /\ toClient[k] = <<>> /\ sv2[k] = v2
  \/ /\ spc[k] = IF v2 THEN "version" ELSE "linked"
     /\ toServer[k] = <<>> /\ toClient[k] = Welcome /\ sv2[k] = v2 /\ sameToken
  \/ /\ spc[k] = "none"
     /\ toClient[k] \in {<<>>, <<"fail">>} \/ (sameToken /\ toClient[k] = Welcome)

Greeted(k) ==
  /\ v2 /\ sameToken /\ toClient[k] = <<"version">>
  /\ spc[k] = "none" \/ (spc[k] = "version" /\ sv2[k] /\ toServer[k] = <<>>)

(* What the client has reached is not the server: no goroutine of the      *)
(* server and no message has to do with it.                                *)
Outside(k) == spc[k] = "none" /\ toClient[k] = <<>>

Joined(k) ==
  /\ sameToken /\ toClient[k] = <<>> /\ cPeer = v2
  /\ \/ spc[k] = "none"
     \/ spc[k] = "version" /\ sv2[k] /\ v2 /\ toServer[k] = <<"version">>
     \/ spc[k] = "linked" /\ sv2[k] = v2

ClientSide ==
  /\ cconn \notin stray
  /\ cpc \in {"dial", "redial"} <=> cconn = NoConn
  /\ cpc \in {"challenge", "status", "version"} => ~cPeer
  /\ cpc = "version" => v2
  /\ cpc = "linked" => cPeer = v2
  /\ astray => cconn \in Conns /\ Outside(cconn)
  /\ ~astray =>
       /\ cpc = "challenge" => Challenged(cconn)
       /\ cpc = "status" => Judged(cconn)
       /\ cpc = "version" => Greeted(cconn)
       /\ cpc = "linked" => Joined(cconn)

(* The server notes a client's version when it has read it, and links up a *)
(* version 2 connection then and only then.                                *)
NotedWhenRead == \A k \in Conns :
  /\ spc[k] \in Shaking => k \notin sPeer
  /\ spc[k] = "linked" => (k \in sPeer <=> sv2[k])

IInv == TypeOK /\ ServerSide /\ ClientSide /\ NotedWhenRead

-----------------------------------------------------------------------------
(* Short sequences, which the provers know little about.                   *)
LEMMA Words ==
  /\ \A x : <<x>> # <<>> /\ Head(<<x>>) = x /\ Tail(<<x>>) = <<>>
  /\ \A x, y : <<x, y>> # <<>> /\ Head(<<x, y>>) = x /\ Tail(<<x, y>>) = <<y>>
  /\ \A x : Append(<<>>, x) = <<x>> /\ <<>> \o <<x>> = <<x>>
  /\ \A x, y : <<>> \o <<x, y>> = <<x, y>>
  /\ \A x, y : <<x>> = <<y>> => x = y
  /\ \A x, y, z : <<x>> # <<y, z>>
<1>1. \A x : <<x>> # <<>> /\ Head(<<x>>) = x /\ Tail(<<x>>) = <<>>
  OBVIOUS
<1>2. \A x, y : <<x, y>> # <<>> /\ Head(<<x, y>>) = x /\ Tail(<<x, y>>) = <<y>>
  OBVIOUS
<1>3. \A x : Append(<<>>, x) = <<x>> /\ <<>> \o <<x>> = <<x>>
  OBVIOUS
<1>4. \A x, y : <<>> \o <<x, y>> = <<x, y>>
  OBVIOUS
<1>5. \A x, y : <<x>> = <<y>> => x = y
  OBVIOUS
<1>6. \A x, y, z : <<x>> # <<y, z>>
  OBVIOUS
<1> QED BY <1>1, <1>2, <1>3, <1>4, <1>5, <1>6

(* What a queue of messages stays when one is read or some are written.    *)
LEMMA Queues ==
  ASSUME NEW s \in Seq(Messages)
  PROVE  /\ s # <<>> => Tail(s) \in Seq(Messages)
         /\ \A m \in Messages : Append(s, m) \in Seq(Messages)
         /\ \A t \in Seq(Messages) : s \o t \in Seq(Messages)
OBVIOUS

(* Reading from and writing to a connection keeps the queues' type.         *)
LEMMA Updates ==
  ASSUME NEW q \in [Conns -> Seq(Messages)], NEW k
  PROVE  /\ k \in Conns /\ q[k] # <<>> => [q EXCEPT ![k] = Tail(@)] \in [Conns -> Seq(Messages)]
         /\ k \notin Conns => [q EXCEPT ![k] = Tail(@)] \in [Conns -> Seq(Messages)]
         /\ \A m \in Messages : [q EXCEPT ![k] = Append(@, m)] \in [Conns -> Seq(Messages)]
         /\ \A t \in Seq(Messages) : [q EXCEPT ![k] = @ \o t] \in [Conns -> Seq(Messages)]
<1>1. CASE k \in Conns
  <2>1. q[k] \in Seq(Messages)
    BY <1>1
  <2> QED BY <2>1, Queues
<1>2. CASE k \notin Conns
  BY <1>2
<1> QED BY <1>1, <1>2

(* Before the first dial nothing is under way.                              *)
LEMMA InvInit == Init => IInv
<1> SUFFICES ASSUME Init PROVE IInv
  OBVIOUS
<1>1. TypeOK
  <2>1. [k \in Conns |-> <<>>] \in [Conns -> Seq(Messages)]
    OBVIOUS
  <2> QED BY <2>1 DEF Init, TypeOK
<1>2. ServerSide
  BY DEF Init, ServerSide, Awaited
<1>3. ClientSide
  BY DEF Init, ClientSide
<1>4. NotedWhenRead
  BY DEF Init, NotedWhenRead, Shaking
<1> QED BY <1>1, <1>2, <1>3, <1>4 DEF IInv

(* Every step of either end and of the world keeps the state well typed.   *)
LEMMA TypeStep == TypeOK /\ [Next]_vars => TypeOK'
<1> SUFFICES ASSUME TypeOK, [Next]_vars PROVE TypeOK'
  OBVIOUS
<1> USE DEF TypeOK
<1>1. ASSUME NEW k \in Conns, Dial(k) \/ Redial(k) PROVE TypeOK'
  <2>1. \A b : Magic(b) \in Seq(Messages) /\ <<>> \in Seq(Messages)
    BY DEF Magic, Messages
  <2>2. PICK b \in BOOLEAN : Start(k, b)
    BY <1>1 DEF Dial, Redial
  <2>3. /\ cpc' = "challenge" /\ cconn' = k /\ v2' = b /\ cPeer' = FALSE
        /\ UNCHANGED <<useV1, world>>
    BY <2>2 DEF Start
  <2>4. CASE Accept(k, Magic(b)) /\ astray' = FALSE
    BY <2>1, <2>3, <2>4 DEF Accept, world
  <2>5. CASE Elsewhere(k) /\ astray' = TRUE
    BY <2>1, <2>3, <2>5 DEF Elsewhere, server, world
  <2> QED BY <2>2, <2>4, <2>5 DEF Start
<1>2. CASE RedialFails \/ ChallengeFails \/ LaterReadFails \/ LinkEnds
  BY <1>2 DEF RedialFails, ChallengeFails, LaterReadFails, LinkEnds, HangUp, server, wire, world
<1>3. CASE ReadChallenge \/ ReadStatus \/ ReadVersion
  <2>1. \/ UNCHANGED toClient
        \/ toClient' = [toClient EXCEPT ![cconn] = Tail(@)] /\ toClient[cconn] # <<>>
    BY <1>3 DEF ReadChallenge, ReadStatus, ReadVersion, FromServer, Received
  <2>2. toClient' \in [Conns -> Seq(Messages)]
    <3>1. CASE UNCHANGED toClient
      BY <3>1
    <3>2. CASE toClient' = [toClient EXCEPT ![cconn] = Tail(@)] /\ toClient[cconn] # <<>>
      BY <3>2, Updates
    <3> QED BY <2>1, <3>1, <3>2
  <2>3. UNCHANGED toServer \/ \E m \in Messages : Reply(m)
    BY <1>3 DEF ReadChallenge, ReadStatus, ReadVersion, Messages
  <2>4. toServer' \in [Conns -> Seq(Messages)]
    <3>1. ASSUME NEW m \in Messages, toServer' = [toServer EXCEPT ![cconn] = Append(@, m)]
          PROVE  toServer' \in [Conns -> Seq(Messages)]
      <4>1. [toServer EXCEPT ![cconn] = Append(@, m)] \in [Conns -> Seq(Messages)]
        BY Updates
      <4> QED BY <3>1, <4>1
    <3>2. UNCHANGED toServer \/ \E m \in Messages : toServer' = [toServer EXCEPT ![cconn] = Append(@, m)]
      BY <2>3 DEF Reply
    <3> QED BY <3>1, <3>2
  <2> QED BY <1>3, <2>2, <2>4 DEF ReadChallenge, ReadStatus, ReadVersion, HangUp, server, world
<1>6. ASSUME NEW k \in Conns, Salt(k) \/ ShakeFails(k) \/ PeerLeaves(k) PROVE TypeOK'
  <2>1. CASE Salt(k) BY <2>1 DEF Salt, Goto, client, wire, world
  <2>2. CASE ShakeFails(k) BY <2>2 DEF ShakeFails, Goto, client, wire, world
  <2>3. CASE PeerLeaves(k) BY <2>3 DEF PeerLeaves, Goto, client, wire, world
  <2> QED BY <1>6, <2>1, <2>2, <2>3
<1>7. ASSUME NEW k \in Conns, ReadMagic(k) \/ ReadProof(k) \/ ReadPeerVersion(k) PROVE TypeOK'
  <2>1. toServer' = [toServer EXCEPT ![k] = Tail(@)] /\ toServer[k] # <<>>
    BY <1>7 DEF ReadMagic, ReadProof, ReadPeerVersion, FromPeer, Consumed
  <2>2. toServer' \in [Conns -> Seq(Messages)]
    BY <2>1, Updates
  <2>3. UNCHANGED toClient \/ \E t \in {<<"challenge">>, <<"fail">>, <<"ok">>, <<"ok", "version">>} : Send(k, t)
    BY <1>7 DEF ReadMagic, ReadProof, ReadPeerVersion
  <2>4. {<<"challenge">>, <<"fail">>, <<"ok">>, <<"ok", "version">>} \subseteq Seq(Messages)
    BY DEF Messages
  <2>5. toClient' \in [Conns -> Seq(Messages)]
    <3>1. ASSUME NEW t \in Seq(Messages), Send(k, t) PROVE toClient' \in [Conns -> Seq(Messages)]
      BY <3>1, Updates DEF Send
    <3> QED BY <2>3, <2>4, <3>1
  <2>6. UNCHANGED client /\ UNCHANGED world /\ UNCHANGED <<armed, cut>>
    BY <1>7 DEF ReadMagic, ReadProof, ReadPeerVersion
  <2>7. \E p \in {"none", "proof", "version", "linked"} : Goto(k, p)
    BY <1>7 DEF ReadMagic, ReadProof, ReadPeerVersion
  <2>8. sPeer' \subseteq Conns /\ sv2' \in [Conns -> BOOLEAN]
    BY <1>7 DEF ReadMagic, ReadProof, ReadPeerVersion, SpeaksV2
  <2>9. spc' \in [Conns -> {"none", "salt", "magic", "proof", "version", "linked"}]
    BY <2>7 DEF Goto
  <2> QED BY <2>2, <2>5, <2>6, <2>8, <2>9 DEF client, world
<1>10. ASSUME NEW k \in Conns, StrayCalls(k) PROVE TypeOK'
  <2>1. <<"junk">> \in Seq(Messages) /\ <<>> \in Seq(Messages)
    BY DEF Messages
  <2>2. ASSUME NEW sent \in {<<>>, <<"junk">>}, Accept(k, sent) PROVE toServer' \in [Conns -> Seq(Messages)]
    BY <2>1, <2>2 DEF Accept
  <2>3. toServer' \in [Conns -> Seq(Messages)]
    BY <1>10, <2>2 DEF StrayCalls
  <2>4. PICK sent : Accept(k, sent)
    BY <1>10 DEF StrayCalls
  <2> QED BY <1>10, <2>1, <2>3, <2>4 DEF StrayCalls, Accept, client
<1>11. ASSUME NEW k \in Conns, StrayLeaves(k) \/ Reset(k) PROVE TypeOK'
  BY <1>11 DEF StrayLeaves, Reset, client, server, wire, world
<1>12. CASE Update \/ Stabilize
  <2>1. UNCHANGED <<cpc, cconn, v2, useV1, cPeer, astray, sv2, sPeer, armed>>
    BY <1>12 DEF Update, Stabilize, client, server
  <2>2. UNCHANGED <<toServer, toClient, cut, stray, stealth, sameToken>>
    BY <1>12 DEF Update, Stabilize, wire
  <2>3. build' \in {"v1", "v2"} /\ stable' \in BOOLEAN
    BY <1>12 DEF Update, Stabilize
  <2>4. spc' \in [Conns -> {"none", "salt", "magic", "proof", "version", "linked"}]
    BY <1>12 DEF Update, Stabilize, server
  <2> QED BY <2>1, <2>2, <2>3, <2>4
<1>13. CASE UNCHANGED vars
  BY <1>13 DEF vars
<1> QED BY <1>1, <1>2, <1>3, <1>6, <1>7, <1>10, <1>11, <1>12, <1>13
        DEF Next, ClientStep, ServerStep

-----------------------------------------------------------------------------
(* A connection that a step leaves alone keeps what is known of it.        *)
LEMMA ServerFrame ==
  ASSUME NEW k, Awaited(k), UNCHANGED <<spc[k], sv2[k], toServer[k], sameToken>>,
         k \in stray' => k \in stray
  PROVE  Awaited(k)'
BY DEF Awaited, Proof

(* What does not touch the client's connection leaves the client as it was. *)
LEMMA ClientFrame ==
  ASSUME ClientSide, UNCHANGED <<client, sameToken, cconn \in stray>>,
         UNCHANGED <<spc[cconn], sv2[cconn], toServer[cconn], toClient[cconn]>>
  PROVE  ClientSide'
BY DEF client, ClientSide, Outside, Challenged, Judged, Greeted, Joined, Proof, Welcome

(* A client that is not dialing uses a connection.                         *)
LEMMA Holding ==
  ASSUME IInv PROVE cpc \in {"challenge", "status", "version", "linked"} => cconn \in Conns
BY DEF IInv, TypeOK, ClientSide

(* Whoever has a goroutine of the server at the other end is not astray.    *)
LEMMA Reached ==
  ASSUME IInv, spc[cconn] # "none" PROVE ~astray
BY DEF IInv, ClientSide, Outside

(* What is left of the invariant once the types are known.                 *)
Talks == ServerSide /\ ClientSide /\ NotedWhenRead

(* A new connection starts with the magic of the client or with junk.      *)
LEMMA DialStep ==
  ASSUME IInv, NEW k \in Conns, Dial(k) \/ Redial(k) PROVE Talks'
<1>1. PICK b \in BOOLEAN :
        /\ \/ Accept(k, Magic(b)) /\ astray' = FALSE
           \/ Elsewhere(k) /\ astray' = TRUE
        /\ cpc' = "challenge" /\ cconn' = k /\ v2' = b /\ cPeer' = FALSE
        /\ UNCHANGED world
  BY DEF Dial, Redial, Start, IInv, TypeOK
<1>2. CASE Accept(k, Magic(b)) /\ astray' = FALSE
  <2>1. /\ spc'[k] \in {"salt", "magic"} /\ toServer'[k] = Magic(b) /\ toClient'[k] = <<>>
        /\ k \notin sPeer' /\ k \notin stray'
    BY <1>1, <1>2 DEF Accept, Free, IInv, TypeOK, world
  <2>2. \A j \in Conns \ {k} : UNCHANGED <<spc[j], sv2[j], toServer[j]>> /\ (j \in sPeer' <=> j \in sPeer)
    BY <1>2 DEF Accept, IInv, TypeOK
  <2>3. ServerSide'
    <3>1. Awaited(k)'
      BY <1>1, <2>1 DEF Awaited
    <3>2. ASSUME NEW j \in Conns \ {k} PROVE Awaited(j)'
      BY <1>1, <2>2, ServerFrame DEF IInv, ServerSide, world
    <3> QED BY <3>1, <3>2 DEF ServerSide
  <2>4. ClientSide'
    <3>1. Challenged(k)'
      BY <1>1, <2>1 DEF Challenged
    <3> QED BY <1>1, <1>2, <2>1, <3>1, NoConnAssumption DEF ClientSide
  <2>5. NotedWhenRead'
    BY <1>2, <2>1, <2>2 DEF IInv, NotedWhenRead, Shaking, Accept
  <2> QED BY <2>3, <2>4, <2>5 DEF Talks
<1>3. CASE Elsewhere(k) /\ astray' = TRUE
  <2>1. /\ spc[k] = "none" /\ k \notin stray /\ UNCHANGED <<server, spc, sv2, sPeer, stray, sameToken>>
        /\ toServer'[k] = <<>> /\ toClient'[k] = <<>>
        /\ \A j \in Conns \ {k} : toServer'[j] = toServer[j]
    BY <1>1, <1>3 DEF Elsewhere, Free, IInv, TypeOK, server, world
  <2>2. ServerSide'
    <3>1. Awaited(k)'
      BY <2>1 DEF Awaited
    <3>2. ASSUME NEW j \in Conns \ {k} PROVE Awaited(j)'
      BY <2>1, ServerFrame DEF IInv, ServerSide
    <3> QED BY <3>1, <3>2 DEF ServerSide
  <2>3. ClientSide'
    BY <1>1, <1>3, <2>1, NoConnAssumption DEF ClientSide, Outside
  <2>4. NotedWhenRead'
    BY <2>1 DEF IInv, NotedWhenRead
  <2> QED BY <2>2, <2>3, <2>4 DEF Talks
<1> QED BY <1>1, <1>2, <1>3

(* A client that gives a connection up leaves the server's end as it is.   *)
LEMMA HangUpStep ==
  ASSUME IInv, UNCHANGED <<server, toServer, world>>, cpc' \in {"dial", "redial"}, cconn' = NoConn,
         astray' = FALSE
  PROVE  Talks'
<1>1. ServerSide'
  BY ServerFrame DEF IInv, ServerSide, server, world
<1>2. ClientSide'
  BY NoConnAssumption DEF ClientSide, IInv, TypeOK, world
<1>3. NotedWhenRead'
  BY DEF IInv, NotedWhenRead, server
<1> QED BY <1>1, <1>2, <1>3 DEF Talks

(* What the client reads and writes elsewhere is nothing to the server.    *)
LEMMA AstrayStep ==
  ASSUME IInv, astray, astray', UNCHANGED <<cconn, v2, server, toServer, toClient, world>>,
         cpc' \in {"status", "version", "linked"},
         cpc' \in {"status", "version"} => ~cPeer',
         cpc' = "version" => v2,
         cpc' = "linked" => cPeer' = v2
  PROVE  Talks'
<1>1. ServerSide' /\ NotedWhenRead'
  BY ServerFrame DEF IInv, ServerSide, NotedWhenRead, server, world
<1>2. ClientSide'
  BY NoConnAssumption DEF IInv, ClientSide, Outside, server, world
<1> QED BY <1>1, <1>2 DEF Talks

(* The client answers the challenge with its proof.                         *)
LEMMA ReadChallengeStep == ASSUME IInv, ReadChallenge PROVE Talks'
<1> SUFFICES ASSUME ~astray PROVE Talks'
  BY AstrayStep DEF ReadChallenge, Received, Reply, IInv, ClientSide, TypeOK
<1>1. PICK k \in Conns : k = cconn /\ Challenged(k)
  BY Holding DEF ReadChallenge, IInv, ClientSide
<1>2. /\ toClient[k] = <<"challenge">>
      /\ spc[k] = "none" \/ (spc[k] = "proof" /\ toServer[k] = <<>> /\ sv2[k] = v2)
  BY <1>1 DEF ReadChallenge, FromServer, Challenged
<1>3. /\ cpc' = "status" /\ UNCHANGED <<cconn, v2, cPeer, astray, spc, sv2, sPeer, stray, sameToken>>
      /\ toClient' = [toClient EXCEPT ![k] = Tail(@)]
      /\ toServer' = [toServer EXCEPT ![k] = Append(@, Proof)]
  BY <1>1 DEF ReadChallenge, Received, Reply, Proof, server, world
<1>4. toClient'[k] = <<>> /\ (toServer[k] = <<>> => toServer'[k] = <<Proof>>)
  BY <1>2, <1>3, Words DEF IInv, TypeOK
<1>5. \A j \in Conns \ {k} : toServer'[j] = toServer[j]
  BY <1>3 DEF IInv, TypeOK
<1>6. ServerSide'
  <2>1. Awaited(k)'
    BY <1>2, <1>3, <1>4 DEF Awaited, Proof, IInv, ServerSide
  <2>2. ASSUME NEW j \in Conns \ {k} PROVE Awaited(j)'
    BY <1>3, <1>5, ServerFrame DEF IInv, ServerSide
  <2> QED BY <2>1, <2>2 DEF ServerSide
<1>7. Judged(k)'
  BY <1>2, <1>3, <1>4 DEF Judged, Proof
<1>8. ClientSide'
  BY <1>1, <1>3, <1>7 DEF ClientSide, IInv, ReadChallenge
<1>9. NotedWhenRead'
  BY <1>3 DEF IInv, NotedWhenRead
<1> QED BY <1>6, <1>8, <1>9 DEF Talks

(* The client believes the status that the server sent it.                  *)
LEMMA ReadStatusStep == ASSUME IInv, ReadStatus PROVE Talks'
<1>0. CASE astray /\ ~(FromServer("fail") /\ HangUp)
  <2>1. /\ cpc = "status" /\ cpc' = (IF v2 THEN "version" ELSE "linked") /\ astray'
        /\ UNCHANGED <<cconn, v2, cPeer, server, toServer, toClient, world>>
    <3>1. astray /\ Received /\ cpc = "status" /\ UNCHANGED <<toServer, cut, server, world>>
      BY <1>0 DEF ReadStatus
    <3>2. /\ cpc' = (IF v2 THEN "version" ELSE "linked")
          /\ UNCHANGED <<cconn, v2, useV1, cPeer, astray>>
      BY <1>0 DEF ReadStatus
    <3>3. UNCHANGED toClient
      BY <3>1 DEF Received
    <3>4. astray'
      BY <3>1, <3>2
    <3> QED BY <3>1, <3>2, <3>3, <3>4 DEF server, world
  <2>2. ~cPeer /\ cPeer \in BOOLEAN /\ v2 \in BOOLEAN
    BY <2>1 DEF IInv, ClientSide, TypeOK
  <2> QED BY <1>0, <2>1, <2>2, AstrayStep
<1>2. CASE FromServer("fail") /\ HangUp
  BY <1>2, HangUpStep DEF ReadStatus, HangUp
<1> SUFFICES ASSUME ~astray PROVE Talks'
  BY <1>0, <1>2
<1>1. PICK k \in Conns : k = cconn /\ Judged(k)
  BY Holding DEF ReadStatus, IInv, ClientSide
<1>3. CASE FromServer("ok") /\ cpc' = IF v2 THEN "version" ELSE "linked"
  <2>1. toClient[k] # <<>> /\ toClient[k] # <<"fail">>
    BY <1>1, <1>3, Words DEF FromServer
  <2>2. toClient[k] = Welcome /\ sameToken
    BY <1>1, <2>1 DEF Judged
  <2>3. \/ spc[k] = "none"
        \/ spc[k] = (IF v2 THEN "version" ELSE "linked") /\ toServer[k] = <<>> /\ sv2[k] = v2
    BY <1>1, <2>1 DEF Judged
  <2>4. /\ UNCHANGED <<cconn, v2, cPeer, astray, spc, sv2, sPeer, toServer, stray, sameToken>>
        /\ toClient' = [toClient EXCEPT ![k] = Tail(@)]
    BY <1>1, <1>3 DEF ReadStatus, Received, HangUp, server, world
  <2>5. toClient'[k] = IF v2 THEN <<"version">> ELSE <<>>
    BY <2>2, <2>4, Words DEF Welcome, IInv, TypeOK
  <2>6. ServerSide' /\ NotedWhenRead'
    BY <2>4, ServerFrame DEF IInv, ServerSide, NotedWhenRead
  <2>7. IF v2 THEN Greeted(k)' ELSE Joined(k)'
    BY <1>1, <2>2, <2>3, <2>4, <2>5 DEF Greeted, Joined, ReadStatus, IInv, ClientSide, TypeOK
  <2>8. ~cPeer /\ cPeer \in BOOLEAN /\ v2 \in BOOLEAN /\ cpc = "status" /\ ~astray'
    BY <2>4 DEF IInv, ClientSide, TypeOK, ReadStatus
  <2>9. ClientSide'
    <3>1. cconn' \notin stray' /\ cconn # NoConn
      BY <1>1, <2>4, NoConnAssumption DEF ClientSide, IInv
    <3>2. CASE v2
      BY <1>1, <1>3, <2>4, <2>7, <2>8, <3>1, <3>2 DEF ClientSide
    <3>3. CASE ~v2
      <4>1. cPeer' = v2'
        BY <2>4, <2>8, <3>3
      <4> QED BY <1>1, <1>3, <2>4, <2>7, <2>8, <3>1, <3>3, <4>1 DEF ClientSide
    <3> QED BY <3>2, <3>3
  <2> QED BY <2>6, <2>9 DEF Talks
<1> QED BY <1>2, <1>3 DEF ReadStatus

(* The client is linked once it has the server's version.                   *)
LEMMA ReadVersionStep == ASSUME IInv, ReadVersion PROVE Talks'
<1> SUFFICES ASSUME ~astray PROVE Talks'
  BY AstrayStep DEF ReadVersion, Received, Reply, IInv, ClientSide, TypeOK
<1>1. PICK k \in Conns : k = cconn /\ Greeted(k)
  BY Holding DEF ReadVersion, IInv, ClientSide
<1>2. /\ cpc' = "linked" /\ cPeer' = TRUE /\ UNCHANGED <<cconn, v2, astray, spc, sv2, sPeer, stray, sameToken>>
      /\ toClient' = [toClient EXCEPT ![k] = Tail(@)]
      /\ toServer' = [toServer EXCEPT ![k] = Append(@, "version")]
  BY <1>1 DEF ReadVersion, Received, Reply, server, world
<1>3. toClient'[k] = <<>> /\ (toServer[k] = <<>> => toServer'[k] = <<"version">>)
  <2>1. toClient[k] = <<"version">>
    BY <1>1 DEF Greeted
  <2> QED BY <1>2, <2>1, Words DEF IInv, TypeOK
<1>4. \A j \in Conns \ {k} : toServer'[j] = toServer[j]
  BY <1>2 DEF IInv, TypeOK
<1>5. ServerSide'
  <2>1. Awaited(k)'
    BY <1>1, <1>2, <1>3 DEF Greeted, Awaited, IInv, ServerSide
  <2>2. ASSUME NEW j \in Conns \ {k} PROVE Awaited(j)'
    BY <1>2, <1>4, ServerFrame DEF IInv, ServerSide
  <2> QED BY <2>1, <2>2 DEF ServerSide
<1>6. Joined(k)'
  BY <1>1, <1>2, <1>3 DEF Greeted, Joined, IInv, TypeOK
<1>7. ClientSide'
  BY <1>1, <1>2, <1>6 DEF ClientSide, IInv, ReadVersion
<1>8. NotedWhenRead'
  BY <1>2 DEF IInv, NotedWhenRead
<1> QED BY <1>5, <1>7, <1>8 DEF Talks

-----------------------------------------------------------------------------
(* A step of the server's goroutine of k is none of the other connections' *)
(* business: what is left to show is what becomes of k.                    *)
LEMMA ServerStepFrame ==
  ASSUME IInv, NEW k \in Conns, UNCHANGED <<client, world>>,
         \A j \in Conns \ {k} : /\ UNCHANGED <<spc[j], sv2[j], toServer[j], toClient[j]>>
                                /\ (j \in sPeer' <=> j \in sPeer),
         Awaited(k)',
         k = cconn => ClientSide',
         /\ spc'[k] \in Shaking => k \notin sPeer'
         /\ spc'[k] = "linked" => (k \in sPeer' <=> sv2'[k])
  PROVE  Talks'
<1>1. ServerSide'
  <2>1. ASSUME NEW j \in Conns \ {k} PROVE Awaited(j)'
    BY ServerFrame DEF IInv, ServerSide, world
  <2> QED BY <2>1 DEF ServerSide
<1>2. ClientSide'
  <2>1. CASE cconn \in Conns \ {k}
    <3>1. cconn' = cconn /\ UNCHANGED <<spc[cconn], sv2[cconn], toServer[cconn], toClient[cconn]>>
      BY <2>1 DEF client
    <3> QED BY <3>1, ClientFrame DEF IInv, world
  <2>2. CASE cconn \notin Conns
    <3>1. cpc \in {"dial", "redial"} /\ cconn = NoConn
      BY <2>2, Holding DEF IInv, TypeOK
    <3>2. ~astray
      BY <2>2 DEF IInv, ClientSide
    <3> QED BY <3>1, <3>2 DEF IInv, ClientSide, client, world
  <2> QED BY <2>1, <2>2
<1>3. NotedWhenRead'
  BY DEF IInv, NotedWhenRead
<1> QED BY <1>1, <1>2, <1>3 DEF Talks

(* The goroutine ends: what it sent is left to be read.                    *)
LEMMA ServerQuits ==
  ASSUME IInv, NEW k \in Conns, Goto(k, "none"), UNCHANGED <<client, world, sv2, sPeer>>,
         UNCHANGED toClient,
         \A j \in Conns \ {k} : toServer'[j] = toServer[j]
  PROVE  Talks'
<1>1. spc'[k] = "none" /\ \A j \in Conns \ {k} : spc'[j] = spc[j]
  BY DEF Goto, IInv, TypeOK
<1>2. Awaited(k)'
  BY <1>1 DEF Awaited
<1>3. ASSUME k = cconn PROVE ClientSide'
  BY <1>1, <1>3 DEF IInv, ClientSide, Outside, Challenged, Judged, Greeted, Joined, Welcome, client, world
<1>4. "none" \notin Shaking
  BY DEF Shaking
<1> QED BY <1>1, <1>2, <1>3, <1>4, ServerStepFrame

(* The server's end of a stealth connection takes the salt.                 *)
LEMMA SaltStep == ASSUME IInv, NEW k \in Conns, Salt(k) PROVE Talks'
<1>1. /\ spc[k] = "salt" /\ spc'[k] = "magic" /\ \A j \in Conns \ {k} : spc'[j] = spc[j]
      /\ UNCHANGED <<client, sv2, sPeer, toServer, toClient, world>>
  BY DEF Salt, Goto, IInv, TypeOK, wire
<1>2. Awaited(k)'
  BY <1>1 DEF Awaited, IInv, ServerSide, world
<1>3. ASSUME k = cconn PROVE ClientSide'
  BY <1>1, <1>3 DEF IInv, ClientSide, Outside, Challenged, Judged, Greeted, Joined, client, world
<1>4. k \notin sPeer
  BY <1>1 DEF IInv, NotedWhenRead, Shaking
<1> QED BY <1>1, <1>2, <1>3, <1>4, ServerStepFrame

(* The server challenges who says the magic.                                *)
LEMMA ReadMagicStep == ASSUME IInv, NEW k \in Conns, ReadMagic(k) PROVE Talks'
<1>1. PICK msg \in {"magicV1", "magicV2", "junk"} :
        /\ FromPeer(k, msg)
        /\ IF Understood(msg)
             THEN /\ Goto(k, "proof")
                  /\ sv2' = [sv2 EXCEPT ![k] = SpeaksV2(msg)]
                  /\ Send(k, <<"challenge">>)
             ELSE Goto(k, "none") /\ UNCHANGED <<sv2, toClient>>
  BY DEF ReadMagic
<1>2. /\ spc[k] = "magic" /\ toServer' = [toServer EXCEPT ![k] = Tail(@)]
      /\ UNCHANGED <<client, sPeer, world>>
  BY DEF ReadMagic, Consumed
<1>3. \A j \in Conns \ {k} : toServer'[j] = toServer[j]
  BY <1>2 DEF IInv, TypeOK
<1>4. CASE ~Understood(msg)
  BY <1>1, <1>2, <1>3, <1>4, ServerQuits
<1>5. CASE Understood(msg)
  <2>1. PICK b \in BOOLEAN : toServer[k] = Magic(b) /\ k \notin stray
    <3>1. toServer[k] # <<>> /\ toServer[k] # <<"junk">>
      BY <1>1, <1>5, Words DEF FromPeer, Understood
    <3> QED BY <1>2, <3>1 DEF IInv, ServerSide, Awaited
  <2>2. toServer'[k] = <<>> /\ SpeaksV2(msg) = b
    BY <1>1, <1>2, <2>1, Words DEF Magic, FromPeer, SpeaksV2, IInv, TypeOK
  <2>3. /\ spc'[k] = "proof" /\ sv2'[k] = b
        /\ \A j \in Conns \ {k} : UNCHANGED <<spc[j], sv2[j], toClient[j]>>
    BY <1>1, <1>5, <2>2 DEF Goto, Send, IInv, TypeOK
  <2>4. toClient[k] = <<>> => toClient'[k] = <<"challenge">>
    BY <1>1, <1>5, Words DEF Send, IInv, TypeOK
  <2>5. Awaited(k)'
    BY <1>2, <2>1, <2>2, <2>3 DEF Awaited, world
  <2>6. ASSUME k = cconn PROVE ClientSide'
    <3>1. cpc = "challenge" /\ toServer[k] = Magic(v2) /\ toClient[k] = <<>>
      <4>1. cpc \notin {"dial", "redial"}
        BY <2>6, NoConnAssumption DEF IInv, ClientSide
      <4>2. ~Judged(k) /\ ~Greeted(k) /\ ~Joined(k)
        BY <1>2 DEF Judged, Greeted, Joined
      <4>3. Challenged(k) /\ cpc = "challenge"
        BY <1>2, <2>6, <4>1, <4>2, Reached DEF IInv, ClientSide, TypeOK
      <4> QED BY <1>2, <4>3 DEF Challenged
    <3>2. b = v2
      BY <2>1, <3>1, Words DEF Magic, IInv, TypeOK
    <3>3. Challenged(k)'
      BY <1>2, <2>2, <2>3, <2>4, <3>1, <3>2 DEF Challenged, client
    <3> QED BY <1>2, <2>6, <3>1, <3>3, Reached DEF ClientSide, IInv, client, world
  <2>7. k \notin sPeer
    BY <1>2 DEF IInv, NotedWhenRead, Shaking
  <2> QED BY <1>2, <1>3, <2>3, <2>5, <2>6, <2>7, ServerStepFrame
<1> QED BY <1>4, <1>5

(* The server accepts a proof of its own token and no other.                *)
LEMMA ReadProofStep == ASSUME IInv, NEW k \in Conns, ReadProof(k) PROVE Talks'
<1>1. PICK msg \in {"goodProof", "badProof"} :
        /\ FromPeer(k, msg)
        /\ CASE ~GoodProof(msg) -> Goto(k, "none") /\ Send(k, <<"fail">>)
             [] GoodProof(msg) /\ sv2[k] -> Goto(k, "version") /\ Send(k, <<"ok", "version">>)
             [] OTHER -> Goto(k, "linked") /\ Send(k, <<"ok">>)
  BY DEF ReadProof
<1>2. /\ spc[k] = "proof" /\ toServer' = [toServer EXCEPT ![k] = Tail(@)]
      /\ UNCHANGED <<client, sv2, sPeer, world>>
  BY DEF ReadProof, Consumed
<1>3. toServer[k] = <<Proof>> /\ k \notin stray /\ k \notin sPeer
  <2>1. toServer[k] # <<>>
    BY <1>1 DEF FromPeer
  <2> QED BY <1>2, <2>1 DEF IInv, ServerSide, Awaited, NotedWhenRead, Shaking
<1>4. msg = Proof /\ toServer'[k] = <<>> /\ (GoodProof(msg) <=> sameToken)
  BY <1>1, <1>2, <1>3, Words DEF FromPeer, Proof, GoodProof, IInv, TypeOK
<1>5. \A j \in Conns \ {k} : toServer'[j] = toServer[j]
  BY <1>2 DEF IInv, TypeOK
<1> DEFINE place  == IF ~sameToken THEN "none" ELSE IF sv2[k] THEN "version" ELSE "linked"
           answer == IF ~sameToken THEN <<"fail">> ELSE IF sv2[k] THEN <<"ok", "version">> ELSE <<"ok">>
<1>6. Goto(k, place) /\ Send(k, answer)
  <2>1. CASE ~sameToken
    BY <1>1, <1>4, <2>1
  <2>2. CASE sameToken /\ sv2[k]
    BY <1>1, <1>4, <2>2
  <2>3. CASE sameToken /\ ~sv2[k]
    BY <1>1, <1>4, <2>3
  <2> QED BY <2>1, <2>2, <2>3
<1>7. /\ spc'[k] = place /\ toClient' = [toClient EXCEPT ![k] = @ \o answer]
      /\ \A j \in Conns \ {k} : UNCHANGED <<spc[j], toClient[j]>>
  BY <1>6 DEF Goto, Send, IInv, TypeOK
<1>8. toClient[k] = <<>> => toClient'[k] = answer
  BY <1>7, Words DEF IInv, TypeOK
<1>9. Awaited(k)'
  BY <1>2, <1>3, <1>4, <1>7 DEF Awaited, world
<1>10. ASSUME k = cconn PROVE ClientSide'
  <2>1. cpc = "status" /\ toClient[k] = <<>> /\ sv2[k] = v2
    <3>1. cpc \notin {"dial", "redial"}
      BY <1>10, NoConnAssumption DEF IInv, ClientSide
    <3>2. ~Challenged(k) /\ ~Greeted(k) /\ ~Joined(k)
      BY <1>2, <1>3, Words DEF Challenged, Greeted, Joined
    <3>3. Judged(k) /\ cpc = "status"
      BY <1>2, <1>10, <3>1, <3>2, Reached DEF IInv, ClientSide, TypeOK
    <3> QED BY <1>2, <3>3 DEF Judged
  <2>2. Judged(k)'
    BY <1>2, <1>4, <1>7, <1>8, <2>1 DEF Judged, Welcome, client, world
  <2> QED BY <1>2, <1>10, <2>1, <2>2, Reached DEF ClientSide, IInv, client, world
<1>11. /\ spc'[k] \in Shaking => k \notin sPeer'
       /\ spc'[k] = "linked" => (k \in sPeer' <=> sv2'[k])
  BY <1>2, <1>3, <1>7
<1>12. \A j \in Conns \ {k} : /\ UNCHANGED <<spc[j], sv2[j], toServer[j], toClient[j]>>
                             /\ (j \in sPeer' <=> j \in sPeer)
  BY <1>2, <1>5, <1>7
<1> QED BY <1>2, <1>9, <1>10, <1>11, <1>12, ServerStepFrame

(* The server is linked once it has the client's version.                   *)
LEMMA ReadPeerVersionStep == ASSUME IInv, NEW k \in Conns, ReadPeerVersion(k) PROVE Talks'
<1>1. /\ spc[k] = "version" /\ toServer[k] # <<>> /\ Goto(k, "linked")
      /\ toServer' = [toServer EXCEPT ![k] = Tail(@)]
      /\ sPeer' = sPeer \cup {k} /\ UNCHANGED <<client, sv2, toClient, world>>
  BY DEF ReadPeerVersion, Consumed, FromPeer
<1>2. toServer[k] = <<"version">> /\ k \notin stray /\ sameToken /\ sv2[k]
  BY <1>1 DEF IInv, ServerSide, Awaited
<1>3. /\ spc'[k] = "linked" /\ toServer'[k] = <<>>
      /\ \A j \in Conns \ {k} : UNCHANGED <<spc[j], toServer[j]>>
  BY <1>1, <1>2, Words DEF Goto, IInv, TypeOK
<1>4. Awaited(k)'
  BY <1>1, <1>2, <1>3 DEF Awaited, world
<1>5. ASSUME k = cconn PROVE ClientSide'
  <2>1. cpc \notin {"dial", "redial"}
    BY <1>5, NoConnAssumption DEF IInv, ClientSide
  <2>2. ~Challenged(k) /\ ~Judged(k) /\ ~Greeted(k)
    BY <1>1, <1>2 DEF Challenged, Judged, Greeted
  <2>3. Joined(k) /\ cpc = "linked"
    BY <1>1, <1>5, <2>1, <2>2, Reached DEF IInv, ClientSide, TypeOK
  <2>4. Joined(k)'
    BY <1>1, <1>2, <1>3, <2>3 DEF Joined, client, world
  <2> QED BY <1>1, <1>5, <2>3, <2>4, Reached DEF ClientSide, IInv, client, world
<1>6. "linked" \notin Shaking
  BY DEF Shaking
<1> QED BY <1>1, <1>2, <1>3, <1>4, <1>5, <1>6, ServerStepFrame

-----------------------------------------------------------------------------
(* A stray peer gets a connection that nobody uses, and puts junk on it.   *)
LEMMA StrayCallsStep == ASSUME IInv, NEW k \in Conns, StrayCalls(k) PROVE Talks'
<1>1. PICK sent \in {<<>>, <<"junk">>} : Accept(k, sent)
  BY DEF StrayCalls
<1>2. UNCHANGED <<client, sameToken>> /\ stray' = stray \cup {k} /\ k # cconn
  BY <1>1 DEF StrayCalls, Accept, Free
<1>3. spc'[k] \in {"salt", "magic"} /\ toServer'[k] = sent /\ k \notin sPeer'
  BY <1>1 DEF Accept, IInv, TypeOK
<1>4. \A j \in Conns \ {k} : /\ UNCHANGED <<spc[j], sv2[j], toServer[j], toClient[j]>>
                            /\ (j \in sPeer' <=> j \in sPeer) /\ (j \in stray' <=> j \in stray)
  BY <1>1, <1>2 DEF Accept, IInv, TypeOK
<1>5. ServerSide'
  <2>1. Awaited(k)'
    BY <1>3 DEF Awaited
  <2>2. ASSUME NEW j \in Conns \ {k} PROVE Awaited(j)'
    BY <1>2, <1>4, ServerFrame DEF IInv, ServerSide
  <2> QED BY <2>1, <2>2 DEF ServerSide
<1>6. ClientSide'
  <2>1. CASE cconn \in Conns
    <3>1. cconn' = cconn /\ UNCHANGED <<spc[cconn], sv2[cconn], toServer[cconn], toClient[cconn]>>
      BY <1>2, <1>4, <2>1 DEF client
    <3> QED BY <1>2, <3>1, ClientFrame DEF IInv, client
  <2>2. CASE cconn \notin Conns
    <3>1. cpc \in {"dial", "redial"} /\ cconn = NoConn
      BY <2>2, Holding DEF IInv, TypeOK
    <3> QED BY <1>2, <2>2, <3>1 DEF IInv, ClientSide, client
  <2> QED BY <2>1, <2>2
<1>7. NotedWhenRead'
  BY <1>3, <1>4 DEF IInv, NotedWhenRead
<1> QED BY <1>5, <1>6, <1>7 DEF Talks

(* What else happens in the world changes nothing between the ends, but    *)
(* for the update, which ends all of the server's goroutines.              *)
LEMMA WorldStep ==
  ASSUME IInv, UNCHANGED <<client, sv2, sPeer, toServer, toClient, sameToken>>, stray' \subseteq stray,
         UNCHANGED spc \/ spc' = [k \in Conns |-> "none"]
  PROVE  Talks'
<1>1. CASE UNCHANGED spc
  <2>1. ServerSide' /\ NotedWhenRead'
    BY <1>1, ServerFrame DEF IInv, ServerSide, NotedWhenRead
  <2>2. ClientSide'
    BY <1>1 DEF IInv, ClientSide, Outside, Challenged, Judged, Greeted, Joined, Proof, Welcome, client
  <2> QED BY <2>1, <2>2 DEF Talks
<1>2. CASE spc' = [k \in Conns |-> "none"]
  <2>1. ServerSide' /\ NotedWhenRead'
    BY <1>2 DEF ServerSide, Awaited, NotedWhenRead, Shaking
  <2>2. cpc \notin {"dial", "redial"} => spc'[cconn] = "none"
    BY <1>2, Holding DEF IInv, TypeOK
  <2>3. ClientSide'
    BY <2>2 DEF IInv, ClientSide, Outside, Challenged, Judged, Greeted, Joined, Welcome, client
  <2> QED BY <2>1, <2>3 DEF Talks
<1> QED BY <1>1, <1>2

(* Every step of either end and of the network keeps it.                    *)
LEMMA InvStep == IInv /\ [Next]_vars => IInv'
<1> SUFFICES ASSUME IInv, [Next]_vars PROVE Talks'
  BY TypeStep DEF IInv, Talks
<1>1. ASSUME NEW k \in Conns, Dial(k) \/ Redial(k) PROVE Talks'
  BY <1>1, DialStep
<1>2. CASE RedialFails \/ ChallengeFails \/ LaterReadFails \/ LinkEnds
  BY <1>2, HangUpStep DEF RedialFails, ChallengeFails, LaterReadFails, LinkEnds, HangUp, wire
<1>3. CASE ReadChallenge \/ ReadStatus \/ ReadVersion
  BY <1>3, ReadChallengeStep, ReadStatusStep, ReadVersionStep
<1>4. ASSUME NEW k \in Conns, Salt(k) \/ ReadMagic(k) \/ ReadProof(k) \/ ReadPeerVersion(k) PROVE Talks'
  BY <1>4, SaltStep, ReadMagicStep, ReadProofStep, ReadPeerVersionStep
<1>5. ASSUME NEW k \in Conns, ShakeFails(k) \/ PeerLeaves(k) PROVE Talks'
  BY <1>5, ServerQuits DEF ShakeFails, PeerLeaves, wire
<1>6. ASSUME NEW k \in Conns, StrayCalls(k) PROVE Talks'
  BY <1>6, StrayCallsStep
<1>7. ASSUME NEW k \in Conns, StrayLeaves(k) \/ Reset(k) PROVE Talks'
  BY <1>7, WorldStep DEF StrayLeaves, Reset, server, wire, world
<1>8. CASE Update \/ Stabilize \/ UNCHANGED vars
  BY <1>8, WorldStep DEF Update, Stabilize, vars, client, server, wire
<1> QED BY <1>1, <1>2, <1>3, <1>4, <1>5, <1>6, <1>7, <1>8 DEF Next, ClientStep, ServerStep

(* What is under way between the ends matches what they believe, on every  *)
(* connection, through fallbacks, resets, updates and stray peers.         *)
THEOREM Invariant == Spec => []IInv
BY InvInit, InvStep, PTL DEF Spec

(* The state of the handshake always has its type, the messages in flight  *)
(* included.                                                               *)
THEOREM TypeCorrect == Spec => []TypeOK
<1>1. IInv => TypeOK BY DEF IInv
<1> QED BY <1>1, Invariant, PTL

(* For any number of connections, neither end takes a link for             *)
(* authenticated unless both have the same token, and no stray peer is     *)
(* ever taken for a client.                                                *)
THEOREM OnlyTheTokenLinks == Spec => []TokenDecides
<1>1. IInv => TokenDecides
  <2> SUFFICES ASSUME IInv PROVE TokenDecides
    OBVIOUS
  <2>1. cpc = "linked" /\ ~astray => sameToken
    BY DEF IInv, ClientSide, Joined
  <2>2. \A k \in Conns : spc[k] = "linked" => sameToken /\ k \notin stray
    BY DEF IInv, ServerSide, Awaited
  <2> QED BY <2>1, <2>2 DEF TokenDecides
<1> QED BY <1>1, Invariant, PTL

(* For any number of connections, two ends that are done with a connection *)
(* agree on its version and on what each knows of the other's, and neither *)
(* has left a byte of the handshake in the stream.                         *)
THEOREM EndsAgree == Spec => []CleanAgreement
<1>1. IInv => CleanAgreement
  <2> SUFFICES ASSUME IInv PROVE CleanAgreement
    OBVIOUS
  <2>1. Agreement
    <3> SUFFICES ASSUME cpc = "linked", spc[cconn] # "none"
                 PROVE  /\ spc[cconn] \in {"version", "linked"}
                        /\ v2 = sv2[cconn] /\ cPeer = v2
                        /\ spc[cconn] = "linked" => (cconn \in sPeer <=> v2)
      BY DEF Agreement
    <3>1. cconn \in Conns /\ Joined(cconn)
      BY Holding, Reached DEF IInv, ClientSide
    <3>2. spc[cconn] = "linked" => (cconn \in sPeer <=> sv2[cconn])
      BY <3>1 DEF IInv, NotedWhenRead
    <3> QED BY <3>1, <3>2 DEF Joined, IInv, TypeOK
  <2>2. CleanStream
    BY DEF IInv, ClientSide, Outside, Joined, ServerSide, Awaited, CleanStream
  <2> QED BY <2>1, <2>2 DEF CleanAgreement
<1> QED BY <1>1, Invariant, PTL
=============================================================================
