------------------------------ MODULE Handshake -----------------------------
(***************************************************************************)
(* The token handshake of src/internal/protocol/protocol.go in both        *)
(* versions, the client that dials, falls back to version 1 and redials    *)
(* (dialAuthenticated in src/internal/client/client.go), and the server's  *)
(* goroutine per connection (onLink in src/internal/server/server.go).     *)
(*                                                                         *)
(* A connection carries a queue of messages each way; what one end wrote   *)
(* before it closed can still be read.  Whether a proof is good depends on *)
(* the token alone, since the challenge is answered on the connection it   *)
(* was issued on; a version is a message whose text does not matter.  On   *)
(* the stealth transport the server's first read runs the salt exchange of *)
(* src/internal/transport/stealth.go, which sets and clears a deadline of  *)
(* its own on the same connection.  The version-1-only server is an older  *)
(* build, known from what the client does about it.  The address the       *)
(* client dials may also lead to something that is not the server and      *)
(* answers like one: the client asks it for no proof of the token.         *)
(***************************************************************************)
EXTENDS Sequences

CONSTANTS
  Conns,    \* connections, taken up again once both ends are closed
  NoConn    \* nil net.Conn

ASSUME NoConnAssumption == NoConn \notin Conns

VARIABLES
  cpc,        \* where the client is in dialAuthenticated
  cconn,      \* the connection it uses
  v2,         \* the version it announced on cconn
  useV1,      \* c.useV1
  cPeer,      \* the client has been told the server's version
  astray,     \* what it has reached on cconn is not the server
  spc,        \* where the server's goroutine of a connection is
  sv2,        \* the version of the handshake it runs
  sPeer,      \* connections whose client has told the server its version
  armed,      \* connections with a deadline set at the server
  toServer, toClient,  \* messages in flight
  cut,        \* connections that are reset
  stealth,    \* the stealth transport is used
  stray,      \* connections of something that is not a client
  build,      \* the server's version of the protocol
  sameToken,  \* both ends are configured with the same token
  stable      \* from now on nothing fails, is late or leads astray

client == <<cpc, cconn, v2, useV1, cPeer, astray>>
server == <<spc, sv2, sPeer, armed>>
wire == <<toServer, toClient, cut>>
world == <<stealth, stray, build, sameToken, stable>>
vars == <<cpc, cconn, v2, useV1, cPeer, astray, spc, sv2, sPeer, armed,
          toServer, toClient, cut, stealth, stray, build, sameToken, stable>>

Messages == {"magicV1", "magicV2", "junk", "challenge", "goodProof",
             "badProof", "ok", "fail", "version"}

TypeOK ==
  /\ cpc \in {"dial", "redial", "challenge", "status", "version", "linked"}
  /\ cconn \in Conns \cup {NoConn}
  /\ v2 \in BOOLEAN /\ useV1 \in BOOLEAN
  /\ cPeer \in BOOLEAN /\ astray \in BOOLEAN
  /\ spc \in [Conns -> {"none", "salt", "magic", "proof", "version", "linked"}]
  /\ sv2 \in [Conns -> BOOLEAN]
  /\ sPeer \subseteq Conns /\ armed \subseteq Conns
  /\ toServer \in [Conns -> Seq(Messages)]
  /\ toClient \in [Conns -> Seq(Messages)]
  /\ cut \subseteq Conns /\ stray \subseteq Conns
  /\ stealth \in BOOLEAN
  /\ build \in {"v1", "v2"}
  /\ sameToken \in BOOLEAN /\ stable \in BOOLEAN

Init ==
  /\ cpc = "dial" /\ cconn = NoConn /\ v2 = TRUE /\ useV1 = FALSE /\ cPeer = FALSE
  /\ astray = FALSE
  /\ spc = [k \in Conns |-> "none"]
  /\ sv2 = [k \in Conns |-> FALSE]
  /\ sPeer = {} /\ armed = {}
  /\ toServer = [k \in Conns |-> <<>>]
  /\ toClient = [k \in Conns |-> <<>>]
  /\ cut = {} /\ stray = {}
  /\ stealth \in BOOLEAN
  /\ build \in {"v1", "v2"}
  /\ sameToken \in BOOLEAN
  /\ stable = FALSE

Shaking == {"salt", "magic", "proof", "version"}

Free(k) == spc[k] = "none" /\ cconn # k /\ k \notin stray

(* The listener accepts k, on which the peer has sent a message. *)
Accept(k, sent) ==
  /\ Free(k)
  /\ spc' = [spc EXCEPT ![k] = IF stealth THEN "salt" ELSE "magic"]
  /\ armed' = armed \cup {k}
  /\ sPeer' = sPeer \ {k}
  /\ toServer' = [toServer EXCEPT ![k] = sent]
  /\ toClient' = [toClient EXCEPT ![k] = <<>>]
  /\ cut' = cut \ {k}
  /\ UNCHANGED sv2

-----------------------------------------------------------------------------
(* The client. *)

(* What is not the server may say whatever the client waits for, and takes *)
(* what it is told.  Once stable, it says no more.                         *)
FromServer(msg) ==
  \/ astray /\ ~stable
  \/ toClient[cconn] # <<>> /\ Head(toClient[cconn]) = msg

Received ==
  IF astray THEN UNCHANGED toClient
  ELSE toClient' = [toClient EXCEPT ![cconn] = Tail(@)]

Reply(msg) ==
  IF astray THEN UNCHANGED toServer
  ELSE toServer' = [toServer EXCEPT ![cconn] = Append(@, msg)]

(* A read fails: the deadline passed, the connection was reset, or the     *)
(* server closed it and everything it sent has been read.                  *)
ReadFails ==
  \/ ~stable
  \/ cconn \in cut
  \/ spc[cconn] = "none" /\ toClient[cconn] = <<>>

(* The connection is closed; the reconnect loop dials again. *)
HangUp ==
  /\ cpc' = "dial"
  /\ cconn' = NoConn
  /\ astray' = FALSE
  /\ UNCHANGED <<v2, useV1, cPeer>>

\* The magic does not say which version it announces.
SlipMagic(version2) == <<"magic">>

Magic(version2) == <<IF version2 THEN "magicV2" ELSE "magicV1">>

(* The connection the client gets leads to something else.                *)
Elsewhere(k) ==
  /\ ~stable
  /\ Free(k)
  /\ toServer' = [toServer EXCEPT ![k] = <<>>]
  /\ toClient' = [toClient EXCEPT ![k] = <<>>]
  /\ cut' = cut \ {k}
  /\ UNCHANGED server

(* A new connection is used for a handshake in the given version.         *)
Start(k, version2) ==
  /\ \/ Accept(k, Magic(version2)) /\ astray' = FALSE
     \/ Elsewhere(k) /\ astray' = TRUE
  /\ cpc' = "challenge"
  /\ cconn' = k
  /\ v2' = version2
  /\ cPeer' = FALSE
  /\ UNCHANGED <<useV1, world>>

Dial(k) == cpc = "dial" /\ Start(k, ~useV1)

(* The second attempt of the same call, in version 1. *)
Redial(k) == cpc = "redial" /\ Start(k, FALSE)

RedialFails ==
  /\ cpc = "redial"
  /\ ~stable
  /\ HangUp
  /\ UNCHANGED <<server, wire, world>>

ReadChallenge ==
  /\ cpc = "challenge"
  /\ FromServer("challenge")
  /\ Received
  /\ Reply(IF sameToken THEN "goodProof" ELSE "badProof")
  /\ cpc' = "status"
  /\ UNCHANGED <<cconn, v2, useV1, cPeer, astray, server, cut, world>>

\* The client does not fall back.
SlipChallengeFails ==
  /\ cpc = "challenge"
  /\ ReadFails
  /\ HangUp
  /\ UNCHANGED <<server, wire, world>>

(* No challenge comes: after a version 2 magic the server is taken for a   *)
(* version 1 build.                                                        *)
ChallengeFails ==
  /\ cpc = "challenge"
  /\ ReadFails
  /\ IF v2 THEN /\ cpc' = "redial"
                /\ cconn' = NoConn
                /\ useV1' = TRUE
                /\ astray' = FALSE
                /\ UNCHANGED <<v2, cPeer>>
           ELSE HangUp
  /\ UNCHANGED <<server, wire, world>>

(* A version 1 handshake ends with the status, which the client takes from *)
(* whatever it has reached.                                                *)
ReadStatus ==
  /\ cpc = "status"
  /\ \/ /\ FromServer("ok")
        /\ cpc' = IF v2 THEN "version" ELSE "linked"
        /\ UNCHANGED <<cconn, v2, useV1, cPeer, astray>>
     \/ FromServer("fail") /\ HangUp
  /\ Received
  /\ UNCHANGED <<toServer, cut, server, world>>

ReadVersion ==
  /\ cpc = "version"
  /\ FromServer("version")
  /\ Received
  /\ Reply("version")
  /\ cpc' = "linked"
  /\ cPeer' = TRUE
  /\ UNCHANGED <<cconn, v2, useV1, astray, cut, server, world>>

LaterReadFails ==
  /\ cpc \in {"status", "version"}
  /\ ReadFails
  /\ HangUp
  /\ UNCHANGED <<server, wire, world>>

(* The link is lost after the handshake. *)
LinkEnds ==
  /\ cpc = "linked"
  /\ ReadFails
  /\ HangUp
  /\ UNCHANGED <<server, wire, world>>

-----------------------------------------------------------------------------
(* The server's goroutine of a connection. *)

FromPeer(k, msg) == toServer[k] # <<>> /\ Head(toServer[k]) = msg
Consumed(k) == toServer' = [toServer EXCEPT ![k] = Tail(@)]
Send(k, msgs) == toClient' = [toClient EXCEPT ![k] = @ \o msgs]
Goto(k, place) == spc' = [spc EXCEPT ![k] = place]

(* The salt exchange of the first read; on its way out it clears the       *)
(* deadline ServerHandshake has set.                                       *)
Salt(k) ==
  /\ spc[k] = "salt"
  /\ Goto(k, "magic")
  /\ armed' = armed \ {k}
  /\ UNCHANGED <<client, sv2, sPeer, wire, world>>

\* A version 1 client is answered as a version 2 client.
SlipSpeaksV2(msg) == TRUE

SpeaksV2(msg) == msg = "magicV2"

Understood(msg) ==
  \/ msg = "magicV1"
  \/ msg = "magicV2" /\ build = "v2"

(* An unrecognised peer gets no signal at all. *)
ReadMagic(k) ==
  /\ spc[k] = "magic"
  /\ \E msg \in {"magicV1", "magicV2", "junk"} :
       /\ FromPeer(k, msg)
       /\ IF Understood(msg)
            THEN /\ Goto(k, "proof")
                 /\ sv2' = [sv2 EXCEPT ![k] = SpeaksV2(msg)]
                 /\ Send(k, <<"challenge">>)
            ELSE Goto(k, "none") /\ UNCHANGED <<sv2, toClient>>
  /\ Consumed(k)
  /\ UNCHANGED <<client, sPeer, armed, cut, world>>

\* The proof is not looked at.
SlipGoodProof(msg) == TRUE

GoodProof(msg) == msg = "goodProof"

(* After a good proof the status goes out, and in version 2 the server's   *)
(* version right after it.                                                 *)
ReadProof(k) ==
  /\ spc[k] = "proof"
  /\ \E msg \in {"goodProof", "badProof"} :
       /\ FromPeer(k, msg)
       /\ CASE ~GoodProof(msg) -> Goto(k, "none") /\ Send(k, <<"fail">>)
            [] GoodProof(msg) /\ sv2[k] ->
                 Goto(k, "version") /\ Send(k, <<"ok", "version">>)
            [] OTHER -> Goto(k, "linked") /\ Send(k, <<"ok">>)
  /\ Consumed(k)
  /\ UNCHANGED <<client, sv2, sPeer, armed, cut, world>>

ReadPeerVersion(k) ==
  /\ spc[k] = "version"
  /\ FromPeer(k, "version")
  /\ Consumed(k)
  /\ Goto(k, "linked")
  /\ sPeer' = sPeer \cup {k}
  /\ UNCHANGED <<client, sv2, armed, toClient, cut, world>>

(* The peer has closed its end, and everything it sent has been read. *)
AtEOF(k) == cconn # k /\ k \notin stray /\ toServer[k] = <<>>

\* Nobody sets a deadline.
SlipTimesOut(k) == FALSE

(* The deadline passes while the peer is silent. *)
TimesOut(k) ==
  /\ k \in armed
  /\ stable => k \in stray /\ toServer[k] = <<>>

(* A read or a write of the handshake fails; onLink closes the connection. *)
ShakeFails(k) ==
  /\ spc[k] \in Shaking
  /\ k \in cut \/ AtEOF(k) \/ TimesOut(k)
  /\ Goto(k, "none")
  /\ UNCHANGED <<client, sv2, sPeer, armed, wire, world>>

PeerLeaves(k) ==
  /\ spc[k] = "linked"
  /\ k \in cut \/ AtEOF(k)
  /\ Goto(k, "none")
  /\ UNCHANGED <<client, sv2, sPeer, armed, wire, world>>

-----------------------------------------------------------------------------
(* The world. *)

(* Something else connects, and sends four bytes or nothing.  The bound:   *)
(* it leaves one connection free, since a real listener has no end of      *)
(* them.                                                                   *)
StrayCalls(k) ==
  /\ \E j \in Conns \ {k} : Free(j)
  /\ \E sent \in {<<>>, <<"junk">>} : Accept(k, sent)
  /\ stray' = stray \cup {k}
  /\ UNCHANGED <<client, stealth, build, sameToken, stable>>

StrayLeaves(k) ==
  /\ k \in stray
  /\ stray' = stray \ {k}
  /\ UNCHANGED <<client, server, wire, stealth, build, sameToken, stable>>

Reset(k) ==
  /\ ~stable
  /\ ~Free(k) /\ k \notin cut
  /\ cut' = cut \cup {k}
  /\ UNCHANGED <<client, server, toServer, toClient, world>>

(* The server is updated: it restarts with another build. *)
Update ==
  /\ build = "v1"
  /\ build' = "v2"
  /\ spc' = [k \in Conns |-> "none"]
  /\ UNCHANGED <<client, sv2, sPeer, armed, wire, stealth, stray, sameToken, stable>>

Stabilize ==
  /\ ~stable
  /\ stable' = TRUE
  /\ UNCHANGED <<client, server, wire, stealth, stray, build, sameToken>>

ClientStep ==
  \/ \E k \in Conns : Dial(k) \/ Redial(k)
  \/ RedialFails
  \/ ReadChallenge \/ ChallengeFails
  \/ ReadStatus \/ ReadVersion \/ LaterReadFails
  \/ LinkEnds

ServerStep(k) ==
  \/ Salt(k) \/ ReadMagic(k) \/ ReadProof(k) \/ ReadPeerVersion(k)
  \/ ShakeFails(k)
  \/ PeerLeaves(k)

Next ==
  \/ ClientStep
  \/ \E k \in Conns :
       ServerStep(k) \/ StrayCalls(k) \/ StrayLeaves(k) \/ Reset(k)
  \/ Update
  \/ Stabilize

Spec == Init /\ [][Next]_vars

(* Goroutines run and deadlines that are set pass.  Nothing makes a stray  *)
(* peer, or what the client has reached by mistake, speak or leave.        *)
Fairness == WF_vars(ClientStep) /\ \A k \in Conns : WF_vars(ServerStep(k))

FairSpec == Spec /\ Fairness
-----------------------------------------------------------------------------
(* The token decides at the server: it takes no link for authenticated     *)
(* unless the client at the other end has the same token, whatever the     *)
(* versions, resets and fallbacks on the way, and takes no stray peer for  *)
(* a client.  It decides at the client only as far as the client has       *)
(* reached the server: the client believes the status that it reads, and   *)
(* links to anything else that sends one.                                  *)
TokenDecides ==
  /\ \A k \in Conns : spc[k] = "linked" => sameToken /\ k \notin stray
  /\ cpc = "linked" /\ ~astray => sameToken

(* The two ends agree when both are done: on the version of the handshake, *)
(* and on whether they told each other theirs.  The client is never done   *)
(* with a connection that the server still has doubts about.               *)
Agreement ==
  cpc = "linked" /\ spc[cconn] # "none" =>
    /\ spc[cconn] \in {"version", "linked"}
    /\ v2 = sv2[cconn] /\ cPeer = v2
    /\ spc[cconn] = "linked" => (cconn \in sPeer <=> v2)

(* The handshake leaves nothing behind in a link: when an end is done, no  *)
(* byte of the other end's handshake is unread, which the role or a target *)
(* would be read from.                                                     *)
CleanStream ==
  /\ cpc = "linked" => toClient[cconn] = <<>>
  /\ \A k \in Conns : spc[k] = "linked" => toServer[k] = <<>>

(* The ends agree on what they have said, and on where the link starts. *)
CleanAgreement == Agreement /\ CleanStream

(* Liveness: on the transports other than stealth no peer, silent or not,  *)
(* keeps a goroutine of the server in the handshake.                       *)
Freed(k) == spc[k] \in Shaking ~> spc[k] \notin Shaking
GoroutineFreed == ~stealth => \A k \in Conns : Freed(k)

(* Liveness: with the same token the ends link up whatever their versions, *)
(* also when the server is updated on the way.                             *)
MixedVersionsLink ==
  stable /\ sameToken ~> cpc = "linked" /\ spc[cconn] = "linked"

-----------------------------------------------------------------------------
(* What the documentation says and the code does not do. *)

(* protocol.go says that the timeout bounds the whole exchange, so that a  *)
(* silent peer cannot pin a goroutine open.  On the stealth transport the  *)
(* salt exchange, inside the first read of the handshake, clears the       *)
(* deadline.                                                               *)
AlwaysFreed == \A k \in Conns : Freed(k)
=============================================================================
