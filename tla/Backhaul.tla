------------------------------ MODULE Backhaul ------------------------------
(***************************************************************************)
(* The layer-3 tunnel of internal/backhaul between its two ends, over a    *)
(* carrier that loses frames: when an end shows its peer as present, which *)
(* address the server answers to, and what becomes of the echo replies of  *)
(* the kernel.                                                             *)
(*                                                                         *)
(* Time is counted in keepaliveIntervals, the period of both tickers.  All *)
(* raw carriers but ICMP behave alike and are called "raw" here; the TCP   *)
(* carrier, a single stream, is left out.  The server's host may run the   *)
(* server of another ICMP tunnel, with an identifier of its own, of which  *)
(* only what it does to the kernel's setting matters.                      *)
(***************************************************************************)
EXTENDS Naturals

CONSTANTS
    Server, Client,     \* the two ends
    Neighbour,          \* the server of another ICMP tunnel on the server's host
    None,               \* no address, and no frame
    Junk,               \* a frame of anything else, from elsewhere
    Carriers,           \* the carriers considered, of "udp", "icmp" and "raw"
    LinkTimeout         \* linkTimeout, in keepaliveIntervals

End == {Server, Client}
Other(e) == IF e = Server THEN Client ELSE Server

\* Of an address it only matters whether the client has it now.
Addr == {"client", "elsewhere"}

\* Of a frame it matters whose key has sealed it.
Frame == End \union {Junk}

\* The ICMP servers of the host.
Pingers == {Server, Neighbour}

ASSUME EndAssumption == Server # Client /\ Junk \notin End /\ Neighbour \notin End
ASSUME NoneAssumption == None \notin Frame \union Addr
ASSUME CarriersAssumption == Carriers \subseteq {"udp", "icmp", "raw"}
ASSUME TimeoutAssumption == LinkTimeout \in Nat \ {0}

VARIABLES
    \* What does not change: the configuration, and the host's at first.
    carrier,            \* cfg.Carrier
    sameToken,          \* whether the ends were given the same token
    found,              \* icmp_echo_ignore_all of the server's host
    shared,             \* whether that host has the other ICMP tunnel
    \* The ends.
    on,                 \* those that are running
    eng,                \* the engine at each end, see Fresh
    peer,               \* the client's address as the server's raw carrier is given it, or None
    dst,                \* where the server sends to: udpCarrier.peer, rawCarrier.dst
    echoIgnore,         \* icmp_echo_ignore_all of the server's host now
    restore,            \* the servers whose restoreEchoIgnore writes the old value back
    beside,             \* whether the neighbour runs
    \* The network.
    wire,               \* the frame under way to each end, or None
    stable,             \* from now on the network loses nothing
    \* What has happened.
    ran,                \* the ends that have ever run
    kept,               \* the ICMP server has made or found the kernel silent at its start,
                        \* and no neighbour has run since
    left                \* a server of the host has changed the setting and was killed, gave
                        \* up in newCarrier or could not write it back

config == <<carrier, sameToken, found, shared>>
host   == <<echoIgnore, restore, beside, kept, left>>
past   == <<ran>>
vars   == <<config, on, eng, peer, dst, host, wire, stable, past>>

\* What an engine knows, see Fresh.
Engine == [linked: BOOLEAN, heard: 0..LinkTimeout + 1, replied: BOOLEAN,
           stale: BOOLEAN, due: SUBSET {"keepalive", "watchdog"}]

TypeOK ==
    /\ carrier \in Carriers /\ sameToken \in BOOLEAN
    /\ found \in BOOLEAN /\ shared \in BOOLEAN
    /\ on \in SUBSET End
    /\ eng \in [End -> Engine]
    /\ peer \in Addr \union {None} /\ dst \in Addr \union {None}
    /\ echoIgnore \in BOOLEAN /\ restore \in SUBSET Pingers
    /\ beside \in BOOLEAN /\ kept \in BOOLEAN /\ left \in BOOLEAN
    /\ wire \in [End -> Frame \union {None}] /\ stable \in BOOLEAN
    /\ ran \in SUBSET End

-----------------------------------------------------------------------------
(* The engine and the carrier.                                             *)

\* An engine at the start of Run.  heard is the time since lastRecv, which stops
\* counting past the timeout; a lastRecv of 0 is as long ago as that.  stale says
\* that the watchdog has found the link stale and not yet called setLinked, due
\* holds the tickers that have fired.  keepaliveLoop sends its first keepalive
\* before its ticker.
Fresh == [linked |-> FALSE, heard |-> LinkTimeout + 1, replied |-> FALSE,
          stale |-> FALSE, due |-> {"keepalive"}]

\* No engine: its process has ended.
Ended == [Fresh EXCEPT !.due = {}]

\* linkStale
Stale(e) == eng[e].heard > LinkTimeout

\* A frame under another key is accepted.
SlipOpens(e, f) == f # Junk

\* Framer.Open.  The key depends on the token alone, so an end opens its own
\* frames too.
Opens(e, f) == f = e \/ (f = Other(e) /\ sameToken)

\* The address of f's sender.
From(f) == IF f = Client THEN "client" ELSE "elsewhere"

\* The first address learned is kept.
SlipLearnUDP(f) == IF dst = None THEN From(f) ELSE dst

\* udpCarrier.Receive: the server's destination follows whatever arrives.
LearnUDP(f) == From(f)

\* rawCarrier.Receive: what arrives sets the destination if there is none yet.
LearnRaw(f) == IF dst = None THEN From(f) ELSE dst

Learn(f) == IF carrier = "udp" THEN LearnUDP(f) ELSE LearnRaw(f)

\* A server sends without having a peer.
SlipSent(e, w, d) ==
    LET to == IF e = Client \/ d = "client" THEN Other(e) ELSE d
    IN  [x \in DOMAIN w \union {to} |-> IF x = to THEN e ELSE w[x]]

\* Seal and the carrier's Send: the wire w after e, if it is the server one that
\* sends to d, has sent a frame.  A server without a peer sends nothing, one with
\* the wrong peer sends into the void.
Sent(e, w, d) ==
    IF e = Client \/ d = "client" THEN [w EXCEPT ![Other(e)] = e] ELSE w

\* The wire once the frame to e has arrived.  The kernel of the server's host may
\* answer an echo request, with the payload and the identifier of the request.
Arrived(e) ==
    LET echoed == carrier = "icmp" /\ ~echoIgnore /\ e = Server /\ wire[e] = Client
    IN  IF echoed THEN [wire EXCEPT ![Server] = None, ![Client] = Client]
                  ELSE [wire EXCEPT ![e] = None]

\* suppressKernelEchoReplies, called by t's newCarrier: what it changes it will
\* write back.
Silenced(t) ==
    /\ echoIgnore' = TRUE
    /\ restore' = IF echoIgnore THEN restore ELSE restore \union {t}

\* The setting cannot be read or written: nothing is changed, and the server runs
\* with the kernel answering, if it does.
Refused == UNCHANGED <<echoIgnore, restore>>

\* Close leaves the setting alone.
SlipRestored(t) == echoIgnore

\* rawCarrier.Close of t: the echo setting after it.
Restored(t) == IF t \in restore THEN FALSE ELSE echoIgnore

\* Close ignores a failure to write.
GivesBack(t) ==
    /\ \/ echoIgnore' = Restored(t) /\ UNCHANGED left
       \/ t \in restore /\ left' = TRUE /\ UNCHANGED echoIgnore
    /\ restore' = restore \ {t}

\* The process of t ends without Close.
Forgets(t) ==
    /\ left' = (left \/ t \in restore)
    /\ restore' = restore \ {t}
    /\ UNCHANGED echoIgnore

-----------------------------------------------------------------------------
\* The bound on shared: the neighbour has no part in what the ends have of each
\* other, so one of their configurations is enough to have it beside, and one of
\* the host's in which it has something to change.
Init ==
    /\ carrier \in Carriers
    /\ sameToken \in BOOLEAN
    /\ found \in BOOLEAN /\ (found => carrier = "icmp")
    /\ on = {}
    /\ eng = [e \in End |-> Ended]
    /\ peer \in {"client", None} /\ (carrier = "udp" => peer = None)
    /\ shared \in BOOLEAN /\ (shared => carrier = "icmp" /\ ~found)
    /\ shared => sameToken /\ peer = None
    /\ dst = None
    /\ echoIgnore = found /\ restore = {}
    /\ beside = FALSE /\ kept = FALSE /\ left = FALSE
    /\ wire = [e \in End |-> None]
    /\ stable = FALSE
    /\ ran = {}

\* systemd or an operator starts the engine: newCarrier, with
\* suppressKernelEchoReplies on an ICMP server, and setLinked(false).
Start(e) ==
    /\ e \notin on
    /\ on' = on \union {e}
    /\ eng' = [eng EXCEPT ![e] = Fresh]
    /\ ran' = ran \union {e}
    /\ dst' = IF e = Client THEN dst ELSE peer    \* a UDP carrier has no peer yet
    /\ IF e = Server /\ carrier = "icmp"
       THEN /\ Silenced(Server) \/ Refused
            /\ kept' = (echoIgnore' /\ ~beside)
            /\ UNCHANGED <<beside, left>>
       ELSE UNCHANGED host
    /\ UNCHANGED <<config, peer, wire, stable>>

\* Run returns after a cancel or after the error of a pump, its deferred calls
\* run, and the process ends.
Return(e) ==
    /\ e \in on
    /\ on' = on \ {e}
    /\ eng' = [eng EXCEPT ![e] = Ended]
    /\ IF e = Server /\ carrier = "icmp"
       THEN GivesBack(Server) /\ kept' = FALSE /\ UNCHANGED beside
       ELSE UNCHANGED host
    /\ UNCHANGED <<config, peer, dst, wire, stable, past>>

\* The process is killed: no deferred call runs.
Kill(e) ==
    /\ e \in on
    /\ on' = on \ {e}
    /\ eng' = [eng EXCEPT ![e] = Ended]
    /\ IF e = Server /\ carrier = "icmp"
       THEN Forgets(Server) /\ kept' = FALSE /\ UNCHANGED beside
       ELSE UNCHANGED host
    /\ UNCHANGED <<config, peer, dst, wire, stable, past>>

\* A start of t that gets as far as IP_HDRINCL and fails there: the socket is
\* closed, and the setting stays as it has been changed.
GivesUp(t) ==
    /\ carrier = "icmp"
    /\ IF t = Server THEN Server \notin on ELSE shared /\ ~beside
    /\ echoIgnore' = TRUE
    /\ left' = (left \/ ~echoIgnore)
    /\ UNCHANGED <<config, on, eng, peer, dst, restore, beside, kept, wire, stable, past>>

\* The neighbour starts, returns and is killed as the server does.
NeighbourStarts ==
    /\ shared /\ ~beside
    /\ Silenced(Neighbour) \/ Refused
    /\ beside' = TRUE /\ kept' = FALSE
    /\ UNCHANGED <<config, on, eng, peer, dst, left, wire, stable, past>>

NeighbourEnds ==
    /\ beside
    /\ GivesBack(Neighbour) \/ Forgets(Neighbour)
    /\ beside' = FALSE
    /\ UNCHANGED <<config, on, eng, peer, dst, kept, wire, stable, past>>

\* carrierToTun: Receive returns a frame, and the server's carrier learns where
\* it came from, whatever it is.  When Open accepts the frame, lastRecv is stored
\* and setLinked(true) called, and the first such frame is answered.  Whatever
\* the watchdog does between these two calls it could as well do after them.
Hear(e) ==
    /\ e \in on /\ wire[e] # None
    /\ dst' = IF e = Server THEN Learn(wire[e]) ELSE dst
    /\ \/ /\ Opens(e, wire[e])
          /\ eng' = [eng EXCEPT ![e].heard = 0, ![e].linked = TRUE, ![e].replied = TRUE]
          /\ wire' = IF eng[e].replied THEN Arrived(e) ELSE Sent(e, Arrived(e), dst')
       \/ /\ ~Opens(e, wire[e])
          /\ wire' = Arrived(e)
          /\ UNCHANGED eng
    /\ UNCHANGED <<config, on, peer, host, stable, past>>

\* tunToCarrier: a packet of the interface is one more reason to send a frame.  It
\* is left to the time before the network is stable: then keepalives alone must do.
Packet(e) ==
    /\ e \in on /\ ~stable
    /\ wire' = Sent(e, wire, dst)
    /\ UNCHANGED <<config, on, eng, peer, dst, host, stable, past>>

\* keepaliveLoop and sendKeepalive
Keepalive(e) ==
    /\ "keepalive" \in eng[e].due
    /\ eng' = [eng EXCEPT ![e].due = @ \ {"keepalive"}]
    /\ wire' = Sent(e, wire, dst)
    /\ UNCHANGED <<config, on, peer, dst, host, stable, past>>

\* linkWatchdog reads the time of the last frame...
WatchdogLooks(e) ==
    /\ "watchdog" \in eng[e].due
    /\ eng' = [eng EXCEPT ![e].due = @ \ {"watchdog"}, ![e].stale = Stale(e)]
    /\ UNCHANGED <<config, on, peer, dst, host, wire, stable, past>>

\* ... and calls setLinked(false), whatever the receiver did in between.
WatchdogDrops(e) ==
    /\ eng[e].stale
    /\ eng' = [eng EXCEPT ![e].stale = FALSE, ![e].linked = FALSE]
    /\ UNCHANGED <<config, on, peer, dst, host, wire, stable, past>>

-----------------------------------------------------------------------------
(* Time and the network.                                                   *)

\* A keepaliveInterval passes.  The goroutines have done by then what was due,
\* and a stable network has delivered what was sent.
Tick ==
    /\ on # {}
    /\ \A e \in End : eng[e].due = {} /\ ~eng[e].stale
    /\ stable => \A e \in End : wire[e] = None
    /\ eng' = [e \in End |->
                 IF e \in on
                 THEN [eng[e] EXCEPT !.due = {"keepalive", "watchdog"},
                          !.heard = IF @ > LinkTimeout THEN @ ELSE @ + 1]
                 ELSE eng[e]]
    /\ UNCHANGED <<config, on, peer, dst, host, wire, stable, past>>

\* A frame reaches a host on which no engine listens.
Bounce(e) ==
    /\ e \notin on /\ wire[e] # None
    /\ wire' = Arrived(e)
    /\ UNCHANGED <<config, on, eng, peer, dst, host, stable, past>>

Lose(e) ==
    /\ ~stable /\ wire[e] # None
    /\ wire' = [wire EXCEPT ![e] = None]
    /\ UNCHANGED <<config, on, eng, peer, dst, host, stable, past>>

\* Something else sends the server a datagram of the carrier's protocol.  What
\* reaches the client this way fails to open and changes nothing there.
Unrelated ==
    /\ ~stable
    /\ wire' = [wire EXCEPT ![Server] = Junk]
    /\ UNCHANGED <<config, on, eng, peer, dst, host, stable, past>>

\* The client's address changes under it, to a new one or to one it had before;
\* what is under way is lost.
Move ==
    /\ ~stable
    /\ \E back \in BOOLEAN :
          LET now(a) == IF a = None THEN None
                        ELSE IF a = "elsewhere" /\ back THEN "client" ELSE "elsewhere"
          IN  peer' = now(peer) /\ dst' = now(dst)
    /\ wire' = [e \in End |-> None]
    /\ UNCHANGED <<config, on, eng, host, stable, past>>

Stabilise ==
    /\ ~stable /\ stable' = TRUE
    /\ UNCHANGED <<config, on, eng, peer, dst, host, wire, past>>

Next ==
    \/ \E e \in End : \/ Start(e) \/ Return(e) \/ Kill(e)
                      \/ Hear(e) \/ Packet(e) \/ Keepalive(e)
                      \/ WatchdogLooks(e) \/ WatchdogDrops(e)
                      \/ Bounce(e) \/ Lose(e)
    \/ \E t \in Pingers : GivesUp(t)
    \/ NeighbourStarts \/ NeighbourEnds
    \/ Tick \/ Unrelated \/ Move \/ Stabilise

Spec == Init /\ [][Next]_vars

\* Goroutines run, time passes, and a frame that is not lost arrives.
Fairness ==
    /\ WF_vars(Tick)
    /\ \A e \in End : /\ WF_vars(Hear(e)) /\ WF_vars(Bounce(e)) /\ WF_vars(Keepalive(e))
                      /\ WF_vars(WatchdogLooks(e)) /\ WF_vars(WatchdogDrops(e))

FairSpec == Spec /\ Fairness

-----------------------------------------------------------------------------
(* What holds in every state.                                              *)

\* Whether the server's host may answer an end's frames in the server's place.
MayBeEchoed(e) == carrier = "icmp" /\ ~found /\ e = Client

\* An end shows its peer as present for at most the timeout after it last heard
\* from it: past that, the watchdog is about to look, or about to act
\* (engine.go:156-158).
LinkedIsRecent ==
    \A e \in End : eng[e].linked /\ eng[e].heard > LinkTimeout => "watchdog" \in eng[e].due \/ eng[e].stale

\* No end shows a peer that has never run, or that has another token
\* (engine.go:98-100), but for an ICMP client, whose own requests the kernel of the
\* server's host may send back.
LinkedMeansPeerUnlessEchoed ==
    \A e \in End : eng[e].linked /\ ~MayBeEchoed(e) => sameToken /\ Other(e) \in ran

\* What an end shows is no older than the timeout, and its peer's.
LinkedIsHonest == LinkedIsRecent /\ LinkedMeansPeerUnlessEchoed

\* While an ICMP server runs its kernel leaves echo requests to it, unless it was
\* refused the change or another ICMP server of the host has run since its start,
\* which writes back on its Close what it had found.  When no ICMP server of the
\* host runs, the host has the setting it had at first, however many there were
\* and in whichever order they came and went, unless one was killed, gave up or
\* could not write (carrier_raw.go:62-75 and 226-243, README.md:205-208).
EchoSetting ==
    /\ kept => echoIgnore
    /\ Server \notin on /\ ~beside /\ ~left => echoIgnore = found

-----------------------------------------------------------------------------
(* What happens in the end.                                                *)

\* Both ends run and can reach each other: the server has the client's address,
\* or follows it.
Reachable ==
    /\ stable /\ sameToken /\ on = End
    /\ carrier = "udp" \/ dst = "client"

\* Two ends that run on a network that behaves show each other as present for
\* good, whatever was lost before and however the watchdog and the receiver got
\* in each other's way (engine.go:159-172 and 222-230).
LinkComesUp == <>[]Reachable => <>[](\A e \in End : eng[e].linked)

\* An end whose peer is gone for good stops showing it (engine.go:156-158).
LinkGoesDown ==
    \A e \in End :
        <>[](stable /\ Other(e) \notin on /\ ~MayBeEchoed(e)) => <>[](~eng[e].linked)

\* What an end shows follows its peer, either way.
LinkFollowsPeer == LinkComesUp /\ LinkGoesDown
=============================================================================
