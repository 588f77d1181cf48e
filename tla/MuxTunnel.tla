------------------------------ MODULE MuxTunnel -----------------------------
(***************************************************************************)
(* A mux-mode tunnel: the clients' reconnect loop (runMux and serveMuxOnce *)
(* in src/internal/client/client.go), the server's goroutine per link that *)
(* installs a session, drains it and takes it down (onMuxLink, setCurrent  *)
(* and clearCurrent in src/internal/server/server.go), and the end users   *)
(* whose connections ride on the current session as streams.               *)
(*                                                                         *)
(* A session is a value of Sessions with an endpoint on either side; each  *)
(* goes down on its own, when its side closes it or when it notices, by    *)
(* EOF or by keepalive, that the other one or the path is gone.  Nothing   *)
(* more of smux is modelled.  The client serves a stream as it serves a    *)
(* pool link, see PoolTunnel: here a stream ends when it likes.  A critical *)
(* section of s.mu is one action, and so is every change of state between  *)
(* two of them.                                                            *)
(***************************************************************************)
EXTENDS Naturals

CONSTANTS
  Clients,   \* client processes: one, or a second one that takes over
  Sessions,  \* session identities, taken up again when nothing refers to one
  Users,     \* end users of the forwarded ports
  MaxDelay,  \* how often the backoff doubles until it is at its maximum
  NoSess     \* nil *mux.Session

ASSUME SessAssumption == NoSess \notin Sessions
ASSUME DelayAssumption == MaxDelay \in Nat

VARIABLES
  cpc,        \* where a client is in runMux
  csess,      \* the session a client services
  cLinked,    \* a client's flag that a peer is connected
  delay,      \* a client's backoff, as the number of doublings
  cUp,        \* sessions whose client endpoint is up
  sUp,        \* sessions whose server endpoint is up
  spc,        \* where the server's goroutine of a session is in onMuxLink
  old,        \* the session a goroutine replaced and has yet to close
  current,    \* s.current
  sLinked,    \* the server's flag that a peer is connected
  ride,       \* the session forward chose for a user
  piping,     \* users whose stream is open
  stable,     \* from now on dials and paths do not fail
  cancelled   \* clients whose context has ended

client == <<cpc, csess, cLinked, delay>>
server == <<spc, old, current, sLinked>>
users == <<ride, piping>>
world == <<stable, cancelled>>
vars == <<cpc, csess, cLinked, delay, cUp, sUp, spc, old, current, sLinked,
          ride, piping, stable, cancelled>>

SessOrNone == Sessions \cup {NoSess}

TypeOK ==
  /\ cpc \in [Clients -> {"top", "dialing", "sleeping", "serving", "stopped"}]
  /\ csess \in [Clients -> SessOrNone]
  /\ cLinked \in [Clients -> BOOLEAN]
  /\ delay \in [Clients -> 0 .. MaxDelay]
  /\ cUp \subseteq Sessions /\ sUp \subseteq Sessions
  /\ spc \in [Sessions -> {"none", "accepted", "superseding", "linking",
                           "draining", "clearing", "unlinking"}]
  /\ old \in [Sessions -> SessOrNone]
  /\ current \in SessOrNone
  /\ sLinked \in BOOLEAN
  /\ ride \in [Users -> SessOrNone]
  /\ piping \subseteq Users
  /\ stable \in BOOLEAN /\ cancelled \subseteq Clients

Init ==
  /\ cpc = [c \in Clients |-> "top"]
  /\ csess = [c \in Clients |-> NoSess]
  /\ cLinked = [c \in Clients |-> FALSE]
  /\ delay = [c \in Clients |-> 0]
  /\ cUp = {} /\ sUp = {}
  /\ spc = [s \in Sessions |-> "none"]
  /\ old = [s \in Sessions |-> NoSess]
  /\ current = NoSess
  /\ sLinked = FALSE
  /\ ride = [u \in Users |-> NoSess]
  /\ piping = {}
  /\ stable = FALSE /\ cancelled = {}

-----------------------------------------------------------------------------
(* The client. *)

Goto(c, place) == cpc' = [cpc EXCEPT ![c] = place]

\* The backoff's maximum is ignored.
SlipDoubled(d) == d + 1

Doubled(d) == IF d < MaxDelay THEN d + 1 ELSE d

(* A new session is one that no goroutine refers to. *)
Unreferenced(s) ==
  /\ spc[s] = "none" /\ s \notin cUp /\ s # current
  /\ \A c \in Clients : csess[c] # s
  /\ \A t \in Sessions : old[t] # s
  /\ \A u \in Users : ride[u] # s

(* The head of the loop looks at the context. *)
Check(c) ==
  /\ cpc[c] = "top"
  /\ Goto(c, IF c \in cancelled THEN "stopped" ELSE "dialing")
  /\ UNCHANGED <<csess, cLinked, delay, cUp, sUp, server, users, world>>

(* dialAuthenticated succeeds; at the other end the goroutine of the link  *)
(* has passed the handshake.                                               *)
Dial(c, s) ==
  /\ cpc[c] = "dialing"
  /\ Unreferenced(s)
  /\ Goto(c, "serving")
  /\ csess' = [csess EXCEPT ![c] = s]
  /\ cLinked' = [cLinked EXCEPT ![c] = TRUE]
  /\ cUp' = cUp \cup {s} /\ sUp' = sUp \cup {s}
  /\ spc' = [spc EXCEPT ![s] = "accepted"]
  /\ UNCHANGED <<delay, old, current, sLinked, users, world>>

DialFails(c) ==
  /\ cpc[c] = "dialing"
  /\ ~stable \/ c \in cancelled
  /\ Goto(c, IF c \in cancelled THEN "stopped" ELSE "sleeping")
  /\ UNCHANGED <<csess, cLinked, delay, cUp, sUp, server, users, world>>

(* backoff.sleep returns, and has doubled the backoff. *)
SleepEnds(c) ==
  /\ cpc[c] = "sleeping"
  /\ IF c \in cancelled
       THEN Goto(c, "stopped") /\ UNCHANGED delay
       ELSE Goto(c, "top") /\ delay' = [delay EXCEPT ![c] = Doubled(@)]
  /\ UNCHANGED <<csess, cLinked, cUp, sUp, server, users, world>>

(* AcceptStream fails: serveMuxOnce returns and runMux waits to redial. *)
ServeEnds(c) ==
  /\ cpc[c] = "serving"
  /\ csess[c] \notin cUp
  /\ Goto(c, IF c \in cancelled THEN "stopped" ELSE "sleeping")
  /\ csess' = [csess EXCEPT ![c] = NoSess]
  /\ cLinked' = [cLinked EXCEPT ![c] = FALSE]
  /\ UNCHANGED <<delay, cUp, sUp, server, users, world>>

(* The goroutine that waits for the end of the context closes the session. *)
WatcherCloses(c) ==
  /\ c \in cancelled
  /\ csess[c] \in cUp
  /\ cUp' = cUp \ {csess[c]}
  /\ UNCHANGED <<client, sUp, server, users, world>>

-----------------------------------------------------------------------------
(* The server's goroutine of a link. *)

\* The session replaced is not remembered.
SlipSetCurrent(s) ==
  /\ spc[s] = "accepted"
  /\ current' = s
  /\ spc' = [spc EXCEPT ![s] = "superseding"]
  /\ UNCHANGED <<client, cUp, sUp, old, sLinked, users, world>>

(* setCurrent, under the lock. *)
SetCurrent(s) ==
  /\ spc[s] = "accepted"
  /\ old' = [old EXCEPT ![s] = current]
  /\ current' = s
  /\ spc' = [spc EXCEPT ![s] = "superseding"]
  /\ UNCHANGED <<client, cUp, sUp, sLinked, users, world>>

(* setCurrent closes the session it replaced, if any, after the unlock. *)
CloseOld(s) ==
  /\ spc[s] = "superseding"
  /\ sUp' = sUp \ {old[s]}
  /\ old' = [old EXCEPT ![s] = NoSess]
  /\ spc' = [spc EXCEPT ![s] = "linking"]
  /\ UNCHANGED <<client, cUp, current, sLinked, users, world>>

SetLinked(s) ==
  /\ spc[s] = "linking"
  /\ sLinked' = TRUE
  /\ spc' = [spc EXCEPT ![s] = "draining"]
  /\ UNCHANGED <<client, cUp, sUp, old, current, users, world>>

DrainEnds(s) ==
  /\ spc[s] = "draining"
  /\ s \notin sUp
  /\ spc' = [spc EXCEPT ![s] = "clearing"]
  /\ UNCHANGED <<client, cUp, sUp, old, current, sLinked, users, world>>

\* A session clears the current one whatever it is.
SlipWithout(s) == NoSess

(* clearCurrent takes down s only. *)
Without(s) == IF current = s THEN NoSess ELSE current

(* clearCurrent; the session it closes is down by now. *)
ClearCurrent(s) ==
  /\ spc[s] = "clearing"
  /\ current' = Without(s)
  /\ spc' = [spc EXCEPT ![s] = "unlinking"]
  /\ UNCHANGED <<client, cUp, sUp, old, sLinked, users, world>>

ClearLinked(s) ==
  /\ spc[s] = "unlinking"
  /\ sLinked' = FALSE
  /\ spc' = [spc EXCEPT ![s] = "none"]
  /\ UNCHANGED <<client, cUp, sUp, old, current, users, world>>

-----------------------------------------------------------------------------
(* Users and their streams. *)

(* forward asks for the session; without one it drops the user. *)
Choose(u) ==
  /\ ride[u] = NoSess
  /\ current # NoSess
  /\ ride' = [ride EXCEPT ![u] = current]
  /\ UNCHANGED <<client, cUp, sUp, server, piping, world>>

(* OpenStream and WriteTarget on the session chosen. *)
OpenStream(u) ==
  /\ ride[u] \in sUp
  /\ u \notin piping
  /\ piping' = piping \cup {u}
  /\ UNCHANGED <<client, cUp, sUp, server, ride, world>>

(* The user's connection is closed. *)
DropUser(u) ==
  /\ ride' = [ride EXCEPT ![u] = NoSess]
  /\ piping' = piping \ {u}
  /\ UNCHANGED <<client, cUp, sUp, server, world>>

(* Either end of the stream hangs up. *)
StreamEnds(u) == u \in piping /\ DropUser(u)

\* A pipe outlives its session.
SlipStreamDies(u) == FALSE

(* OpenStream fails, or the pipe does, because the session is down. *)
StreamDies(u) == ride[u] # NoSess /\ ride[u] \notin sUp /\ DropUser(u)

-----------------------------------------------------------------------------
(* The world. *)

(* An endpoint goes down when it learns by EOF that the other one has gone *)
(* down, or by keepalive that the path is lost: both ends can go down in   *)
(* any order, far apart.                                                   *)
ServerNotices(s) ==
  /\ s \in sUp
  /\ s \notin cUp \/ ~stable
  /\ sUp' = sUp \ {s}
  /\ UNCHANGED <<client, cUp, server, users, world>>

ClientNotices(s) ==
  /\ s \in cUp
  /\ s \notin sUp \/ ~stable
  /\ cUp' = cUp \ {s}
  /\ UNCHANGED <<client, sUp, server, users, world>>

Stabilize ==
  /\ ~stable
  /\ stable' = TRUE
  /\ UNCHANGED <<client, cUp, sUp, server, users, cancelled>>

(* A client is told to stop. *)
Cancel(c) ==
  /\ c \notin cancelled
  /\ cancelled' = cancelled \cup {c}
  /\ UNCHANGED <<client, cUp, sUp, server, users, stable>>

ClientStep(c) ==
  \/ Check(c)
  \/ \E s \in Sessions : Dial(c, s)
  \/ DialFails(c)
  \/ SleepEnds(c)
  \/ ServeEnds(c)

LinkStep(s) ==
  \/ SetCurrent(s) \/ CloseOld(s) \/ SetLinked(s)
  \/ DrainEnds(s) \/ ClearCurrent(s) \/ ClearLinked(s)

Next ==
  \/ \E c \in Clients : ClientStep(c) \/ WatcherCloses(c) \/ Cancel(c)
  \/ \E s \in Sessions : LinkStep(s) \/ ServerNotices(s) \/ ClientNotices(s)
  \/ \E u \in Users :
       Choose(u) \/ OpenStream(u) \/ StreamEnds(u) \/ StreamDies(u)
  \/ Stabilize

Spec == Init /\ [][Next]_vars

(* Goroutines run, the keepalive finds a dead path, backoff waits end.  No *)
(* user comes or leaves, no client is stopped.                             *)
Fairness ==
  /\ \A c \in Clients : WF_vars(ClientStep(c)) /\ WF_vars(WatcherCloses(c))
  /\ \A s \in Sessions :
       /\ WF_vars(LinkStep(s))
       /\ WF_vars(s \notin cUp /\ ServerNotices(s))
       /\ WF_vars(s \notin sUp /\ ClientNotices(s))
  /\ \A u \in Users : WF_vars(StreamDies(u))

FairSpec == Spec /\ Fairness
-----------------------------------------------------------------------------
(* At most one session stays up: one that was installed and is not current *)
(* any more is down, or the goroutine that replaced it is about to close   *)
(* it.  A forgotten session would keep its users on a link no new user     *)
(* gets, and its client from redialing.                                    *)
OneLiveSession ==
  \A s \in sUp : spc[s] \notin {"none", "accepted"} /\ s # current =>
    \E t \in Sessions : old[t] = s

(* The current session has a goroutine that will take it down: s.current   *)
(* never keeps a dead session for good, which would drop every user until  *)
(* a client comes to replace it.                                           *)
CurrentIsOwned ==
  current # NoSess =>
    spc[current] \in {"superseding", "linking", "draining", "clearing"}

(* No session is forgotten: not one that was replaced, nor the current one. *)
SessionsAccounted == OneLiveSession /\ CurrentIsOwned

(* Liveness: the tunnel heals.  A client that is not stopped, and has no   *)
(* other one to contend with, is linked for good with the session the      *)
(* server gives to users once dials and paths have stopped failing,        *)
(* whatever sessions of the past are still being taken down.               *)
Healed(c) ==
  /\ cpc[c] = "serving"
  /\ current = csess[c]
  /\ csess[c] \in cUp \cap sUp
TunnelHeals ==
  \A c \in Clients :
    stable /\ Clients \ cancelled = {c} ~> [](c \in cancelled \/ Healed(c))

(* Liveness: no user is left on a session that is not current any more. *)
NobodyLeftBehind ==
  \A u \in Users, s \in Sessions :
    ride[u] = s /\ current # s ~> ride[u] # s

(* Liveness: a client that is told to stop does. *)
ClientStops == \A c \in Clients : c \in cancelled ~> cpc[c] = "stopped"

(* Liveness: whatever ends lets go of what hangs on it: users of a session *)
(* that was replaced, and the client's goroutines when it is told to stop. *)
LetsGo == NobodyLeftBehind /\ ClientStops

-----------------------------------------------------------------------------
(* What the documentation says and the code does not do. *)

(* metrics.go says that the linked flag is set while a peer is connected.  *)
(* The goroutine of a replaced session resets it after the goroutine of    *)
(* the new one has set it, and nothing sets it again.                      *)
LinkedIsTrue ==
  (\A s \in Sessions : spc[s] \in {"none", "draining"}) =>
    (sLinked <=> current # NoSess)
=============================================================================
