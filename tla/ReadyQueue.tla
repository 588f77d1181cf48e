----------------------------- MODULE ReadyQueue -----------------------------
(***************************************************************************)
(* The server-side queue of parked links, pool.Ready of                    *)
(* src/internal/pool/pool.go, together with the three kinds of goroutine   *)
(* that use it: the one per inbound link that calls Put                    *)
(* (server.onPooledLink), the one per end user that calls Get              *)
(* (server.forward through server.linkFor), and the reaper and the final   *)
(* Close of server.Run.                                                    *)
(*                                                                         *)
(* Every critical section of r.mu is one action.  What the code does after *)
(* r.mu.Unlock() - waiting on a channel, closing the links a critical      *)
(* section removed - is an action of its own.  A connection is a value of  *)
(* Conns that comes back as a new connection once it was closed, and a     *)
(* channel is a value of Chans that comes back from make() once no         *)
(* goroutine refers to it, so behaviours are unbounded although both sets  *)
(* are finite.                                                             *)
(***************************************************************************)
EXTENDS Integers, Sequences, FiniteSets, Functions

CONSTANTS
  Conns,        \* connections of the tunnel listener
  Getters,      \* goroutines that run server.forward
  Chans,        \* values make(chan struct{}) can return
  IdleTimeout,  \* idleTO in clock units; 0 switches staleness off
  NoConn,       \* nil net.Conn
  NoChan        \* no channel captured

ASSUME IdleAssumption == IdleTimeout \in Nat
ASSUME NoConnAssumption == NoConn \notin Conns
ASSUME NoChanAssumption == NoChan \notin Chans

VARIABLES
  links,        \* r.links, oldest first
  closed,       \* r.closed
  wait,         \* r.wait, the channel a Get that finds nothing waits on
  closedChans,  \* the channels that were closed
  panicked,     \* a channel was closed twice, which panics
  pc,           \* where each getter is in Get
  waitingOn,    \* the wait channel a getter captured under the lock
  got,          \* the link Get returned to a getter that still uses it
  fresh,        \* accepted links whose goroutine has yet to call Put
  dead,         \* links some goroutine must still Close
  open          \* connections that are not closed

queue == <<links, closed, wait, closedChans, panicked>>
getters == <<pc, waitingOn, got>>
vars == <<links, closed, wait, closedChans, panicked, pc, waitingOn, got,
          fresh, dead, open>>

Closers == {"putter", "reaper", "closer"}

(* How long a link has been parked; one unit past the timeout is as good   *)
(* as any longer time.                                                     *)
Ages == 0 .. IdleTimeout + 1
Entry == [conn : Conns, age : Ages]

Parked == {links[i].conn : i \in DOMAIN links}
Handed == {got[g] : g \in Getters} \ {NoConn}
Dead == UNION {dead[o] : o \in Closers}

TypeOK ==
  /\ links \in Seq(Entry)
  /\ closed \in BOOLEAN
  /\ wait \in Chans
  /\ closedChans \subseteq Chans
  /\ panicked \in BOOLEAN
  /\ pc \in [Getters -> {"idle", "looking", "waiting"}]
  /\ waitingOn \in [Getters -> Chans \cup {NoChan}]
  /\ got \in [Getters -> Conns \cup {NoConn}]
  /\ fresh \subseteq Conns
  /\ dead \in [Closers -> SUBSET Conns]
  /\ open \subseteq Conns

Init ==
  /\ links = <<>>
  /\ closed = FALSE
  /\ wait \in Chans
  /\ closedChans = {}
  /\ panicked = FALSE
  /\ pc = [g \in Getters |-> "idle"]
  /\ waitingOn = [g \in Getters |-> NoChan]
  /\ got = [g \in Getters |-> NoConn]
  /\ fresh = {}
  /\ dead = [o \in Closers |-> {}]
  /\ open = {}

-----------------------------------------------------------------------------
(* The parts the operations are made of.  An operator named Slip... is a   *)
(* distortion of the one below it; no action uses it.  Put in its place it *)
(* must make a property fail, which shows that the property says something *)
(* about the code.                                                         *)

\* Nobody compares a link's age with the timeout.
SlipNeverStale(e) == TRUE

Usable(e) == IdleTimeout = 0 \/ e.age <= IdleTimeout

(* The reaper's loop: Keep(s) is s without its stale entries, in order. *)
Keep(s) ==
  LET kept[i \in 0 .. Len(s)] ==
        IF i = 0 THEN <<>>
        ELSE IF Usable(s[i]) THEN Append(kept[i - 1], s[i]) ELSE kept[i - 1]
  IN  kept[Len(s)]

(* Put and Close return early when r.closed. *)
Running == ~closed

Enqueue(c) == Append(links, [conn |-> c, age |-> 0])

\* The link that is returned stays in the queue.
SlipRestKeepsTaken(k) == SubSeq(links, 1, k)

(* What is left when the link at k is taken and the ones after it popped. *)
Rest(k) == SubSeq(links, 1, k - 1)

\* close(r.wait) is forgotten.
SlipCloseNothing(ch, reused) ==
  closedChans' = closedChans \ reused /\ UNCHANGED panicked

(* close(ch): closing a channel twice panics.  A channel in reused is a    *)
(* new one, made in the same critical section.                             *)
CloseChan(ch, reused) ==
  /\ closedChans' = (closedChans \cup {ch}) \ reused
  /\ panicked' = (panicked \/ ch \in closedChans)

(* make(chan struct{}): a channel nobody holds a reference to. *)
Unreferenced(ch) == ch # wait /\ \A g \in Getters : waitingOn[g] # ch

\* r.wait is left nil for the next Get to make.
SlipWaitNil == wait' = NoChan /\ CloseChan(wait, {})

(* Wake everyone waiting; a fresh channel arms the next wait. *)
WakeWaiters ==
  \E ch \in Chans : Unreferenced(ch) /\ wait' = ch /\ CloseChan(wait, {ch})

-----------------------------------------------------------------------------
(* The world around the queue. *)

(* The listener accepts a link and starts its goroutine.  server.Run calls *)
(* ready.Close only after Accept has failed, so none follows Close; one    *)
(* that was accepted earlier may still reach Put.                          *)
Accept(c) ==
  /\ ~closed
  /\ c \notin open
  /\ open' = open \cup {c}
  /\ fresh' = fresh \cup {c}
  /\ UNCHANGED <<queue, getters, dead>>

(* The handshake fails or the role byte does not come. *)
Reject(c) ==
  /\ c \in fresh
  /\ fresh' = fresh \ {c}
  /\ open' = open \ {c}
  /\ UNCHANGED <<queue, getters, dead>>

(* One clock unit passes for every parked link. *)
Tick ==
  /\ \E i \in DOMAIN links : links[i].age <= IdleTimeout
  /\ links' = [i \in DOMAIN links |->
                 [links[i] EXCEPT !.age = IF @ <= IdleTimeout THEN @ + 1 ELSE @]]
  /\ UNCHANGED <<closed, wait, closedChans, panicked, getters, fresh, dead, open>>

(* A goroutine closes a link it removed from the queue, or that Put        *)
(* refused, after the lock was released.                                   *)
CloseDead(o, c) ==
  /\ c \in dead[o]
  /\ dead' = [dead EXCEPT ![o] = @ \ {c}]
  /\ open' = open \ {c}
  /\ UNCHANGED <<queue, getters, fresh>>

(* forward is done with the link it got and closes it. *)
Release(g) ==
  /\ got[g] # NoConn
  /\ got' = [got EXCEPT ![g] = NoConn]
  /\ open' = open \ {got[g]}
  /\ UNCHANGED <<queue, pc, waitingOn, fresh, dead>>

-----------------------------------------------------------------------------
(* Put. *)

(* Put returns false; the caller hangs up. *)
PutRefused(c) ==
  /\ closed
  /\ dead' = [dead EXCEPT !["putter"] = @ \cup {c}]
  /\ UNCHANGED queue

PutParked(c) ==
  /\ Running
  /\ links' = Enqueue(c)
  /\ WakeWaiters
  /\ UNCHANGED <<closed, dead>>

Put(c) ==
  /\ c \in fresh
  /\ fresh' = fresh \ {c}
  /\ PutRefused(c) \/ PutParked(c)
  /\ UNCHANGED <<getters, open>>

-----------------------------------------------------------------------------
(* Get. *)

Call(g) ==
  /\ pc[g] = "idle"
  /\ got[g] = NoConn
  /\ pc' = [pc EXCEPT ![g] = "looking"]
  /\ UNCHANGED <<queue, waitingOn, got, fresh, dead, open>>

(* The queue is closed: Get returns an error. *)
LookClosed(g) ==
  /\ pc[g] = "looking"
  /\ closed
  /\ pc' = [pc EXCEPT ![g] = "idle"]
  /\ UNCHANGED <<queue, waitingOn, got, fresh, dead, open>>

(* Links are taken from the end and the stale ones closed on the way; the  *)
(* first usable one, at position k, is returned.                           *)
LookTake(g) ==
  /\ pc[g] = "looking"
  /\ ~closed
  /\ \E k \in DOMAIN links :
       /\ Usable(links[k])
       /\ \A j \in k + 1 .. Len(links) : ~Usable(links[j])
       /\ got' = [got EXCEPT ![g] = links[k].conn]
       /\ links' = Rest(k)
       /\ open' = open \ {links[j].conn : j \in k + 1 .. Len(links)}
  /\ pc' = [pc EXCEPT ![g] = "idle"]
  /\ UNCHANGED <<closed, wait, closedChans, panicked, waitingOn, fresh, dead>>

(* Nothing usable: everything was popped and closed, and the wait channel  *)
(* is captured before the lock is released.                                *)
LookWait(g) ==
  /\ pc[g] = "looking"
  /\ ~closed
  /\ \A i \in DOMAIN links : ~Usable(links[i])
  /\ links' = <<>>
  /\ open' = open \ Parked
  /\ waitingOn' = [waitingOn EXCEPT ![g] = wait]
  /\ pc' = [pc EXCEPT ![g] = "waiting"]
  /\ UNCHANGED <<closed, wait, closedChans, panicked, got, fresh, dead>>

(* The critical section of one round of Get's loop. *)
Look(g) == LookClosed(g) \/ LookTake(g) \/ LookWait(g)

(* select: the captured channel was closed; start over. *)
Wake(g) ==
  /\ pc[g] = "waiting"
  /\ waitingOn[g] \in closedChans
  /\ pc' = [pc EXCEPT ![g] = "looking"]
  /\ waitingOn' = [waitingOn EXCEPT ![g] = NoChan]
  /\ UNCHANGED <<queue, got, fresh, dead, open>>

\* The select has no case for the context.
SlipNoDeadline(g) == FALSE

(* select: the context's deadline passed or the server is stopping. *)
GiveUp(g) ==
  /\ pc[g] = "waiting"
  /\ pc' = [pc EXCEPT ![g] = "idle"]
  /\ waitingOn' = [waitingOn EXCEPT ![g] = NoChan]
  /\ UNCHANGED <<queue, got, fresh, dead, open>>

-----------------------------------------------------------------------------
(* Close and ReapStale. *)

CloseAgain ==
  /\ closed
  /\ UNCHANGED vars

CloseFirst ==
  /\ Running
  /\ closed' = TRUE
  /\ links' = <<>>
  /\ dead' = [dead EXCEPT !["closer"] = @ \cup Parked]
  /\ CloseChan(wait, {})
  /\ UNCHANGED <<wait, getters, fresh, open>>

Close == CloseAgain \/ CloseFirst

(* One round of the reaper; the next ReapStale starts only when the links  *)
(* of the last one are closed.                                             *)
ReapStale ==
  /\ IdleTimeout > 0
  /\ dead["reaper"] = {}
  /\ links' = Keep(links)
  /\ dead' = [dead EXCEPT !["reaper"] =
                {links[i].conn : i \in {j \in DOMAIN links : ~Usable(links[j])}}]
  /\ UNCHANGED <<closed, wait, closedChans, panicked, getters, fresh, open>>

-----------------------------------------------------------------------------
Get(g) ==
  \/ Call(g)
  \/ Look(g)
  \/ Wake(g)
  \/ GiveUp(g)

Next ==
  \/ \E c \in Conns : Accept(c) \/ Reject(c) \/ Put(c)
  \/ \E o \in Closers, c \in Conns : CloseDead(o, c)
  \/ \E g \in Getters : Get(g) \/ Release(g)
  \/ Close
  \/ ReapStale
  \/ Tick

Spec == Init /\ [][Next]_vars

(* Runnable goroutines run, and time passes.  Nothing makes a link come, a *)
(* user call, the server stop or a user hang up.                           *)
RunFairness ==
  /\ \A g \in Getters : WF_vars(Look(g)) /\ WF_vars(Wake(g))
  /\ \A o \in Closers, c \in Conns : WF_vars(CloseDead(o, c))
  /\ WF_vars(ReapStale)
  /\ WF_vars(Tick)

FairSpec == Spec /\ RunFairness
-----------------------------------------------------------------------------
(* Invariants. *)

(* A link the queue or a goroutine holds is held once: it is not in the    *)
(* queue twice, never both parked and handed out, never handed to two      *)
(* users, and nobody is about to close a link somebody else uses.  This is *)
(* what Get, Put, Close and ReapStale must keep although each of them      *)
(* drops the lock before it is done with the links it removed.             *)
SoleHolder ==
  /\ \A i, j \in DOMAIN links : i # j => links[i].conn # links[j].conn
  /\ \A g, h \in Getters : g # h /\ got[g] # NoConn => got[g] # got[h]
  /\ \A o, q \in Closers : o # q => dead[o] \cap dead[q] = {}
  /\ fresh \cap (Parked \cup Handed \cup Dead) = {}
  /\ Parked \cap (Handed \cup Dead) = {}
  /\ Handed \cap Dead = {}

(* The open connections are exactly the held ones: no link a user, the     *)
(* queue or a goroutine holds has been closed under it, and no open link   *)
(* was forgotten, whichever of Put's refusal, staleness, reaping and       *)
(* shutdown it met.                                                        *)
OpenIffHeld == open = fresh \cup Parked \cup Handed \cup Dead

(* No lost wakeup: a getter that sleeps on a channel nobody has closed     *)
(* sleeps on the current one, with no link parked and the queue not        *)
(* closed, and the current channel is open as long as the queue is.        *)
(* Otherwise a user would wait out its deadline next to a link.            *)
NoLostWakeup ==
  /\ wait \in closedChans <=> closed
  /\ \A g \in Getters :
       pc[g] = "waiting" /\ waitingOn[g] \notin closedChans =>
         waitingOn[g] = wait /\ links = <<>> /\ ~closed

(* No channel is closed twice, by Put and Close or by two calls of Close,  *)
(* which would bring the whole engine down.                                *)
NoPanic == ~panicked

(* The queue is ordered by the time a link was parked, so the end Get      *)
(* takes from is the least stale one: if it is stale, all are.             *)
OldestFirst ==
  \A i, j \in DOMAIN links : i < j => links[i].age >= links[j].age

(* Shutdown is final: nothing stays or gets parked on a closed queue,      *)
(* where no Get and no reaper would ever find it.                          *)
ClosedIsEmpty == closed => links = <<>>

(* A link is in one place, open exactly while it is in one, and the queue  *)
(* is in order and, once closed, empty.                                    *)
Custody == SoleHolder /\ OpenIffHeld /\ OldestFirst /\ ClosedIsEmpty

(* The channels wake whom they have to, and each is closed once. *)
Channels == NoLostWakeup /\ NoPanic

(* Action property: a link handed to a user is still parked and within the *)
(* idle timeout, and no link that stays behind was parked more recently.   *)
HandsOutFreshest ==
  [][\A g \in Getters : got'[g] # got[g] /\ got'[g] # NoConn =>
       \E k \in DOMAIN links :
         /\ links[k].conn = got'[g]
         /\ IdleTimeout > 0 => links[k].age <= IdleTimeout
         /\ \A i \in DOMAIN links' : links'[i].age >= links[k].age]_vars

(* Liveness: after Close every waiting user is released without its        *)
(* deadline having to pass.                                                *)
CloseReleasesAll == closed ~> [](\A g \in Getters : pc[g] # "waiting")

(* Liveness: a link nobody takes does not stay parked for ever: on a quiet *)
(* tunnel the reaper closes it.                                            *)
ParkedLinkLeaves ==
  \A c \in Conns : c \in Parked ~> c \notin Parked

(* Once the deadline has passed both cases of the select can be ready, and *)
(* select chooses among ready cases at random: a getter that keeps coming  *)
(* back to the select does not lose the draw for ever.                     *)
DeadlineFairness(g) == SF_vars(GiveUp(g))

(* Liveness: a user is never stuck in Get, even when every link that wakes *)
(* it up is taken by somebody else first.                                  *)
GetReturns ==
  \A g \in Getters :
    DeadlineFairness(g) => (pc[g] = "looking" ~> pc[g] = "idle")

-----------------------------------------------------------------------------
(* The abstract pool this queue implements.  What a link's state is does   *)
(* not depend on the lock, the channels or the order of the queue.         *)
linkState ==
  [c \in Conns |->
     CASE c \in fresh  -> "offered"
       [] c \in Parked -> "parked"
       [] c \in Handed -> "handed"
       [] c \in Dead   -> "dropped"
       [] OTHER        -> "gone"]

holder ==
  [c \in Conns |-> IF c \in Handed THEN CHOOSE g \in Getters : got[g] = c
                                  ELSE NoConn]

asking == {g \in Getters : pc[g] # "idle"}

Pool == INSTANCE LinkPool WITH
          Links <- Conns, Users <- Getters, Nobody <- NoConn,
          state <- linkState, user <- holder, shut <- closed

PoolSpec == Pool!Spec
=============================================================================
