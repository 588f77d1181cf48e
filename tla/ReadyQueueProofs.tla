-------------------------- MODULE ReadyQueueProofs --------------------------
(***************************************************************************)
(* Proofs about ReadyQueue for any number of connections, getters and      *)
(* channels and any idle timeout.  The inductive invariant IInv is the     *)
(* conjunction of the invariants TLC checks and of AskersHoldNothing,      *)
(* without which LookTake could overwrite, and so leak, a link the getter  *)
(* already holds.  Each part has a lemma that a step preserves it.         *)
(***************************************************************************)
EXTENDS ReadyQueue, WellFoundedInduction, TLAPS

-----------------------------------------------------------------------------
(* The reaper's loop.  Keep is a recursive function; that it is well       *)
(* defined, and what it computes, is proved by induction on the length of  *)
(* the prefix the loop has gone over.                                      *)

(* Induction over the natural numbers for a set of numbers: the form in    *)
(* which the induction over the reaper's loop can be cited.                *)
LEMMA NatSetInduction ==
  ASSUME NEW T, T \subseteq Nat, 0 \in T, \A n \in T : n + 1 \in T
  PROVE  \A n \in Nat : n \in T
<1> SUFFICES ASSUME Nat \ T # {} PROVE FALSE
  OBVIOUS
<1>1. PICK x \in Nat \ T : \A y \in Nat \ T : ~ (<<y, x>> \in OpToRel(<, Nat))
  <2> DEFINE R == OpToRel(<, Nat)
  <2> DEFINE U == Nat \ T
  <2>1. IsWellFoundedOn(R, Nat) BY NatLessThanWellFounded
  <2>2. U \subseteq Nat /\ U # {} OBVIOUS
  <2> HIDE DEF R, U
  <2>3. \E x \in U : \A y \in U : ~ (<<y, x>> \in R) BY <2>1, <2>2, WFMin
  <2> QED BY <2>3 DEF R, U
<1>2. x # 0 /\ x - 1 \in Nat OBVIOUS
<1>3. x - 1 \in T
  <2> SUFFICES ASSUME x - 1 \in Nat \ T PROVE FALSE BY <1>2
  <2>1. <<x - 1, x>> \in OpToRel(<, Nat) BY <1>2 DEF OpToRel
  <2> QED BY <1>1, <2>1
<1>4. x \in T BY <1>3, <1>2
<1> QED BY <1>4

(* The recursive function of Keep exists: the reaper's loop over r.links   *)
(* has a value for every prefix.                                           *)
LEMMA KeepUnfolds ==
  ASSUME NEW s \in Seq(Entry)
  PROVE  \E f : /\ f = [i \in 0 .. Len(s) |->
                         IF i = 0 THEN <<>>
                         ELSE IF Usable(s[i]) THEN Append(f[i-1], s[i])
                                              ELSE f[i-1]]
                /\ Keep(s) = f[Len(s)]
<1> DEFINE Step(f, i) == IF i = 0 THEN <<>>
                         ELSE IF Usable(s[i]) THEN Append(f[i-1], s[i])
                                              ELSE f[i-1]
<1> DEFINE Solves(f, n) == f = [i \in 0 .. n |-> Step(f, i)]
<1> DEFINE T == {n \in Nat : \E f : Solves(f, n)}
<1>1. 0 \in T
  <2> DEFINE f == [i \in 0 .. 0 |-> <<>>]
  <2>1. f = [i \in 0 .. 0 |-> Step(f, i)]
    OBVIOUS
  <2> QED BY <2>1
<1>2. ASSUME NEW n \in T PROVE n + 1 \in T
  <2>1. PICK f : Solves(f, n) BY <1>2
  <2> DEFINE g == [i \in 0 .. n+1 |-> IF i <= n THEN f[i] ELSE Step(f, n+1)]
  <2>2. ASSUME NEW i \in 0 .. n+1 PROVE g[i] = Step(g, i)
    <3>1. CASE i = n + 1
      <4>1. g[n] = f[n] OBVIOUS
      <4>2. g[i] = Step(f, n+1) BY <3>1
      <4> QED BY <3>1, <4>1, <4>2
    <3>2. CASE i # n + 1
      <4>1. g[i] = f[i] BY <3>2
      <4>2. f[i] = Step(f, i)
        <5>1. i \in 0 .. n BY <3>2
        <5>2. [j \in 0 .. n |-> Step(f, j)][i] = Step(f, i) BY <5>1
        <5> HIDE DEF Step
        <5> QED BY <2>1, <5>2
      <4>3. CASE i = 0 BY <4>1, <4>2, <4>3
      <4>4. CASE i # 0
        <5>1. g[i-1] = f[i-1] BY <4>4, <3>2
        <5> QED BY <5>1, <4>1, <4>2, <4>4
      <4> QED BY <4>3, <4>4
    <3> QED BY <3>1, <3>2
  <2>3. g = [i \in 0 .. n+1 |-> Step(g, i)]
    <3> DEFINE h == [i \in 0 .. n+1 |-> Step(g, i)]
    <3>1. h = [i \in 0 .. n+1 |-> h[i]] OBVIOUS
    <3>2. g = [i \in 0 .. n+1 |-> g[i]] OBVIOUS
    <3>3. \A i \in 0 .. n+1 : g[i] = h[i] BY <2>2
    <3> HIDE DEF g, h
    <3>4. g = h BY <3>1, <3>2, <3>3
    <3> QED BY <3>4 DEF h
  <2>4. Solves(g, n+1) BY <2>3
  <2>5. n + 1 \in Nat OBVIOUS
  <2> HIDE DEF Solves, g
  <2> QED BY <2>4, <2>5
<1>3. Len(s) \in T
  <2> HIDE DEF T
  <2>1. T \subseteq Nat BY DEF T
  <2>2. Len(s) \in Nat OBVIOUS
  <2> QED BY <1>1, <1>2, <2>1, <2>2, NatSetInduction
<1>4. \E f : Solves(f, Len(s)) BY <1>3
<1> DEFINE K == CHOOSE f : Solves(f, Len(s))
<1>5. Solves(K, Len(s))
  <2> HIDE DEF Solves
  <2> QED BY <1>4
<1>6. Keep(s) = K[Len(s)] BY DEF Keep
<1> QED BY <1>5, <1>6

(* r is what is left of the first n entries of s: e says where each of its *)
(* entries comes from.                                                     *)
Embeds(e, r, s, n) ==
  /\ r \in Seq(Entry)
  /\ e \in [1 .. Len(r) -> 1 .. n]
  /\ \A i, j \in 1 .. Len(r) : i < j => e[i] < e[j]
  /\ \A i \in 1 .. Len(r) : r[i] = s[e[i]] /\ Usable(r[i])
  /\ \A j \in 1 .. n : Usable(s[j]) => \E i \in 1 .. Len(r) : e[i] = j

(* After the reaper's loop r.links is the subsequence of the links that    *)
(* are not stale, in their old order.                                      *)
LEMMA KeepEmbeds ==
  ASSUME NEW s \in Seq(Entry)
  PROVE  \E e : Embeds(e, Keep(s), s, Len(s))
<1>1. PICK f : /\ f = [i \in 0 .. Len(s) |->
                         IF i = 0 THEN <<>>
                         ELSE IF Usable(s[i]) THEN Append(f[i-1], s[i])
                                              ELSE f[i-1]]
               /\ Keep(s) = f[Len(s)]
  BY KeepUnfolds
<1> DEFINE T == {n \in Nat : n <= Len(s) => \E e : Embeds(e, f[n], s, n)}
<1>2. 0 \in T
  <2>1. f[0] = <<>> BY <1>1
  <2>2. Embeds(<<>>, <<>>, s, 0) BY DEF Embeds
  <2> QED BY <2>1, <2>2
<1>3. ASSUME NEW n \in T PROVE n + 1 \in T
  <2> SUFFICES ASSUME n + 1 <= Len(s)
               PROVE  \E e : Embeds(e, f[n+1], s, n+1)
    OBVIOUS
  <2>1. n \in Nat /\ n + 1 \in 1 .. Len(s) OBVIOUS
  <2>L. Len(s) \in Nat OBVIOUS
  <2>2. PICK e : Embeds(e, f[n], s, n) BY <2>1
  <2>3. f[n+1] = IF Usable(s[n+1]) THEN Append(f[n], s[n+1]) ELSE f[n]
    <3> DEFINE Step(i) == IF i = 0 THEN <<>>
                          ELSE IF Usable(s[i]) THEN Append(f[i-1], s[i])
                                               ELSE f[i-1]
    <3>1. n + 1 \in 0 .. Len(s) BY <2>1
    <3>2. [i \in 0 .. Len(s) |-> Step(i)][n+1] = Step(n+1) BY <3>1
    <3>3. f = [i \in 0 .. Len(s) |-> Step(i)] BY <1>1
    <3>4. f[n+1] = Step(n+1)
      <4> HIDE DEF Step
      <4> QED BY <3>2, <3>3
    <3>5. n + 1 # 0 /\ (n + 1) - 1 = n BY <2>1
    <3> QED BY <3>4, <3>5
  <2>4. s[n+1] \in Entry BY <2>1
  <2> HIDE DEF T
  <2>5. CASE ~Usable(s[n+1])
    <3>1. f[n+1] = f[n] BY <2>3, <2>5
    <3>2. Embeds(e, f[n], s, n+1) BY <2>1, <2>2, <2>5 DEF Embeds
    <3> QED BY <3>1, <3>2
  <2>6. CASE Usable(s[n+1])
    <3> DEFINE r == f[n]
               t == Append(r, s[n+1])
               d == [i \in 1 .. Len(r) + 1 |-> IF i <= Len(r) THEN e[i] ELSE n + 1]
    <3>1. r \in Seq(Entry) /\ Len(r) \in Nat BY <2>2 DEF Embeds
    <3>2. /\ t \in Seq(Entry)
          /\ Len(t) = Len(r) + 1
          /\ \A i \in 1 .. Len(r) : t[i] = r[i]
          /\ t[Len(r) + 1] = s[n+1]
      BY <3>1, <2>4
    <3>3. /\ \A i \in 1 .. Len(r) : d[i] = e[i] /\ e[i] \in 1 .. n
          /\ d[Len(r) + 1] = n + 1
      <4>1. \A i \in 1 .. Len(r) : e[i] \in 1 .. n BY <2>2 DEF Embeds
      <4>2. \A i \in 1 .. Len(r) + 1 : d[i] = IF i <= Len(r) THEN e[i] ELSE n + 1
        OBVIOUS
      <4> HIDE DEF d, r
      <4> QED BY <3>1, <4>1, <4>2
    <3>0. Len(r) + 1 \in Nat /\ n + 1 \in 1 .. n + 1 /\ 1 .. n \subseteq 1 .. n + 1
      BY <3>1, <2>1
    <3>4. d \in [1 .. Len(t) -> 1 .. n + 1]
      <4>1. d = [i \in 1 .. Len(t) |-> d[i]] BY <3>2
      <4>2. \A i \in 1 .. Len(t) : d[i] \in 1 .. n + 1
        <5> HIDE DEF t, d, r
        <5> QED BY <3>0, <3>1, <3>2, <3>3
      <4> HIDE DEF t, d, r
      <4> QED BY <4>1, <4>2
    <3> HIDE DEF t, d
    <3>5. \A i, j \in 1 .. Len(t) : i < j => d[i] < d[j]
      <4>1. \A i, j \in 1 .. Len(r) : i < j => e[i] < e[j] BY <2>2 DEF Embeds
      <4> HIDE DEF r
      <4> QED BY <2>1, <3>1, <3>2, <3>3, <4>1
    <3>6. \A i \in 1 .. Len(t) : t[i] = s[d[i]] /\ Usable(t[i])
      <4>1. \A i \in 1 .. Len(r) : r[i] = s[e[i]] /\ Usable(r[i])
        BY <2>2 DEF Embeds
      <4> HIDE DEF r
      <4>2. ASSUME NEW i \in 1 .. Len(t) PROVE t[i] = s[d[i]] /\ Usable(t[i])
        <5>1. CASE i = Len(r) + 1 BY <5>1, <2>6, <3>2, <3>3
        <5>2. CASE i # Len(r) + 1
          <6>1. i \in 1 .. Len(r) BY <5>2, <3>1, <3>2
          <6> QED BY <6>1, <3>2, <3>3, <4>1
        <5> QED BY <5>1, <5>2
      <4> QED BY <4>2
    <3>7. \A j \in 1 .. n + 1 : Usable(s[j]) => \E i \in 1 .. Len(t) : d[i] = j
      <4> SUFFICES ASSUME NEW j \in 1 .. n + 1, Usable(s[j])
                   PROVE  \E i \in 1 .. Len(t) : d[i] = j
        OBVIOUS
      <4>1. CASE j = n + 1 BY <4>1, <3>1, <3>2, <3>3
      <4>2. CASE j # n + 1
        <5>1. PICK i \in 1 .. Len(r) : e[i] = j
          BY <2>1, <2>2, <4>2 DEF Embeds
        <5>2. i \in 1 .. Len(t) /\ d[i] = j BY <5>1, <3>1, <3>2, <3>3
        <5> QED BY <5>2
      <4> QED BY <4>1, <4>2
    <3>8. Embeds(d, t, s, n+1) BY <3>2, <3>4, <3>5, <3>6, <3>7 DEF Embeds
    <3>9. f[n+1] = t BY <2>3, <2>6 DEF t
    <3> QED BY <3>8, <3>9
  <2> QED BY <2>5, <2>6
<1>4. Len(s) \in T
  <2> HIDE DEF T
  <2>1. T \subseteq Nat BY DEF T
  <2>2. Len(s) \in Nat OBVIOUS
  <2> QED BY <1>2, <1>3, <2>1, <2>2, NatSetInduction
<1> QED BY <1>1, <1>4

(* What the proofs use of the reaper's loop: it keeps only usable links,   *)
(* adds none, loses no usable one, and does not reorder them.              *)
LEMMA KeepProperties ==
  ASSUME NEW s \in Seq(Entry)
  PROVE  /\ Keep(s) \in Seq(Entry)
         /\ \A i \in DOMAIN Keep(s) : Usable(Keep(s)[i])
         /\ \A i \in DOMAIN Keep(s) : \E j \in DOMAIN s : Keep(s)[i] = s[j]
         /\ \A j \in DOMAIN s : Usable(s[j]) => \E i \in DOMAIN Keep(s) : Keep(s)[i] = s[j]
         /\ \A i, j \in DOMAIN Keep(s) : i < j =>
              \E k, l \in DOMAIN s : k < l /\ Keep(s)[i] = s[k] /\ Keep(s)[j] = s[l]
<1>1. PICK e : Embeds(e, Keep(s), s, Len(s))
  BY KeepEmbeds
<1> DEFINE r == Keep(s)
<1>2. r \in Seq(Entry) /\ DOMAIN r = 1 .. Len(r) /\ DOMAIN s = 1 .. Len(s)
  BY <1>1 DEF Embeds
<1>3. /\ \A i \in 1 .. Len(r) : e[i] \in 1 .. Len(s) /\ r[i] = s[e[i]] /\ Usable(r[i])
      /\ \A i, j \in 1 .. Len(r) : i < j => e[i] < e[j]
      /\ \A j \in 1 .. Len(s) : Usable(s[j]) => \E i \in 1 .. Len(r) : e[i] = j
  BY <1>1 DEF Embeds
<1> HIDE DEF r
<1>4. ASSUME NEW j \in DOMAIN s, Usable(s[j])
      PROVE  \E i \in DOMAIN r : r[i] = s[j]
  <2>1. PICK i \in 1 .. Len(r) : e[i] = j BY <1>2, <1>3, <1>4
  <2> QED BY <2>1, <1>2, <1>3
<1>5. \A i, j \in DOMAIN r : i < j =>
        \E k, l \in DOMAIN s : k < l /\ r[i] = s[k] /\ r[j] = s[l]
  BY <1>2, <1>3
<1>6. \A i \in DOMAIN r : Usable(r[i]) /\ \E j \in DOMAIN s : r[i] = s[j]
  BY <1>2, <1>3
<1> QED BY <1>2, <1>4, <1>5, <1>6 DEF r

-----------------------------------------------------------------------------
(* A parked link is a connection with the time it has been parked. *)
LEMMA EntryFields ==
  ASSUME TypeOK, NEW i \in DOMAIN links
  PROVE  /\ links[i] \in Entry
         /\ links[i].conn \in Conns
         /\ links[i].age \in 0 .. IdleTimeout + 1
<1>1. links[i] \in Entry BY DEF TypeOK
<1> QED BY <1>1 DEF Entry, Ages

(* NewReady starts in a well-typed state. *)
LEMMA TypeInit == Init => TypeOK
<1> SUFFICES ASSUME Init PROVE TypeOK
  OBVIOUS
<1>1. links \in Seq(Entry) BY DEF Init
<1> QED BY <1>1 DEF Init, TypeOK

(* Every operation of Ready keeps the state well typed; for ReapStale this *)
(* rests on what its loop computes.                                        *)
LEMMA TypeStep == TypeOK /\ [Next]_vars => TypeOK'
<1> SUFFICES ASSUME TypeOK, [Next]_vars PROVE TypeOK'
  OBVIOUS
<1> USE IdleAssumption DEF TypeOK
<1>1. ASSUME NEW c \in Conns, Accept(c) \/ Reject(c) PROVE TypeOK'
  BY <1>1 DEF Accept, Reject, queue, getters
<1>2. ASSUME NEW c \in Conns, Put(c) PROVE TypeOK'
  <2>1. CASE PutRefused(c)
    BY <1>2, <2>1 DEF Put, PutRefused, queue, getters
  <2>2. CASE PutParked(c)
    <3>1. [conn |-> c, age |-> 0] \in Entry BY DEF Entry, Ages
    <3>2. links' \in Seq(Entry)
      <4>1. links' = Append(links, [conn |-> c, age |-> 0]) BY <2>2 DEF PutParked, Enqueue
      <4> QED BY <3>1, <4>1
    <3>3. wait' \in Chans /\ closedChans' \subseteq Chans /\ panicked' \in BOOLEAN
      BY <2>2 DEF PutParked, WakeWaiters, CloseChan
    <3> QED BY <1>2, <2>2, <3>2, <3>3 DEF Put, PutParked, getters
  <2> QED BY <1>2, <2>1, <2>2 DEF Put
<1>3. ASSUME NEW o \in Closers, NEW c \in Conns, CloseDead(o, c) PROVE TypeOK'
  BY <1>3 DEF CloseDead, queue, getters
<1>4. ASSUME NEW g \in Getters, Call(g) \/ LookClosed(g) \/ Wake(g) \/ GiveUp(g)
      PROVE  TypeOK'
  BY <1>4 DEF Call, LookClosed, Wake, GiveUp, queue
<1>5. ASSUME NEW g \in Getters, LookTake(g) PROVE TypeOK'
  <2>1. PICK k \in DOMAIN links :
          /\ got' = [got EXCEPT ![g] = links[k].conn]
          /\ links' = Rest(k)
          /\ open' = open \ {links[j].conn : j \in k + 1 .. Len(links)}
    BY <1>5 DEF LookTake
  <2>2. links[k].conn \in Conns BY EntryFields
  <2>3. links' \in Seq(Entry) BY <2>1 DEF Rest
  <2> QED BY <1>5, <2>1, <2>2, <2>3 DEF LookTake
<1>6. ASSUME NEW g \in Getters, LookWait(g) PROVE TypeOK'
  BY <1>6 DEF LookWait
<1>7. ASSUME NEW g \in Getters, Release(g) PROVE TypeOK'
  BY <1>7 DEF Release, queue
<1>8. CASE Close
  <2>1. CASE CloseAgain BY <2>1 DEF CloseAgain, vars
  <2>2. CASE CloseFirst
    <3>1. Parked \subseteq Conns BY EntryFields DEF Parked
    <3> QED BY <2>2, <3>1 DEF CloseFirst, CloseChan, getters, Closers
  <2> QED BY <1>8, <2>1, <2>2 DEF Close
<1>9. CASE ReapStale
  <2>1. links' \in Seq(Entry) BY <1>9, KeepProperties DEF ReapStale
  <2>2. {links[i].conn : i \in {j \in DOMAIN links : ~Usable(links[j])}} \subseteq Conns
    BY EntryFields
  <2> QED BY <1>9, <2>1, <2>2 DEF ReapStale, getters, Closers
<1>10. CASE Tick
  <2> DEFINE older(i) == [links[i] EXCEPT !.age = IF @ <= IdleTimeout THEN @ + 1 ELSE @]
  <2>1. ASSUME NEW i \in DOMAIN links PROVE older(i) \in Entry
    <3>1. links[i] \in Entry BY EntryFields
    <3>2. links[i].age \in 0 .. IdleTimeout + 1 BY EntryFields
    <3> DEFINE a == links[i].age
               b == IF a <= IdleTimeout THEN a + 1 ELSE a
    <3>3. older(i) = [links[i] EXCEPT !.age = b] OBVIOUS
    <3>4. b \in Ages BY <3>2 DEF Ages
    <3> HIDE DEF b
    <3>5. [links[i] EXCEPT !.age = b] \in Entry BY <3>1, <3>4 DEF Entry
    <3> QED BY <3>3, <3>5
  <2>2. links' = [i \in 1 .. Len(links) |-> older(i)] BY <1>10 DEF Tick
  <2>3. Len(links) \in Nat OBVIOUS
  <2>4. links' \in Seq(Entry)
    <3> HIDE DEF older
    <3>1. DOMAIN links = 1 .. Len(links) OBVIOUS
    <3> QED BY <2>1, <2>2, <2>3, <3>1
  <2> QED BY <1>10, <2>4 DEF Tick, getters
<1>11. CASE UNCHANGED vars
  BY <1>11 DEF vars
<1> QED
  BY <1>1, <1>2, <1>3, <1>4, <1>5, <1>6, <1>7, <1>8, <1>9, <1>10, <1>11
  DEF Next, Get, Look

(* The state of Ready and its callers always has its type, in particular   *)
(* r.wait is never a nil channel.                                          *)
THEOREM TypeCorrect == Spec => []TypeOK
  BY TypeInit, TypeStep, PTL DEF Spec

-----------------------------------------------------------------------------
(* What r.wait is for. *)
Wakeups == NoLostWakeup /\ NoPanic /\ ClosedIsEmpty

(* The reaper leaves an empty queue empty. *)
LEMMA KeepOfEmpty == Keep(<<>>) = <<>>
<1>1. <<>> \in Seq(Entry) OBVIOUS
<1>2. \A i \in DOMAIN Keep(<<>>) : \E j \in DOMAIN <<>> : Keep(<<>>)[i] = <<>>[j]
  BY <1>1, KeepProperties
<1> DEFINE r == Keep(<<>>)
<1>3. r \in Seq(Entry) BY <1>1, KeepProperties
<1>4. \A i \in DOMAIN r : FALSE BY <1>2
<1> HIDE DEF r
<1>5. Len(r) = 0 BY <1>3, <1>4
<1>6. r = <<>> BY <1>3, <1>5
<1> QED BY <1>6 DEF r

(* Every operation preserves that sleeping getters sleep for a reason,     *)
(* that no channel is closed twice and that nothing is parked on a closed  *)
(* queue. The three are needed together: that Put does not panic rests on  *)
(* r.wait being open exactly as long as r.closed is false.                 *)
LEMMA WakeupsStep == TypeOK /\ Wakeups /\ [Next]_vars => Wakeups'
<1> SUFFICES ASSUME TypeOK, Wakeups, [Next]_vars PROVE Wakeups'
  OBVIOUS
<1> USE DEF Wakeups, NoLostWakeup, NoPanic, ClosedIsEmpty
<1>1. ASSUME NEW c \in Conns, Accept(c) \/ Reject(c) PROVE Wakeups'
  BY <1>1 DEF Accept, Reject, queue, getters
<1>2. ASSUME NEW c \in Conns, Put(c) PROVE Wakeups'
  <2>1. CASE PutRefused(c)
    BY <1>2, <2>1 DEF Put, PutRefused, queue, getters
  <2>2. CASE PutParked(c)
    <3>1. PICK ch \in Chans : Unreferenced(ch) /\ wait' = ch /\ CloseChan(wait, {ch})
      BY <2>2 DEF PutParked, WakeWaiters
    <3>2. ~closed /\ ~closed' /\ wait \notin closedChans
      BY <2>2 DEF PutParked, Running
    <3>3. ASSUME NEW g \in Getters, pc'[g] = "waiting"
          PROVE  waitingOn'[g] \in closedChans'
      <4>1. pc[g] = "waiting" /\ waitingOn'[g] = waitingOn[g]
        BY <1>2, <3>3 DEF Put, getters
      <4>2. waitingOn[g] # ch BY <3>1 DEF Unreferenced
      <4> QED BY <3>1, <4>1, <4>2 DEF CloseChan
    <3> QED BY <3>1, <3>2, <3>3 DEF CloseChan
  <2> QED BY <1>2, <2>1, <2>2 DEF Put
<1>3. ASSUME NEW o \in Closers, NEW c \in Conns, CloseDead(o, c) PROVE Wakeups'
  BY <1>3 DEF CloseDead, queue, getters
<1>4. ASSUME NEW g \in Getters, Call(g) \/ LookClosed(g) \/ Wake(g) \/ GiveUp(g)
      PROVE  Wakeups'
  BY <1>4 DEF TypeOK, Call, LookClosed, Wake, GiveUp, queue
<1>5. ASSUME NEW g \in Getters, LookTake(g) PROVE Wakeups'
  <2>1. links # <<>> BY <1>5 DEF LookTake
  <2>2. pc' = [pc EXCEPT ![g] = "idle"] /\ UNCHANGED <<closed, wait, closedChans, panicked, waitingOn>>
    BY <1>5 DEF LookTake
  <2>3. ~closed BY <1>5 DEF LookTake
  <2> QED BY <2>1, <2>2, <2>3 DEF TypeOK
<1>6. ASSUME NEW g \in Getters, LookWait(g) PROVE Wakeups'
  BY <1>6 DEF LookWait, TypeOK
<1>7. ASSUME NEW g \in Getters, Release(g) PROVE Wakeups'
  BY <1>7 DEF Release, queue
<1>8. CASE Close
  <2>1. CASE CloseAgain BY <2>1 DEF CloseAgain, vars
  <2>2. CASE CloseFirst
    <3>1. /\ wait' = wait /\ wait \in closedChans' /\ closed' /\ links' = <<>>
          /\ closedChans' = closedChans \cup {wait} /\ pc' = pc /\ waitingOn' = waitingOn
          /\ wait \notin closedChans /\ panicked' = (panicked \/ wait \in closedChans)
      BY <2>2 DEF CloseFirst, CloseChan, getters, Running
    <3> QED BY <3>1
  <2> QED BY <1>8, <2>1, <2>2 DEF Close
<1>9. CASE ReapStale
  <2>1. links = <<>> => links' = <<>> BY <1>9, KeepOfEmpty DEF ReapStale
  <2> QED BY <1>9, <2>1 DEF ReapStale, getters
<1>10. CASE Tick
  <2>1. links # <<>> BY <1>10 DEF Tick
  <2> QED BY <1>10, <2>1 DEF Tick, getters
<1>11. CASE UNCHANGED vars
  BY <1>11 DEF vars
<1> QED
  BY <1>1, <1>2, <1>3, <1>4, <1>5, <1>6, <1>7, <1>8, <1>9, <1>10, <1>11
  DEF Next, Get, Look

-----------------------------------------------------------------------------
(* Put, Get, ReapStale and the passing of time keep the queue in the order *)
(* of parking.                                                             *)
LEMMA OrderStep == TypeOK /\ OldestFirst /\ [Next]_vars => OldestFirst'
<1> SUFFICES ASSUME TypeOK, OldestFirst, [Next]_vars PROVE OldestFirst'
  OBVIOUS
<1>1. CASE UNCHANGED links
  BY <1>1 DEF OldestFirst
<1>2. ASSUME NEW c \in Conns, Put(c) PROVE OldestFirst'
  <2>1. CASE PutRefused(c)
    BY <2>1, <1>1 DEF PutRefused, queue
  <2>2. CASE PutParked(c)
    <3>1. links' = Append(links, [conn |-> c, age |-> 0])
      BY <2>2 DEF PutParked, Enqueue
    <3>2. \A i \in DOMAIN links : links[i].age \in 0 .. IdleTimeout + 1
      BY EntryFields
    <3>3. /\ DOMAIN links = 1 .. Len(links)
          /\ DOMAIN links' = 1 .. Len(links) + 1
          /\ Len(links) \in Nat
          /\ \A i \in DOMAIN links : links'[i] = links[i]
          /\ links'[Len(links) + 1].age = 0
      BY <3>1 DEF TypeOK
    <3> QED BY <3>2, <3>3, IdleAssumption DEF OldestFirst
  <2> QED BY <1>2, <2>1, <2>2 DEF Put
<1>3. ASSUME NEW g \in Getters, LookTake(g) PROVE OldestFirst'
  <2>1. PICK k \in DOMAIN links : links' = Rest(k) BY <1>3 DEF LookTake
  <2>2. /\ k \in 1 .. Len(links) /\ Len(links) \in Nat
        /\ DOMAIN links' = 1 .. k - 1
        /\ \A i \in 1 .. k - 1 : links'[i] = links[i] /\ i \in DOMAIN links
    BY <2>1 DEF Rest, TypeOK
  <2> QED BY <2>2 DEF OldestFirst
<1>4. ASSUME links' = <<>> PROVE OldestFirst'
  BY <1>4 DEF OldestFirst
<1>5. CASE ReapStale
  <2>1. links \in Seq(Entry) /\ links' = Keep(links) BY <1>5 DEF TypeOK, ReapStale
  <2>2. \A i, j \in DOMAIN links' : i < j =>
          \E k, l \in DOMAIN links : k < l /\ links'[i] = links[k] /\ links'[j] = links[l]
    BY <2>1, KeepProperties
  <2> QED BY <2>2 DEF OldestFirst
<1>6. CASE Tick
  <2> DEFINE Up(a) == IF a <= IdleTimeout THEN a + 1 ELSE a
  <2>1. DOMAIN links' = DOMAIN links BY <1>6 DEF Tick
  <2>2. ASSUME NEW i \in DOMAIN links PROVE links'[i].age = Up(links[i].age)
    <3>1. links'[i] = [links[i] EXCEPT !.age = Up(links[i].age)] BY <1>6 DEF Tick
    <3>2. links[i] \in Entry BY EntryFields
    <3> HIDE DEF Up
    <3> QED BY <3>1, <3>2 DEF Entry
  <2>3. \A i \in DOMAIN links : links[i].age \in 0 .. IdleTimeout + 1 BY EntryFields
  <2>4. ASSUME NEW i \in DOMAIN links', NEW j \in DOMAIN links', i < j
        PROVE  links'[i].age >= links'[j].age
    <3>1. links[i].age >= links[j].age BY <2>1, <2>4 DEF OldestFirst
    <3> QED BY <3>1, <2>1, <2>2, <2>3, IdleAssumption
  <2> QED BY <2>4 DEF OldestFirst
<1>7. \A g \in Getters : LookWait(g) => links' = <<>>
  BY DEF LookWait
<1>8. CloseFirst => links' = <<>>
  BY DEF CloseFirst
<1>9. \/ UNCHANGED links
      \/ \E c \in Conns : Put(c)
      \/ \E g \in Getters : LookTake(g) \/ LookWait(g)
      \/ CloseFirst
      \/ ReapStale
      \/ Tick
  BY DEF Next, Get, Look, Accept, Reject, CloseDead, Call, LookClosed, Wake, GiveUp,
         Release, Close, CloseAgain, vars, queue
<1> QED
  BY <1>1, <1>2, <1>3, <1>4, <1>5, <1>6, <1>7, <1>8, <1>9

-----------------------------------------------------------------------------
(* Who holds a link, and what is open. *)
Ownership == SoleHolder /\ OpenIffHeld

(* The queue itself is untouched: only the sets around it move. *)
LEMMA ParkedUnchanged == links' = links => Parked' = Parked
  BY DEF Parked

(* Links in use change only when got does. *)
LEMMA HandedUnchanged == got' = got => Handed' = Handed
  BY DEF Handed

(* Links about to be closed change only when dead does. *)
LEMMA DeadUnchanged == dead' = dead => Dead' = Dead
  BY DEF Dead

(* A goroutine that removes links to close them adds just these. *)
LEMMA DeadAdds ==
  ASSUME TypeOK, NEW o \in Closers, NEW S, dead' = [dead EXCEPT ![o] = @ \cup S]
  PROVE  Dead' = Dead \cup S
  BY DEF TypeOK, Dead

(* A goroutine that is still inside Get holds no link yet. *)
AskersHoldNothing == \A g \in Getters : pc[g] # "idle" => got[g] = NoConn

(* A getter is given a link only in the step in which Get returns. *)
LEMMA AskersStep == TypeOK /\ AskersHoldNothing /\ [Next]_vars => AskersHoldNothing'
<1> SUFFICES ASSUME TypeOK, AskersHoldNothing, [Next]_vars PROVE AskersHoldNothing'
  OBVIOUS
<1> USE DEF AskersHoldNothing
<1>1. CASE UNCHANGED <<pc, got>>
  BY <1>1
<1>2. ASSUME NEW g \in Getters, Get(g) \/ Release(g) PROVE AskersHoldNothing'
  <2>1. \/ /\ pc' = [pc EXCEPT ![g] = "looking"] /\ got' = got
           /\ got[g] = NoConn
        \/ /\ pc' = [pc EXCEPT ![g] = "waiting"] /\ got' = got
           /\ got[g] = NoConn
        \/ /\ pc' = [pc EXCEPT ![g] = "idle"]
           /\ \A h \in Getters : h # g => got'[h] = got[h]
        \/ /\ pc' = pc
           /\ got' = [got EXCEPT ![g] = NoConn]
    <3>1. CASE Call(g) BY <3>1 DEF Call
    <3>2. CASE LookClosed(g) BY <3>2 DEF LookClosed
    <3>3. CASE LookTake(g) BY <3>3 DEF LookTake, TypeOK
    <3>4. CASE LookWait(g) BY <3>4 DEF LookWait
    <3>5. CASE Wake(g) BY <3>5 DEF Wake
    <3>6. CASE GiveUp(g) BY <3>6 DEF GiveUp
    <3>7. CASE Release(g) BY <3>7 DEF Release
    <3> QED BY <1>2, <3>1, <3>2, <3>3, <3>4, <3>5, <3>6, <3>7 DEF Get, Look
  <2> QED BY <2>1 DEF TypeOK
<1>3. UNCHANGED <<pc, got>> \/ \E g \in Getters : Get(g) \/ Release(g)
  BY DEF Next, Accept, Reject, Put, CloseDead, Close, CloseAgain, CloseFirst, ReapStale,
         Tick, vars, getters
<1> QED BY <1>1, <1>2, <1>3

(* The sets of links that a step moves from one holder to another.         *)

(* Put parks the link it was called with. *)
LEMMA PutParks ==
  ASSUME TypeOK, NEW c \in Conns, links' = Append(links, [conn |-> c, age |-> 0])
  PROVE  Parked' = Parked \cup {c}
<1>1. /\ DOMAIN links = 1 .. Len(links)
      /\ DOMAIN links' = 1 .. Len(links) + 1
      /\ Len(links) \in Nat
      /\ \A i \in DOMAIN links : links'[i] = links[i]
      /\ links'[Len(links) + 1].conn = c
  BY DEF TypeOK
<1> QED BY <1>1 DEF Parked

(* A dead link is somebody's, and closing it ends that. *)
LEMMA DeadIsClosed ==
  ASSUME TypeOK, Ownership, NEW o \in Closers, NEW c \in Conns, CloseDead(o, c)
  PROVE  Dead' = Dead \ {c} /\ c \in Dead
<1>1. c \in dead[o] /\ dead' = [dead EXCEPT ![o] = @ \ {c}]
  BY DEF CloseDead
<1>2. \A q \in Closers : dead'[q] = dead[q] \ {c}
  BY <1>1 DEF TypeOK, Ownership, SoleHolder
<1> QED BY <1>1, <1>2 DEF Dead

(* Taking the link at k leaves those before it parked. *)
LEMMA TakeUnparks ==
  ASSUME TypeOK, Ownership, NEW k \in DOMAIN links, links' = Rest(k)
  PROVE  LET c == links[k].conn
             S == {links[j].conn : j \in k + 1 .. Len(links)}
         IN  /\ c \in Parked /\ S \subseteq Parked /\ c \notin S
             /\ Parked' = Parked \ ({c} \cup S)
<1> DEFINE c == links[k].conn
           S == {links[j].conn : j \in k + 1 .. Len(links)}
<1>1. /\ k \in 1 .. Len(links) /\ Len(links) \in Nat
      /\ DOMAIN links = 1 .. Len(links)
      /\ DOMAIN links' = 1 .. k - 1
      /\ \A i \in 1 .. k - 1 : links'[i] = links[i] /\ i \in DOMAIN links
  BY DEF Rest, TypeOK
<1>2. \A i, j \in DOMAIN links : i # j => links[i].conn # links[j].conn
  BY DEF Ownership, SoleHolder
<1>3. c \in Parked /\ S \subseteq Parked /\ c \notin S
  BY <1>1, <1>2 DEF Parked
<1>4. Parked' = Parked \ ({c} \cup S)
  <2>1. Parked' = {links[i].conn : i \in 1 .. k - 1}
    BY <1>1 DEF Parked
  <2>2. ASSUME NEW i \in 1 .. k - 1
        PROVE  links[i].conn \in Parked \ ({c} \cup S)
    BY <1>1, <1>2 DEF Parked
  <2>3. ASSUME NEW x \in Parked, x \notin {c} \cup S
        PROVE  x \in {links[i].conn : i \in 1 .. k - 1}
    <3>1. PICK i \in DOMAIN links : x = links[i].conn BY DEF Parked
    <3>2. i # k /\ i \notin k + 1 .. Len(links) BY <2>3, <3>1
    <3>3. i \in 1 .. k - 1 BY <1>1, <3>2
    <3> QED BY <3>1, <3>3
  <2> QED BY <2>1, <2>2, <2>3
<1> QED BY <1>3, <1>4

(* A getter that held nothing is handed a link. *)
LEMMA GotHands ==
  ASSUME TypeOK, NEW g \in Getters, got[g] = NoConn, NEW c \in Conns,
         got' = [got EXCEPT ![g] = c]
  PROVE  Handed' = Handed \cup {c}
BY NoConnAssumption DEF Handed, TypeOK

(* A getter that is done has handed its link back, and nobody else had it. *)
LEMMA ReleaseUnhands ==
  ASSUME TypeOK, Ownership, NEW g \in Getters, got[g] # NoConn,
         got' = [got EXCEPT ![g] = NoConn]
  PROVE  Handed' = Handed \ {got[g]} /\ got[g] \in Handed
<1>1. \A h \in Getters : got'[h] = IF h = g THEN NoConn ELSE got[h]
  BY DEF TypeOK
<1> QED BY <1>1 DEF Handed, Ownership, SoleHolder

(* The reaper takes the stale links out and leaves the others. *)
LEMMA ReapUnparks ==
  ASSUME TypeOK, Ownership, links' = Keep(links)
  PROVE  LET S == {links[i].conn : i \in {j \in DOMAIN links : ~Usable(links[j])}}
         IN  Parked' = Parked \ S /\ S \subseteq Parked
<1> DEFINE S == {links[i].conn : i \in {j \in DOMAIN links : ~Usable(links[j])}}
<1>1. /\ \A i \in DOMAIN links' : Usable(links'[i])
      /\ \A i \in DOMAIN links' : \E j \in DOMAIN links : links'[i] = links[j]
      /\ \A j \in DOMAIN links : Usable(links[j]) => \E i \in DOMAIN links' : links'[i] = links[j]
  BY KeepProperties DEF TypeOK
<1>2. \A i, j \in DOMAIN links : i # j => links[i].conn # links[j].conn
  BY DEF Ownership, SoleHolder
<1>3. ASSUME NEW x \in Parked' PROVE x \in Parked \ S
  <2>1. PICK i \in DOMAIN links' : x = links'[i].conn BY DEF Parked
  <2>2. PICK j \in DOMAIN links : links'[i] = links[j] BY <1>1
  <2>3. Usable(links[j]) BY <1>1, <2>2
  <2> QED BY <1>2, <2>1, <2>2, <2>3 DEF Parked
<1>4. ASSUME NEW x \in Parked, x \notin S PROVE x \in Parked'
  <2>1. PICK j \in DOMAIN links : x = links[j].conn BY DEF Parked
  <2>2. Usable(links[j]) BY <1>4, <2>1
  <2>3. PICK i \in DOMAIN links' : links'[i] = links[j] BY <1>1, <2>2
  <2> QED BY <2>1, <2>3 DEF Parked
<1>5. S \subseteq Parked BY DEF Parked
<1> QED BY <1>3, <1>4, <1>5

(* The reaper had closed the links of its last round. *)
LEMMA ReaperAdds ==
  ASSUME TypeOK, dead["reaper"] = {}, NEW S, dead' = [dead EXCEPT !["reaper"] = S]
  PROVE  Dead' = Dead \cup S
BY DEF Dead, TypeOK, Closers

(* Time makes links older and nothing else. *)
LEMMA TickKeepsLinks ==
  ASSUME TypeOK, Tick
  PROVE  (\A i \in DOMAIN links : links'[i].conn = links[i].conn) /\ Parked' = Parked
<1>1. DOMAIN links' = DOMAIN links
  BY DEF Tick
<1>2. ASSUME NEW i \in DOMAIN links PROVE links'[i].conn = links[i].conn
  <2> DEFINE b == IF links[i].age <= IdleTimeout THEN links[i].age + 1 ELSE links[i].age
  <2>1. links'[i] = [links[i] EXCEPT !.age = b] BY DEF Tick
  <2>2. links[i] \in Entry BY EntryFields
  <2> HIDE DEF b
  <2> QED BY <2>1, <2>2 DEF Entry
<1>3. Parked' = Parked BY <1>1, <1>2 DEF Parked
<1> QED BY <1>2, <1>3

(* Every operation moves a link from one holder to at most one other, and  *)
(* closes it exactly when nobody holds it any more.                        *)
LEMMA OwnershipStep ==
  TypeOK /\ Ownership /\ AskersHoldNothing /\ [Next]_vars => Ownership'
<1> SUFFICES ASSUME TypeOK, Ownership, AskersHoldNothing, [Next]_vars PROVE Ownership'
  OBVIOUS
<1>1. ASSUME NEW c \in Conns, Accept(c) \/ Reject(c) PROVE Ownership'
  <2>1. UNCHANGED <<links, got, dead>>
    BY <1>1 DEF Accept, Reject, queue, getters
  <2>2. Parked' = Parked /\ Handed' = Handed /\ Dead' = Dead
    BY <2>1, ParkedUnchanged, HandedUnchanged, DeadUnchanged
  <2>3. CASE Accept(c)
    <3>1. c \notin open /\ open' = open \cup {c} /\ fresh' = fresh \cup {c}
      BY <2>3 DEF Accept
    <3> QED BY <2>1, <2>2, <3>1 DEF Ownership, SoleHolder, OpenIffHeld
  <2>4. CASE Reject(c)
    <3>1. c \in fresh /\ open' = open \ {c} /\ fresh' = fresh \ {c}
      BY <2>4 DEF Reject
    <3> QED BY <2>1, <2>2, <3>1 DEF Ownership, SoleHolder, OpenIffHeld
  <2> QED BY <1>1, <2>3, <2>4
<1>2. ASSUME NEW c \in Conns, Put(c) PROVE Ownership'
  <2>1. c \in fresh /\ fresh' = fresh \ {c} /\ got' = got /\ open' = open
    BY <1>2 DEF Put, getters
  <2>2. Handed' = Handed BY <2>1, HandedUnchanged
  <2>3. CASE PutRefused(c)
    <3>1. links' = links /\ dead' = [dead EXCEPT !["putter"] = @ \cup {c}]
      BY <2>3 DEF PutRefused, queue
    <3>2. Parked' = Parked BY <3>1, ParkedUnchanged
    <3>3. Dead' = Dead \cup {c} BY <3>1, DeadAdds DEF Closers
    <3>4. c \notin Dead BY <2>1 DEF Ownership, SoleHolder
    <3>5. \A o, q \in Closers : o # q => dead'[o] \cap dead'[q] = {}
      BY <3>1, <3>4 DEF Ownership, SoleHolder, TypeOK, Dead
    <3> QED BY <2>1, <2>2, <3>1, <3>2, <3>3, <3>5 DEF Ownership, SoleHolder, OpenIffHeld
  <2>4. CASE PutParked(c)
    <3>1. links' = Append(links, [conn |-> c, age |-> 0]) /\ dead' = dead
      BY <2>4 DEF PutParked, Enqueue
    <3>2. Dead' = Dead BY <3>1, DeadUnchanged
    <3>3. /\ DOMAIN links = 1 .. Len(links)
          /\ DOMAIN links' = 1 .. Len(links) + 1
          /\ Len(links) \in Nat
          /\ \A i \in DOMAIN links : links'[i] = links[i]
          /\ links'[Len(links) + 1].conn = c
      BY <3>1 DEF TypeOK
    <3>4. Parked' = Parked \cup {c} BY <3>1, PutParks
    <3>5. \A i \in DOMAIN links : links[i].conn # c
      BY <2>1 DEF Ownership, SoleHolder, Parked
    <3>6. \A i, j \in DOMAIN links' : i # j => links'[i].conn # links'[j].conn
      BY <3>3, <3>5 DEF Ownership, SoleHolder
    <3> QED BY <2>1, <2>2, <3>1, <3>2, <3>4, <3>6 DEF Ownership, SoleHolder, OpenIffHeld
  <2> QED BY <1>2, <2>3, <2>4 DEF Put
<1>3. ASSUME NEW o \in Closers, NEW c \in Conns, CloseDead(o, c) PROVE Ownership'
  <2>1. /\ UNCHANGED <<links, got, fresh>> /\ c \in dead[o]
        /\ dead' = [dead EXCEPT ![o] = @ \ {c}] /\ open' = open \ {c}
    BY <1>3 DEF CloseDead, queue, getters
  <2>2. Parked' = Parked /\ Handed' = Handed
    BY <2>1, ParkedUnchanged, HandedUnchanged
  <2>3. \A q \in Closers : dead'[q] = dead[q] \ {c}
    BY <2>1 DEF TypeOK, Ownership, SoleHolder
  <2>4. Dead' = Dead \ {c} /\ c \in Dead
    BY <1>3, DeadIsClosed
  <2> QED BY <2>1, <2>2, <2>3, <2>4 DEF Ownership, SoleHolder, OpenIffHeld
<1>4. ASSUME UNCHANGED <<links, got, fresh, dead, open>> PROVE Ownership'
  <2>1. Parked' = Parked /\ Handed' = Handed /\ Dead' = Dead
    BY <1>4, ParkedUnchanged, HandedUnchanged, DeadUnchanged
  <2> QED BY <1>4, <2>1 DEF Ownership, SoleHolder, OpenIffHeld
<1>5. ASSUME NEW g \in Getters, LookTake(g) PROVE Ownership'
  <2>1. PICK k \in DOMAIN links :
          /\ got' = [got EXCEPT ![g] = links[k].conn]
          /\ links' = Rest(k)
          /\ open' = open \ {links[j].conn : j \in k + 1 .. Len(links)}
    BY <1>5 DEF LookTake
  <2>0. got[g] = NoConn BY <1>5 DEF LookTake, AskersHoldNothing
  <2> DEFINE c == links[k].conn
             S == {links[j].conn : j \in k + 1 .. Len(links)}
  <2>2. /\ k \in 1 .. Len(links) /\ Len(links) \in Nat
        /\ DOMAIN links = 1 .. Len(links)
        /\ DOMAIN links' = 1 .. k - 1
        /\ \A i \in 1 .. k - 1 : links'[i] = links[i] /\ i \in DOMAIN links
    BY <2>1 DEF Rest, TypeOK
  <2>3. \A i, j \in DOMAIN links : i # j => links[i].conn # links[j].conn
    BY DEF Ownership, SoleHolder
  <2>4. c \in Parked /\ S \subseteq Parked /\ c \notin S
    BY <2>1, TakeUnparks
  <2>5. Parked' = Parked \ ({c} \cup S)
    BY <2>1, TakeUnparks
  <2>6. c \in Conns BY EntryFields
  <2>7. Handed' = Handed \cup {c}
    BY <2>0, <2>1, <2>6, GotHands
  <2>8. dead' = dead /\ fresh' = fresh BY <1>5 DEF LookTake
  <2>9. Dead' = Dead BY <2>8, DeadUnchanged
  <2>10. \A i, j \in DOMAIN links' : i # j => links'[i].conn # links'[j].conn
    BY <2>2, <2>3
  <2>11. c \notin Handed BY <2>4 DEF Ownership, SoleHolder
  <2>12. \A h, i \in Getters : h # i /\ got'[h] # NoConn => got'[h] # got'[i]
    <3> HIDE DEF c
    <3>1. got' = [got EXCEPT ![g] = c] BY <2>1 DEF c
    <3>2. \A h \in Getters : got[h] # c
      BY <2>6, <2>11, NoConnAssumption DEF Handed
    <3> QED BY <3>1, <3>2 DEF TypeOK, Ownership, SoleHolder
  <2> HIDE DEF c, S
  <2>13. open' = open \ S BY <2>1 DEF S
  <2> QED BY <2>4, <2>5, <2>7, <2>8, <2>9, <2>10, <2>11, <2>12, <2>13
      DEF Ownership, SoleHolder, OpenIffHeld
<1>6. ASSUME NEW g \in Getters, LookWait(g) PROVE Ownership'
  <2>1. links' = <<>> /\ open' = open \ Parked /\ UNCHANGED <<got, fresh, dead>>
    BY <1>6 DEF LookWait
  <2>2. Parked' = {} BY <2>1 DEF Parked
  <2>3. Handed' = Handed /\ Dead' = Dead
    BY <2>1, HandedUnchanged, DeadUnchanged
  <2> QED BY <2>1, <2>2, <2>3 DEF Ownership, SoleHolder, OpenIffHeld
<1>7. ASSUME NEW g \in Getters, Release(g) PROVE Ownership'
  <2>1. /\ got[g] # NoConn /\ got' = [got EXCEPT ![g] = NoConn]
        /\ open' = open \ {got[g]} /\ UNCHANGED <<links, fresh, dead>>
    BY <1>7 DEF Release, queue
  <2>2. Parked' = Parked /\ Dead' = Dead
    BY <2>1, ParkedUnchanged, DeadUnchanged
  <2>3. \A h \in Getters : got'[h] = IF h = g THEN NoConn ELSE got[h]
    BY <2>1 DEF TypeOK
  <2>4. Handed' = Handed \ {got[g]} /\ got[g] \in Handed
    BY <2>1, ReleaseUnhands
  <2>5. \A h, i \in Getters : h # i /\ got'[h] # NoConn => got'[h] # got'[i]
    BY <2>3 DEF Ownership, SoleHolder
  <2> QED BY <2>1, <2>2, <2>4, <2>5 DEF Ownership, SoleHolder, OpenIffHeld
<1>8. CASE CloseFirst
  <2>1. /\ links' = <<>> /\ dead' = [dead EXCEPT !["closer"] = @ \cup Parked]
        /\ UNCHANGED <<got, fresh, open>>
    BY <1>8 DEF CloseFirst, getters
  <2>2. Parked' = {} BY <2>1 DEF Parked
  <2>3. Handed' = Handed BY <2>1, HandedUnchanged
  <2>4. Dead' = Dead \cup Parked BY <2>1, DeadAdds DEF Closers
  <2>5. Parked \cap Dead = {} BY DEF Ownership, SoleHolder
  <2>6. \A o, q \in Closers : o # q => dead'[o] \cap dead'[q] = {}
    BY <2>1, <2>5 DEF Ownership, SoleHolder, TypeOK, Dead
  <2> QED BY <2>1, <2>2, <2>3, <2>4, <2>6 DEF Ownership, SoleHolder, OpenIffHeld
<1>9. CASE ReapStale
  <2> DEFINE S == {links[i].conn : i \in {j \in DOMAIN links : ~Usable(links[j])}}
  <2>1. /\ links' = Keep(links) /\ dead["reaper"] = {}
        /\ dead' = [dead EXCEPT !["reaper"] = S]
        /\ UNCHANGED <<got, fresh, open>>
    BY <1>9 DEF ReapStale, getters
  <2>2. /\ \A i \in DOMAIN links' : Usable(links'[i])
        /\ \A i \in DOMAIN links' : \E j \in DOMAIN links : links'[i] = links[j]
        /\ \A j \in DOMAIN links : Usable(links[j]) => \E i \in DOMAIN links' : links'[i] = links[j]
        /\ \A i, j \in DOMAIN links' : i < j =>
              \E k, l \in DOMAIN links : k < l /\ links'[i] = links[k] /\ links'[j] = links[l]
    BY <2>1, KeepProperties DEF TypeOK
  <2>3. \A i, j \in DOMAIN links : i # j => links[i].conn # links[j].conn
    BY DEF Ownership, SoleHolder
  <2>4. Parked' = Parked \ S /\ S \subseteq Parked
    BY <2>1, ReapUnparks
  <2>6. \A i, j \in DOMAIN links' : i # j => links'[i].conn # links'[j].conn
    <3>1. DOMAIN links' \subseteq Nat BY DEF TypeOK
    <3>2. \A i, j \in DOMAIN links' : i < j => links'[i].conn # links'[j].conn
      <4>1. \A k, l \in DOMAIN links : k < l => k # l BY DEF TypeOK
      <4> QED BY <2>2, <2>3, <4>1
    <3> QED BY <3>1, <3>2
  <2>7. Handed' = Handed BY <2>1, HandedUnchanged
  <2> HIDE DEF S
  <2>8. Dead' = Dead \cup S BY <2>1, ReaperAdds
  <2>9. Parked \cap Dead = {} BY DEF Ownership, SoleHolder
  <2>10. \A o, q \in Closers : o # q => dead'[o] \cap dead'[q] = {}
    BY <2>1, <2>4, <2>9 DEF Ownership, SoleHolder, TypeOK, Dead
  <2> QED BY <2>1, <2>4, <2>6, <2>7, <2>8, <2>10 DEF Ownership, SoleHolder, OpenIffHeld
<1>10. CASE Tick
  <2>1. DOMAIN links' = DOMAIN links /\ UNCHANGED <<got, fresh, dead, open>>
    BY <1>10 DEF Tick, getters
  <2>2. \A i \in DOMAIN links : links'[i].conn = links[i].conn
    BY <1>10, TickKeepsLinks
  <2>3. Parked' = Parked BY <1>10, TickKeepsLinks
  <2>4. Handed' = Handed /\ Dead' = Dead
    BY <2>1, HandedUnchanged, DeadUnchanged
  <2> QED BY <2>1, <2>2, <2>3, <2>4 DEF Ownership, SoleHolder, OpenIffHeld
<1>11. \/ UNCHANGED <<links, got, fresh, dead, open>>
       \/ \E c \in Conns : Accept(c) \/ Reject(c) \/ Put(c)
       \/ \E o \in Closers, c \in Conns : CloseDead(o, c)
       \/ \E g \in Getters : LookTake(g) \/ LookWait(g) \/ Release(g)
       \/ CloseFirst
       \/ ReapStale
       \/ Tick
  BY DEF Next, Get, Look, Call, LookClosed, Wake, GiveUp, Close, CloseAgain, vars, queue
<1> QED
  BY <1>1, <1>2, <1>3, <1>4, <1>5, <1>6, <1>7, <1>8, <1>9, <1>10, <1>11

-----------------------------------------------------------------------------
(* The inductive invariant. *)
IInv == TypeOK /\ Ownership /\ AskersHoldNothing /\ Wakeups /\ OldestFirst

(* NewReady establishes the inductive invariant. *)
LEMMA InvInit == Init => IInv
<1> SUFFICES ASSUME Init PROVE IInv
  OBVIOUS
<1>1. TypeOK BY TypeInit
<1>2. Parked = {} /\ Handed = {} /\ Dead = {}
  BY DEF Init, Parked, Handed, Dead
<1>3. Ownership BY <1>2 DEF Init, Ownership, SoleHolder, OpenIffHeld
<1>4. AskersHoldNothing BY DEF Init, AskersHoldNothing
<1>5. Wakeups BY DEF Init, Wakeups, NoLostWakeup, NoPanic, ClosedIsEmpty
<1>6. OldestFirst BY DEF Init, OldestFirst
<1> QED BY <1>1, <1>3, <1>4, <1>5, <1>6 DEF IInv

(* Every operation preserves the inductive invariant. *)
LEMMA InvStep == IInv /\ [Next]_vars => IInv'
  BY TypeStep, OwnershipStep, AskersStep, WakeupsStep, OrderStep DEF IInv

(* The inductive invariant of Ready holds in every reachable state. *)
THEOREM Invariant == Spec => []IInv
  BY InvInit, InvStep, PTL DEF Spec

(* For any number of users and links, Put, Get, ReapStale and Close never  *)
(* let a link have two holders.                                            *)
THEOREM NobodySharesALink == Spec => []SoleHolder
<1>1. IInv => SoleHolder BY DEF IInv, Ownership
<1> QED BY <1>1, Invariant, PTL

(* No link is closed under its holder by Get, ReapStale or Close and none  *)
(* is left open that nobody holds, Put's refusal included.                 *)
THEOREM NoLinkLeaks == Spec => []OpenIffHeld
<1>1. IInv => OpenIffHeld BY DEF IInv, Ownership
<1> QED BY <1>1, Invariant, PTL

(* A Get that sleeps on an open channel has nothing to take: Put, Close    *)
(* and the capture of r.wait under the lock lose no wakeup.                *)
THEOREM NobodySleepsNextToALink == Spec => []NoLostWakeup
<1>1. IInv => NoLostWakeup BY DEF IInv, Wakeups
<1> QED BY <1>1, Invariant, PTL

(* Neither Put nor a repeated Close closes r.wait a second time. *)
THEOREM ChannelsCloseOnce == Spec => []NoPanic
<1>1. IInv => NoPanic BY DEF IInv, Wakeups
<1> QED BY <1>1, Invariant, PTL

(* r.links is in the order of parking, so Get's end is the freshest. *)
THEOREM QueueIsByAge == Spec => []OldestFirst
<1>1. IInv => OldestFirst BY DEF IInv
<1> QED BY <1>1, Invariant, PTL

(* After Close r.links is empty for ever. *)
THEOREM NothingStaysBehind == Spec => []ClosedIsEmpty
<1>1. IInv => ClosedIsEmpty BY DEF IInv, Wakeups
<1> QED BY <1>1, Invariant, PTL

(* Put, Get, ReapStale and Close together: a link is in one place, open    *)
(* while it is, and r.links is in order and empty once closed.             *)
THEOREM LinksAreAccountedFor == Spec => []Custody
<1>1. Custody <=> SoleHolder /\ OpenIffHeld /\ OldestFirst /\ ClosedIsEmpty
  BY DEF Custody
<1> QED BY <1>1, NobodySharesALink, NoLinkLeaks, QueueIsByAge, NothingStaysBehind, PTL

(* r.wait: whoever has to be woken is, and no channel is closed twice. *)
THEOREM ChannelsWake == Spec => []Channels
<1>1. Channels <=> NoLostWakeup /\ NoPanic BY DEF Channels
<1> QED BY <1>1, NobodySleepsNextToALink, ChannelsCloseOnce, PTL

(* A step of Get that returns a link returns the freshest one, not stale. *)
LEMMA TakesFreshest ==
  ASSUME IInv, [Next]_vars, NEW g \in Getters, got'[g] # got[g], got'[g] # NoConn
  PROVE  \E k \in DOMAIN links :
           /\ links[k].conn = got'[g]
           /\ IdleTimeout > 0 => links[k].age <= IdleTimeout
           /\ \A i \in DOMAIN links' : links'[i].age >= links[k].age
<1> USE DEF IInv, TypeOK
<1>1. PICK h \in Getters : LookTake(h)
  <2>1. ASSUME NEW h \in Getters, Release(h) PROVE FALSE
    BY <2>1 DEF Release
  <2>2. got' # got OBVIOUS
  <2> QED
    BY <2>1, <2>2 DEF Next, Get, Look, Accept, Reject, Put, CloseDead, Call, LookClosed,
         LookWait, Wake, GiveUp, Close, CloseAgain, CloseFirst, ReapStale, Tick,
         vars, getters
<1>2. PICK k \in DOMAIN links :
        /\ Usable(links[k])
        /\ got' = [got EXCEPT ![h] = links[k].conn]
        /\ links' = Rest(k)
  BY <1>1 DEF LookTake
<1>3. got'[g] = links[k].conn BY <1>2
<1>4. links[k].age \in 0 .. IdleTimeout + 1 BY EntryFields
<1>5. IdleTimeout > 0 => links[k].age <= IdleTimeout
  BY <1>2, <1>4, IdleAssumption DEF Usable
<1>6. /\ k \in 1 .. Len(links) /\ Len(links) \in Nat
      /\ DOMAIN links' = 1 .. k - 1
      /\ \A i \in 1 .. k - 1 : links'[i] = links[i] /\ i \in DOMAIN links
  BY <1>2 DEF Rest
<1>7. \A i \in DOMAIN links' : links'[i].age >= links[k].age
  BY <1>6 DEF OldestFirst
<1> QED BY <1>3, <1>5, <1>7

(* Get returns a link that is within the idle timeout, and no link it      *)
(* leaves in the queue was parked later.                                   *)
THEOREM UsersGetTheFreshestLink == Spec => HandsOutFreshest
<1>1. IInv /\ [Next]_vars =>
        [\A g \in Getters : got'[g] # got[g] /\ got'[g] # NoConn =>
           \E k \in DOMAIN links :
             /\ links[k].conn = got'[g]
             /\ IdleTimeout > 0 => links[k].age <= IdleTimeout
             /\ \A i \in DOMAIN links' : links'[i].age >= links[k].age]_vars
  BY TakesFreshest
<1> QED BY <1>1, Invariant, PTL DEF HandsOutFreshest, Spec

-----------------------------------------------------------------------------
(* The queue implements the pool.  In a reachable state a link has one     *)
(* holder, so the cases of linkState exclude each other and a step maps to *)
(* what the sets of held links do.                                         *)

StateOf(offered, parked, handed, dropped) ==
  [c \in Conns |-> IF c \in offered THEN "offered"
                   ELSE IF c \in parked THEN "parked"
                   ELSE IF c \in handed THEN "handed"
                   ELSE IF c \in dropped THEN "dropped" ELSE "gone"]

(* Nobody has two links, or a link two holders: what SoleHolder says of    *)
(* the sets.                                                               *)
Apart(offered, parked, handed, dropped) ==
  /\ offered \cap (parked \cup handed \cup dropped) = {}
  /\ parked \cap (handed \cup dropped) = {}
  /\ handed \cap dropped = {}

(* Who holds a link decides what has become of it. *)
LEMMA StateOfHolder ==
  IInv => /\ linkState = StateOf(fresh, Parked, Handed, Dead)
          /\ Apart(fresh, Parked, Handed, Dead)
<1> SUFFICES ASSUME IInv
             PROVE  /\ linkState = StateOf(fresh, Parked, Handed, Dead)
                    /\ Apart(fresh, Parked, Handed, Dead)
  OBVIOUS
<1>1. Apart(fresh, Parked, Handed, Dead)
  BY DEF IInv, Ownership, SoleHolder, Apart
<1>2. ASSUME NEW c \in Conns PROVE linkState[c] = StateOf(fresh, Parked, Handed, Dead)[c]
  <2>1. CASE c \in fresh
    BY <1>1, <2>1 DEF linkState, StateOf, Apart
  <2>2. CASE c \in Parked
    BY <1>1, <2>2 DEF linkState, StateOf, Apart
  <2>3. CASE c \in Handed
    BY <1>1, <2>3 DEF linkState, StateOf, Apart
  <2>4. CASE c \in Dead
    BY <1>1, <2>4 DEF linkState, StateOf, Apart
  <2>5. CASE c \notin fresh \cup Parked \cup Handed \cup Dead
    BY <2>5 DEF linkState, StateOf
  <2> QED BY <2>1, <2>2, <2>3, <2>4, <2>5
<1>3. linkState = StateOf(fresh, Parked, Handed, Dead)
  BY <1>2 DEF linkState, StateOf
<1> QED BY <1>1, <1>3

(* The holder of a link in use is the getter that got it. *)
LEMMA HolderIsGetter ==
  IInv => /\ \A g \in Getters : got[g] # NoConn => holder[got[g]] = g
          /\ \A c \in Conns \ Handed : holder[c] = NoConn
<1> SUFFICES ASSUME IInv
             PROVE  /\ \A g \in Getters : got[g] # NoConn => holder[got[g]] = g
                    /\ \A c \in Conns \ Handed : holder[c] = NoConn
  OBVIOUS
<1>1. ASSUME NEW g \in Getters, got[g] # NoConn PROVE holder[got[g]] = g
  <2>1. got[g] \in Conns /\ got[g] \in Handed
    BY <1>1 DEF IInv, TypeOK, Handed
  <2>2. \A h \in Getters : got[h] = got[g] => h = g
    BY <1>1 DEF IInv, Ownership, SoleHolder
  <2>3. holder[got[g]] = CHOOSE h \in Getters : got[h] = got[g]
    BY <2>1 DEF holder
  <2> QED BY <2>2, <2>3
<1>2. \A c \in Conns \ Handed : holder[c] = NoConn
  BY DEF holder
<1> QED BY <1>1, <1>2

(* What the two lemmas say, of the state before and after a step. *)
Mapped ==
  /\ linkState = StateOf(fresh, Parked, Handed, Dead)
  /\ Apart(fresh, Parked, Handed, Dead)
  /\ \A g \in Getters : got[g] # NoConn => holder[got[g]] = g
  /\ \A c \in Conns \ Handed : holder[c] = NoConn

(* Before a step.                                                           *)
LEMMA InvMapped == IInv => Mapped
  BY StateOfHolder, HolderIsGetter DEF Mapped

(* After it.                                                                *)
LEMMA InvMappedNext == IInv' => Mapped'
  BY InvMapped, PTL

(* A new queue is a new pool. *)
LEMMA RefinesInit == Init => Pool!Init
<1> SUFFICES ASSUME Init PROVE Pool!Init
  OBVIOUS
<1>1. fresh = {} /\ Parked = {} /\ Handed = {} /\ Dead = {}
  BY DEF Init, Parked, Handed, Dead
<1>2. linkState = [c \in Conns |-> "gone"]
  BY <1>1 DEF linkState
<1>3. holder = [c \in Conns |-> NoConn]
  BY <1>1 DEF holder
<1>4. asking = {} /\ closed = FALSE
  BY DEF Init, asking
<1> QED BY <1>2, <1>3, <1>4 DEF Pool!Init

(* Users' links stay theirs in every step but LookTake and Release. *)
LEMMA HolderUnchanged == got' = got => holder' = holder
  BY DEF holder, Handed

(* Whoever is inside Get is asking for a link. *)
LEMMA AskingUnchanged == pc' = pc => asking' = asking
  BY DEF asking

(* Get and the step that follows it, seen from the pool. *)
LEMMA RefinesTake ==
  ASSUME IInv, IInv', NEW g \in Getters, LookTake(g)
  PROVE  \E l \in Conns, S \in SUBSET Conns : Pool!Hand(l, g, S)
<1>1. TypeOK /\ Ownership /\ got[g] = NoConn
  BY DEF IInv, AskersHoldNothing, LookTake
<1>2. PICK k \in DOMAIN links :
        /\ got' = [got EXCEPT ![g] = links[k].conn]
        /\ links' = Rest(k)
  BY DEF LookTake
<1> DEFINE c == links[k].conn
           S == {links[j].conn : j \in k + 1 .. Len(links)}
<1>3. c \in Conns
  BY <1>1, EntryFields
<1>4. /\ c \in Parked /\ S \subseteq Parked /\ c \notin S
      /\ Parked' = Parked \ ({c} \cup S)
  BY <1>1, <1>2, TakeUnparks
<1>5. Parked \subseteq Conns
  BY <1>1, EntryFields DEF Parked
<1>6. Handed' = Handed \cup {c}
  BY <1>1, <1>2, <1>3, GotHands
<1>7. /\ fresh' = fresh /\ Dead' = Dead /\ ~closed /\ closed' = closed
      /\ pc[g] = "looking" /\ pc' = [pc EXCEPT ![g] = "idle"]
  BY DeadUnchanged DEF LookTake
<1>8. got'[g] = c /\ \A h \in Getters \ {g} : got'[h] = got[h]
  BY <1>1, <1>2 DEF TypeOK
<1> HIDE DEF c, S
<1>9. /\ linkState = StateOf(fresh, Parked, Handed, Dead)
      /\ Apart(fresh, Parked, Handed, Dead)
      /\ \A h \in Getters : got[h] # NoConn => holder[got[h]] = h
      /\ \A d \in Conns \ Handed : holder[d] = NoConn
  BY InvMapped DEF Mapped
<1>10. /\ linkState' = StateOf(fresh', Parked', Handed', Dead')
       /\ \A h \in Getters : got'[h] # NoConn => holder'[got'[h]] = h
       /\ \A d \in Conns \ Handed' : holder'[d] = NoConn
  BY InvMappedNext DEF Mapped, StateOf
<1>11. linkState[c] = "parked" /\ \A l \in S : linkState[l] = "parked"
  BY <1>3, <1>4, <1>5, <1>9 DEF StateOf, Apart
<1>12. linkState' = [l \in Conns |-> IF l = c THEN "handed" ELSE IF l \in S THEN "gone" ELSE linkState[l]]
  <2>1. linkState' = StateOf(fresh, Parked \ ({c} \cup S), Handed \cup {c}, Dead)
    BY <1>4, <1>6, <1>7, <1>10
  <2> QED BY <1>4, <1>9, <2>1 DEF StateOf, Apart
<1>13. holder' = [holder EXCEPT ![c] = g]
  <2>1. holder'[c] = g
    BY <1>3, <1>8, <1>10, NoConnAssumption
  <2>2. ASSUME NEW d \in Conns, d # c PROVE holder'[d] = holder[d]
    <3>1. CASE d \in Handed
      <4>1. PICK h \in Getters : got[h] = d /\ d # NoConn
        BY <3>1 DEF Handed
      <4>2. got'[h] = d
        BY <1>1, <1>8, <4>1
      <4> QED BY <1>9, <1>10, <4>1, <4>2
    <3>2. CASE d \notin Handed
      BY <1>6, <1>9, <1>10, <2>2, <3>2
    <3> QED BY <3>1, <3>2
  <2>3. holder = [d \in Conns |-> holder[d]] /\ holder' = [d \in Conns |-> holder'[d]]
    BY DEF holder
  <2> QED BY <1>3, <2>1, <2>2, <2>3
<1>14. g \in asking /\ asking' = asking \ {g}
  BY <1>1, <1>7 DEF asking, TypeOK
<1>15. Pool!Hand(c, g, S)
  BY <1>4, <1>7, <1>11, <1>12, <1>13, <1>14 DEF Pool!Hand
<1>16. S \in SUBSET Conns
  BY <1>4, <1>5
<1> QED BY <1>3, <1>15, <1>16

(* A user that hangs up, seen from the pool. *)
LEMMA RefinesRelease ==
  ASSUME IInv, IInv', NEW g \in Getters, Release(g)
  PROVE  \E l \in Conns : Pool!Finish(l)
<1>1. TypeOK /\ Ownership /\ got[g] # NoConn /\ got' = [got EXCEPT ![g] = NoConn]
  BY DEF IInv, Release
<1>2. PICK c \in Conns : c = got[g]
  BY <1>1 DEF TypeOK
<1>3. Handed' = Handed \ {c} /\ c \in Handed
  BY <1>1, <1>2, ReleaseUnhands
<1>4. Parked' = Parked /\ Dead' = Dead /\ fresh' = fresh /\ asking' = asking /\ closed' = closed
  BY ParkedUnchanged, DeadUnchanged, AskingUnchanged DEF Release, queue
<1>5. \A h \in Getters : got'[h] = IF h = g THEN NoConn ELSE got[h]
  BY <1>1 DEF TypeOK
<1>6. /\ linkState = StateOf(fresh, Parked, Handed, Dead)
      /\ Apart(fresh, Parked, Handed, Dead)
      /\ \A h \in Getters : got[h] # NoConn => holder[got[h]] = h
      /\ \A d \in Conns \ Handed : holder[d] = NoConn
  BY InvMapped DEF Mapped
<1>7. /\ linkState' = StateOf(fresh', Parked', Handed', Dead')
      /\ \A h \in Getters : got'[h] # NoConn => holder'[got'[h]] = h
      /\ \A d \in Conns \ Handed' : holder'[d] = NoConn
  BY InvMappedNext DEF Mapped, StateOf
<1>8. linkState[c] = "handed" /\ linkState' = [linkState EXCEPT ![c] = "gone"]
  <2>1. linkState' = StateOf(fresh, Parked, Handed \ {c}, Dead)
    BY <1>3, <1>4, <1>7
  <2> QED BY <1>3, <1>6, <2>1 DEF StateOf, Apart
<1>9. holder' = [holder EXCEPT ![c] = NoConn]
  <2>1. holder'[c] = NoConn
    BY <1>3, <1>7
  <2>2. ASSUME NEW d \in Conns, d # c PROVE holder'[d] = holder[d]
    <3>1. CASE d \in Handed
      <4>1. PICK h \in Getters : got[h] = d /\ d # NoConn
        BY <3>1 DEF Handed
      <4>2. got'[h] = d
        BY <1>2, <1>5, <2>2, <4>1
      <4> QED BY <1>6, <1>7, <4>1, <4>2
    <3>2. CASE d \notin Handed
      BY <1>3, <1>6, <1>7, <3>2
    <3> QED BY <3>1, <3>2
  <2>3. holder = [d \in Conns |-> holder[d]] /\ holder' = [d \in Conns |-> holder'[d]]
    BY DEF holder
  <2> QED BY <2>1, <2>2, <2>3
<1> QED BY <1>4, <1>8, <1>9 DEF Pool!Finish, Pool!Become

(* Every step of the queue and its users is one of the pool, or leaves it  *)
(* alone.                                                                  *)
LEMMA RefinesStep == IInv /\ IInv' /\ [Next]_vars => [Pool!Next]_(Pool!vars)
<1> SUFFICES ASSUME IInv, IInv', [Next]_vars
             PROVE  Pool!Next \/ UNCHANGED Pool!vars
  OBVIOUS
<1>1. TypeOK /\ Ownership
  BY DEF IInv
<1>2. /\ linkState = StateOf(fresh, Parked, Handed, Dead)
      /\ Apart(fresh, Parked, Handed, Dead)
  BY InvMapped DEF Mapped
<1>3. linkState' = StateOf(fresh', Parked', Handed', Dead')
  BY InvMappedNext DEF Mapped, StateOf
<1>4. Parked \subseteq Conns
  BY <1>1, EntryFields DEF Parked
<1>5. ASSUME NEW c \in Conns, Accept(c) PROVE Pool!Offer(c)
  <2>1. /\ ~closed /\ c \notin open /\ fresh' = fresh \cup {c}
        /\ Parked' = Parked /\ Handed' = Handed /\ Dead' = Dead
        /\ holder' = holder /\ asking' = asking /\ closed' = closed
    BY <1>5, ParkedUnchanged, HandedUnchanged, DeadUnchanged, HolderUnchanged, AskingUnchanged
    DEF Accept, queue, getters
  <2>2. c \notin fresh \cup Parked \cup Handed \cup Dead
    BY <1>1, <2>1 DEF Ownership, OpenIffHeld
  <2>3. linkState[c] = "gone" /\ linkState' = [linkState EXCEPT ![c] = "offered"]
    BY <1>2, <1>3, <2>1, <2>2 DEF StateOf
  <2> QED BY <2>1, <2>3 DEF Pool!Offer, Pool!Become
<1>6. ASSUME NEW c \in Conns, Reject(c) PROVE Pool!Withdraw(c)
  <2>1. /\ c \in fresh /\ fresh' = fresh \ {c}
        /\ Parked' = Parked /\ Handed' = Handed /\ Dead' = Dead
        /\ holder' = holder /\ asking' = asking /\ closed' = closed
    BY <1>6, ParkedUnchanged, HandedUnchanged, DeadUnchanged, HolderUnchanged, AskingUnchanged
    DEF Reject, queue, getters
  <2>2. linkState[c] = "offered" /\ linkState' = [linkState EXCEPT ![c] = "gone"]
    BY <1>2, <1>3, <2>1 DEF StateOf, Apart
  <2> QED BY <2>1, <2>2 DEF Pool!Withdraw, Pool!Become
<1>7. ASSUME NEW c \in Conns, Put(c) PROVE Pool!Refuse(c) \/ Pool!Park(c)
  <2>1. /\ c \in fresh /\ fresh' = fresh \ {c} /\ Handed' = Handed
        /\ holder' = holder /\ asking' = asking
    BY <1>7, HandedUnchanged, HolderUnchanged, AskingUnchanged DEF Put, getters
  <2>2. CASE PutRefused(c)
    <3>1. closed /\ closed' = closed /\ Parked' = Parked
      BY <2>2, ParkedUnchanged DEF PutRefused, queue
    <3>2. Dead' = Dead \cup {c}
      BY <1>1, <2>2, DeadAdds DEF PutRefused, Closers
    <3>3. linkState[c] = "offered" /\ linkState' = [linkState EXCEPT ![c] = "dropped"]
      BY <1>2, <1>3, <2>1, <3>1, <3>2 DEF StateOf, Apart
    <3> QED BY <2>1, <3>1, <3>3 DEF Pool!Refuse, Pool!Become
  <2>3. CASE PutParked(c)
    <3>1. ~closed /\ closed' = closed /\ Dead' = Dead
      BY <2>3, DeadUnchanged DEF PutParked, Running
    <3>2. Parked' = Parked \cup {c}
      BY <1>1, <2>3, PutParks DEF PutParked, Enqueue
    <3>3. linkState[c] = "offered" /\ linkState' = [linkState EXCEPT ![c] = "parked"]
      BY <1>2, <1>3, <2>1, <3>1, <3>2 DEF StateOf, Apart
    <3> QED BY <2>1, <3>1, <3>3 DEF Pool!Park, Pool!Become
  <2> QED BY <1>7, <2>2, <2>3 DEF Put
<1>8. ASSUME NEW o \in Closers, NEW c \in Conns, CloseDead(o, c) PROVE Pool!Close(c)
  <2>1. /\ fresh' = fresh /\ Parked' = Parked /\ Handed' = Handed
        /\ holder' = holder /\ asking' = asking /\ closed' = closed
    BY <1>8, ParkedUnchanged, HandedUnchanged, HolderUnchanged, AskingUnchanged
    DEF CloseDead, queue, getters
  <2>2. Dead' = Dead \ {c} /\ c \in Dead
    BY <1>1, <1>8, DeadIsClosed
  <2>3. linkState[c] = "dropped" /\ linkState' = [linkState EXCEPT ![c] = "gone"]
    BY <1>2, <1>3, <2>1, <2>2 DEF StateOf, Apart
  <2> QED BY <2>1, <2>3 DEF Pool!Close, Pool!Become
<1>9. ASSUME UNCHANGED <<links, got, fresh, dead>> PROVE linkState' = linkState /\ holder' = holder
  <2>1. Parked' = Parked /\ Handed' = Handed /\ Dead' = Dead
    BY <1>9, ParkedUnchanged, HandedUnchanged, DeadUnchanged
  <2> QED BY <1>2, <1>3, <1>9, <2>1, HolderUnchanged
<1>10. ASSUME NEW g \in Getters, Call(g) PROVE Pool!Ask(g)
  <2>1. UNCHANGED <<links, got, fresh, dead, closed>> /\ pc[g] = "idle" /\ pc' = [pc EXCEPT ![g] = "looking"]
    BY <1>10 DEF Call, queue
  <2>2. g \notin asking /\ asking' = asking \cup {g}
    BY <1>1, <2>1 DEF asking, TypeOK
  <2> QED BY <1>9, <2>1, <2>2 DEF Pool!Ask
<1>11. ASSUME NEW g \in Getters, LookClosed(g) \/ GiveUp(g) PROVE Pool!Deny(g)
  <2>1. UNCHANGED <<links, got, fresh, dead, closed>> /\ pc[g] # "idle" /\ pc' = [pc EXCEPT ![g] = "idle"]
    BY <1>11 DEF LookClosed, GiveUp, queue
  <2>2. g \in asking /\ asking' = asking \ {g}
    BY <1>1, <2>1 DEF asking, TypeOK
  <2> QED BY <1>9, <2>1, <2>2 DEF Pool!Deny
<1>12. ASSUME NEW g \in Getters, Wake(g) PROVE UNCHANGED Pool!vars
  <2>1. UNCHANGED <<links, got, fresh, dead, closed>> /\ pc[g] = "waiting" /\ pc' = [pc EXCEPT ![g] = "looking"]
    BY <1>12 DEF Wake, queue
  <2>2. asking' = asking
    BY <1>1, <2>1 DEF asking, TypeOK
  <2> QED BY <1>9, <2>1, <2>2 DEF Pool!vars
<1>13. ASSUME NEW g \in Getters, LookWait(g) PROVE Pool!Discard(Parked, {}) /\ closed' = closed
  <2>1. /\ links' = <<>> /\ fresh' = fresh /\ Handed' = Handed /\ Dead' = Dead
        /\ holder' = holder /\ closed' = closed
    BY <1>13, HandedUnchanged, DeadUnchanged, HolderUnchanged DEF LookWait
  <2>2. Parked' = {}
    BY <2>1 DEF Parked
  <2>3. pc[g] = "looking" /\ pc' = [pc EXCEPT ![g] = "waiting"]
    BY <1>13 DEF LookWait
  <2>4. asking' = asking
    BY <1>1, <2>3 DEF asking, TypeOK
  <2>5. \A l \in Parked : linkState[l] = "parked"
    BY <1>2, <1>4 DEF StateOf, Apart
  <2>6. linkState' = [l \in Conns |-> IF l \in Parked THEN "gone" ELSE linkState[l]]
    BY <1>2, <1>3, <2>1, <2>2 DEF StateOf, Apart
  <2> QED BY <2>1, <2>4, <2>5, <2>6 DEF Pool!Discard
<1>14. CASE CloseFirst
  <2>1. /\ links' = <<>> /\ dead' = [dead EXCEPT !["closer"] = @ \cup Parked]
        /\ fresh' = fresh /\ Handed' = Handed /\ holder' = holder /\ asking' = asking
        /\ ~closed /\ closed' = TRUE
    BY <1>14, HandedUnchanged, HolderUnchanged, AskingUnchanged DEF CloseFirst, Running, getters
  <2>2. Parked' = {}
    BY <2>1 DEF Parked
  <2>3. Dead' = Dead \cup Parked
    BY <1>1, <2>1, DeadAdds DEF Closers
  <2>4. {l \in Conns : linkState[l] = "parked"} = Parked
    BY <1>2, <1>4 DEF StateOf, Apart
  <2>5. linkState' = [l \in Conns |-> IF l \in Parked THEN "dropped" ELSE linkState[l]]
    BY <1>2, <1>3, <2>1, <2>2, <2>3 DEF StateOf, Apart
  <2>6. Pool!Discard({}, Parked)
    BY <1>2, <1>4, <2>1, <2>4, <2>5 DEF Pool!Discard
  <2>7. Pool!Shut
    BY <2>1, <2>4, <2>6 DEF Pool!Shut
  <2> QED BY <2>7 DEF Pool!Next
<1>15. CASE ReapStale
  <2> DEFINE S == {links[i].conn : i \in {j \in DOMAIN links : ~Usable(links[j])}}
  <2>1. /\ links' = Keep(links) /\ dead["reaper"] = {} /\ dead' = [dead EXCEPT !["reaper"] = S]
        /\ fresh' = fresh /\ Handed' = Handed /\ holder' = holder /\ asking' = asking
        /\ closed' = closed
    BY <1>15, HandedUnchanged, HolderUnchanged, AskingUnchanged DEF ReapStale, getters
  <2>2. Parked' = Parked \ S /\ S \subseteq Parked
    BY <1>1, <2>1, ReapUnparks
  <2> HIDE DEF S
  <2>3. Dead' = Dead \cup S
    BY <1>1, <2>1, ReaperAdds
  <2>4. \A l \in S : linkState[l] = "parked"
    BY <1>2, <1>4, <2>2 DEF StateOf, Apart
  <2>5. linkState' = [l \in Conns |-> IF l \in S THEN "dropped" ELSE linkState[l]]
    BY <1>2, <1>3, <2>1, <2>2, <2>3 DEF StateOf, Apart
  <2>6. Pool!Discard({}, S)
    BY <2>1, <2>4, <2>5 DEF Pool!Discard
  <2>7. S \in SUBSET Conns
    BY <1>4, <2>2
  <2>8. Pool!Expire
    BY <2>1, <2>6, <2>7 DEF Pool!Expire
  <2> QED BY <2>8 DEF Pool!Next
<1>16. CASE Tick
  <2>1. /\ fresh' = fresh /\ Parked' = Parked /\ Handed' = Handed /\ Dead' = Dead
        /\ holder' = holder /\ asking' = asking /\ closed' = closed
    BY <1>1, <1>16, TickKeepsLinks, HandedUnchanged, DeadUnchanged, HolderUnchanged, AskingUnchanged
    DEF Tick, getters
  <2>2. linkState' = linkState
    BY <1>2, <1>3, <2>1
  <2> QED BY <2>1, <2>2 DEF Pool!vars
<1>17. CASE UNCHANGED vars
  <2>1. UNCHANGED <<links, got, fresh, dead, closed>> /\ asking' = asking
    BY <1>17, AskingUnchanged DEF vars
  <2> QED BY <1>9, <2>1 DEF Pool!vars
<1>18. ASSUME NEW c \in Conns, Accept(c) \/ Reject(c) \/ Put(c) PROVE Pool!Next
  BY <1>5, <1>6, <1>7, <1>18 DEF Pool!Next
<1>19. ASSUME NEW o \in Closers, NEW c \in Conns, CloseDead(o, c) PROVE Pool!Next
  BY <1>8, <1>19 DEF Pool!Next
<1>20. ASSUME NEW g \in Getters, Get(g) \/ Release(g) PROVE Pool!Next \/ UNCHANGED Pool!vars
  <2>1. CASE Call(g) BY <1>10, <2>1 DEF Pool!Next
  <2>2. CASE LookClosed(g) \/ GiveUp(g) BY <1>11, <2>2 DEF Pool!Next
  <2>3. CASE LookTake(g) BY <2>3, RefinesTake DEF Pool!Next
  <2>4. CASE LookWait(g) BY <1>4, <1>13, <2>4 DEF Pool!Next, Pool!Expire
  <2>5. CASE Wake(g) BY <1>12, <2>5
  <2>6. CASE Release(g) BY <2>6, RefinesRelease DEF Pool!Next
  <2> QED BY <1>20, <2>1, <2>2, <2>3, <2>4, <2>5, <2>6 DEF Get, Look
<1>21. CASE CloseAgain
  BY <1>17, <1>21 DEF CloseAgain
<1> QED
  BY <1>14, <1>15, <1>16, <1>17, <1>18, <1>19, <1>20, <1>21 DEF Next, Close

(* Ready implements the warm pool it promises the server: for any number   *)
(* of users and links, Put, Get, ReapStale and Close with their lock and   *)
(* channels do only what LinkPool allows.                                  *)
THEOREM ImplementsPool == Spec => PoolSpec
<1>1. Init => Pool!Init BY RefinesInit
<1>2. IInv /\ IInv' /\ [Next]_vars => [Pool!Next]_(Pool!vars) BY RefinesStep
<1> QED BY <1>1, <1>2, Invariant, PTL DEF Spec, PoolSpec, Pool!Spec
=============================================================================
