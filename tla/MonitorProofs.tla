----------------------------- MODULE MonitorProofs -----------------------------
(* Proofs about Monitor for any tunnels, admins and number of updates, and for *)
(* every bound on how late a publication may be that the readers allow for.    *)
EXTENDS Monitor, TLAPS

-----------------------------------------------------------------------------
(* The inductive invariant                                                     *)

\* The file of an engine that has published is as old as its last publication,
\* and right if the flag has not changed since; a stopped engine's file is as
\* old as the stop.  An engine that has yet to publish waits for longer than it
\* has run.
FilesInStep ==
  \A t \in Tunnels :
    /\ engine[t] /\ steady[t] >= wait[t] => state[t].age = wait[t]
    /\ engine[t] /\ steady[t] > wait[t] => state[t].linked = link[t]
    /\ ~engine[t] => steady[t] <= state[t].age

\* What the bot believes of a subject.
Now(x) == IF x = "cpu" THEN alerted ELSE last[x]

\* A message tells what the bot believes now, to an admin who heard otherwise;
\* who is not about to be told has heard it.  That is so unless admin and bot
\* have come apart over the subject.
MailIsNews ==
  /\ phase = "idle" => mail = {}
  /\ \A m \in mail : /\ m.says = Now(m.about)
                     /\ <<m.adm, m.about>> \notin missed => heard[m.adm][m.about] # m.says
  /\ \A a \in Admins, x \in Subjects :
       <<a, x>> \in missed \/ heard[a][x] = Now(x) \/ [adm |-> a, about |-> x, says |-> Now(x)] \in mail

\* What was taken up was handled or dropped.  Unless a start of the bot left
\* updates with Telegram, a handled one is acknowledged or still known to the
\* bot, which goes on behind what is acknowledged.
UpdatesInOrder ==
  /\ ~bot => offset = 0 /\ upto = 0
  /\ offset < upto => acked <= offset
  /\ \A u \in Updates :
       /\ u <= acked \/ u <= offset => handled[u] > 0 \/ u \in dropped
       /\ handled[u] > 0 => u <= arrived
       /\ bot /\ ~kept /\ handled[u] > 0 => u <= acked \/ u <= offset
       /\ handled[u] > 1 => kept

IInv == TypeOK /\ FilesInStep /\ MailIsNews /\ UpdatesInOrder

(* At first there are no state files, nothing to report and no updates.     *)
LEMMA InvInit == Init => IInv
<1> SUFFICES ASSUME Init PROVE IInv
  OBVIOUS
<1> USE MonitorAssumption DEF Init
<1>1. TypeOK
  <2>1. NoState \in [linked : BOOLEAN, age : 0 .. StaleAfter + 1]
    BY DEF NoState
  <2>2. 0 \in 0 .. MaxLate + 1 /\ 0 \in 0 .. StaleAfter + 1 /\ 0 \in 0 .. MaxUpdates /\ 0 \in 0 .. 0
    OBVIOUS
  <2>3. heard \in [Admins -> [Subjects -> Flags]]
    BY DEF Flags, Unheard
  <2>4. /\ engine \in [Tunnels -> BOOLEAN] /\ link \in [Tunnels -> BOOLEAN]
        /\ wait \in [Tunnels -> 0 .. MaxLate + 1] /\ steady \in [Tunnels -> 0 .. StaleAfter + 1]
        /\ state \in [Tunnels -> [linked : BOOLEAN, age : 0 .. StaleAfter + 1]]
    BY <2>1, <2>2
  <2>5. last \in [Tunnels -> Flags] /\ handled \in [Updates -> 0 .. 2]
    BY DEF Flags
  <2> QED BY <2>2, <2>3, <2>4, <2>5 DEF TypeOK
<1>2. FilesInStep
  <2>1. \A t \in Tunnels : ~engine[t] /\ steady[t] = 0 /\ state[t] = NoState
    OBVIOUS
  <2>2. 0 <= NoState.age
    BY DEF NoState
  <2> HIDE DEF Init
  <2> QED BY <2>1, <2>2 DEF FilesInStep
<1>3. MailIsNews
  BY DEF MailIsNews, Now, Subjects, Unheard
<1>4. UpdatesInOrder
  BY DEF UpdatesInOrder, Updates
<1> QED BY <1>1, <1>2, <1>3, <1>4 DEF IInv

-----------------------------------------------------------------------------
(* The engines                                                                 *)

EngineTypes ==
  /\ engine \in [Tunnels -> BOOLEAN] /\ link \in [Tunnels -> BOOLEAN]
  /\ wait \in [Tunnels -> 0 .. MaxLate + 1] /\ steady \in [Tunnels -> 0 .. StaleAfter + 1]
  /\ state \in [Tunnels -> [linked : BOOLEAN, age : 0 .. StaleAfter + 1]]

\* What a step does to an engine and its file keeps them in step.
LEMMA EngineStep ==
  ASSUME EngineTypes, FilesInStep, NEW t \in Tunnels,
         StartEngine(t) \/ SetLinked(t) \/ Publish(t) \/ StopEngine(t)
  PROVE  EngineTypes' /\ FilesInStep'
<1> USE MonitorAssumption DEF EngineTypes
<1>1. NoState \in [linked : BOOLEAN, age : 0 .. StaleAfter + 1]
  BY DEF NoState
<1>2. CASE StartEngine(t)
  BY <1>2 DEF StartEngine, FilesInStep
<1>3. CASE SetLinked(t)
  BY <1>3 DEF SetLinked, FilesInStep
<1>4. CASE Publish(t)
  BY <1>4 DEF Publish, FilesInStep
<1>5. CASE StopEngine(t)
  BY <1>1, <1>5 DEF StopEngine, FilesInStep
<1> QED BY <1>2, <1>3, <1>4, <1>5

(* An engine writes a file of its own process at each tick.                 *)
LEMMA TickStep == EngineTypes /\ FilesInStep /\ Tick => EngineTypes' /\ FilesInStep'
<1> SUFFICES ASSUME EngineTypes, FilesInStep, Tick PROVE EngineTypes' /\ FilesInStep'
  OBVIOUS
<1> USE MonitorAssumption DEF EngineTypes
<1>1. UNCHANGED <<engine, link>>
  BY DEF Tick
<1>2. \A t \in Tunnels :
        /\ wait'[t] = IF engine[t] THEN wait[t] + 1 ELSE 0
        /\ steady'[t] = Least(steady[t] + 1, StaleAfter + 1)
        /\ state'[t].age = Least(state[t].age + 1, StaleAfter + 1)
        /\ state'[t].linked = (state[t].linked /\ state[t].age < StaleAfter)
        /\ wait[t] <= MaxLate
  BY DEF Tick
<1>3. EngineTypes'
  <2>1. \A n \in 0 .. StaleAfter + 1 : Least(n + 1, StaleAfter + 1) \in 0 .. StaleAfter + 1
    BY DEF Least
  <2>2. \A t \in Tunnels : wait'[t] \in 0 .. MaxLate + 1 /\ steady'[t] \in 0 .. StaleAfter + 1
    BY <1>2, <2>1
  <2>3. wait' \in [Tunnels -> 0 .. MaxLate + 1] /\ steady' \in [Tunnels -> 0 .. StaleAfter + 1]
    BY <2>2 DEF Tick
  <2>4. ASSUME NEW t \in Tunnels
        PROVE  [state[t] EXCEPT !.age = Least(@ + 1, StaleAfter + 1), !.linked = @ /\ state[t].age < StaleAfter]
                 \in [linked : BOOLEAN, age : 0 .. StaleAfter + 1]
    BY <2>1
  <2>5. state' \in [Tunnels -> [linked : BOOLEAN, age : 0 .. StaleAfter + 1]]
    BY <2>4 DEF Tick
  <2> QED BY <1>1, <2>3, <2>5
<1>4. FilesInStep'
  BY <1>1, <1>2 DEF FilesInStep, Least
<1> QED BY <1>3, <1>4

-----------------------------------------------------------------------------
(* The alerts                                                                  *)

AlertTypes ==
  /\ phase \in {"idle", "thresholds", "tunnels"} /\ last \in [Tunnels -> Flags] /\ alerted \in BOOLEAN
  /\ mail \subseteq [adm : Admins, about : Subjects, says : BOOLEAN]
  /\ heard \in [Admins -> [Subjects -> Flags]] /\ missed \subseteq Admins \X Subjects

\* A broadcast has one message for each admin, about one subject.
LEMMA Broadcasts ==
  ASSUME NEW x \in Subjects, NEW v \in BOOLEAN
  PROVE  /\ Broadcast(x, v) \subseteq [adm : Admins, about : Subjects, says : BOOLEAN]
         /\ \A m \in Broadcast(x, v) : m.adm \in Admins /\ m.about = x /\ m.says = v
         /\ \A a \in Admins : [adm |-> a, about |-> x, says |-> v] \in Broadcast(x, v)
BY DEF Broadcast

(* A crossing of a threshold is broadcast once.                             *)
LEMMA ThresholdsStep ==
  ASSUME AlertTypes, MailIsNews, CheckThresholds PROVE AlertTypes' /\ MailIsNews'
<1>1. phase' = "thresholds" /\ UNCHANGED <<last, heard, missed>> /\ mail = {}
  BY DEF CheckThresholds, MailIsNews
<1>2. alerted' \in BOOLEAN /\ mail' = IF alerted' = alerted THEN {} ELSE Broadcast("cpu", alerted')
  BY DEF CheckThresholds, AlertTypes
<1>3. "cpu" \in Subjects /\ \A x \in Subjects \ {"cpu"} : Now(x)' = Now(x)
  BY <1>1 DEF Subjects, Now
<1>4. Now("cpu") = alerted /\ Now("cpu")' = alerted'
  BY DEF Now
<1>5. \A a \in Admins, x \in Subjects : <<a, x>> \in missed \/ heard[a][x] = Now(x)
  BY <1>1 DEF MailIsNews
<1>6. CASE alerted' = alerted
  BY <1>1, <1>2, <1>3, <1>4, <1>5, <1>6 DEF MailIsNews, AlertTypes
<1>7. CASE alerted' # alerted
  <2>1. mail' = Broadcast("cpu", alerted')
    BY <1>2, <1>7
  <2>2. AlertTypes'
    BY <1>1, <1>2, <1>3, <2>1, Broadcasts DEF AlertTypes
  <2>3. \A m \in mail' : m.adm \in Admins /\ m.about = "cpu" /\ m.says = alerted'
    BY <1>2, <1>3, <2>1, Broadcasts
  <2>4. \A a \in Admins : [adm |-> a, about |-> "cpu", says |-> alerted'] \in mail'
    BY <1>2, <1>3, <2>1, Broadcasts
  <2>5. MailIsNews'
    BY <1>1, <1>3, <1>4, <1>5, <1>7, <2>3, <2>4 DEF MailIsNews
  <2> QED BY <2>2, <2>5
<1> QED BY <1>6, <1>7

(* A tunnel that is not as it was last seen is broadcast once.              *)
LEMMA TunnelsStep ==
  ASSUME EngineTypes, AlertTypes, MailIsNews, CheckTunnels PROVE AlertTypes' /\ MailIsNews'
<1> DEFINE Changed == {u \in ReadAll : last[u] \notin {Unseen, state[u].linked}}
           Right == {p \in Admins \X FirstSeen : heard[p[1]][p[2]] \in {Unseen, state[p[2]].linked}}
<1>1. phase' = "tunnels" /\ mail = {} /\ UNCHANGED alerted
  BY DEF CheckTunnels
<1>2. last' = [t \in Tunnels |-> Seen(t)]
  BY DEF CheckTunnels
<1>3. heard' = [a \in Admins |-> [x \in Subjects |->
                  IF x \in FirstSeen /\ heard[a][x] = Unseen THEN state[x].linked ELSE heard[a][x]]]
  BY DEF CheckTunnels
<1>4. mail' = UNION {Broadcast(t, state[t].linked) : t \in Changed} /\ missed' = missed \ Right
  BY DEF CheckTunnels
<1>5. ReadAll \subseteq Tunnels /\ "cpu" \notin ReadAll /\ \A t \in Tunnels : t \in Subjects /\ t # "cpu"
  BY MonitorAssumption DEF ReadAll, Subjects
<1>6. \A t \in ReadAll : state[t].linked \in BOOLEAN
  BY <1>5 DEF EngineTypes
<1>7. \A m \in mail' : \E t \in Changed : m \in Broadcast(t, state[t].linked)
  BY <1>4
<1>8. FirstSeen \subseteq ReadAll /\ \A t \in ReadAll : t \in FirstSeen <=> last[t] = Unseen
  BY DEF FirstSeen
<1>9. AlertTypes'
  <2>1. last' \in [Tunnels -> Flags]
    BY <1>2, <1>6 DEF Seen, AlertTypes, Flags
  <2>2. heard' \in [Admins -> [Subjects -> Flags]]
    BY <1>3, <1>6, <1>8 DEF AlertTypes, Flags
  <2>3. mail' \subseteq [adm : Admins, about : Subjects, says : BOOLEAN]
    BY <1>5, <1>6, <1>7, Broadcasts
  <2>4. missed' \subseteq Admins \X Subjects
    BY <1>4 DEF AlertTypes
  <2> QED BY <1>1, <2>1, <2>2, <2>3, <2>4 DEF AlertTypes
<1>10. \A a \in Admins, x \in Subjects : <<a, x>> \in missed \/ heard[a][x] = Now(x)
  BY <1>1 DEF MailIsNews
<1>11. \A m \in mail' : /\ m.says = Now(m.about)'
                        /\ <<m.adm, m.about>> \notin missed' => heard'[m.adm][m.about] # m.says
  <2> SUFFICES ASSUME NEW m \in mail'
               PROVE  m.says = Now(m.about)' /\ (<<m.adm, m.about>> \notin missed' => heard'[m.adm][m.about] # m.says)
    OBVIOUS
  <2>1. PICK t \in Changed : m.adm \in Admins /\ m.about = t /\ m.says = state[t].linked
    BY <1>5, <1>6, <1>7, Broadcasts
  <2>2. Now(t)' = state[t].linked /\ Now(t) = last[t] /\ t \notin FirstSeen
    BY <1>2, <1>5, <1>8 DEF Now, Seen
  <2>3. heard'[m.adm][t] = heard[m.adm][t]
    BY <1>3, <1>5, <2>1, <2>2
  <2>4. <<m.adm, t>> \notin missed' => <<m.adm, t>> \notin missed
    BY <1>4, <2>2
  <2> QED BY <1>5, <1>10, <2>1, <2>2, <2>3, <2>4
<1>12. ASSUME NEW a \in Admins, NEW x \in Subjects
       PROVE  <<a, x>> \in missed' \/ heard'[a][x] = Now(x)' \/ [adm |-> a, about |-> x, says |-> Now(x)'] \in mail'
  <2>1. CASE x \in Changed
    <3>1. Now(x)' = state[x].linked
      BY <1>2, <1>5, <2>1 DEF Now, Seen
    <3>2. [adm |-> a, about |-> x, says |-> state[x].linked] \in Broadcast(x, state[x].linked)
      BY <1>5, <1>6, <2>1, Broadcasts
    <3> QED BY <1>4, <2>1, <3>1, <3>2
  <2>2. CASE x \in FirstSeen
    <3>1. Now(x)' = state[x].linked /\ Now(x) = Unseen
      BY <1>2, <1>5, <1>8, <2>2 DEF Now, Seen
    <3>2. CASE heard[a][x] = Unseen
      BY <1>3, <2>2, <3>1, <3>2
    <3>3. CASE heard[a][x] # Unseen
      <4>1. heard'[a][x] = heard[a][x] /\ <<a, x>> \in missed
        BY <1>3, <1>10, <3>1, <3>3
      <4>2. <<a, x>> \in Right => heard[a][x] = state[x].linked
        BY <3>3
      <4> QED BY <1>4, <3>1, <4>1, <4>2
    <3> QED BY <3>2, <3>3
  <2>3. CASE x \in ReadAll /\ x \notin Changed /\ x \notin FirstSeen
    <3>1. Now(x)' = last[x] /\ Now(x) = last[x]
      BY <1>2, <1>5, <1>8, <2>3 DEF Now, Seen
    <3>2. heard'[a][x] = heard[a][x] /\ (<<a, x>> \in missed => <<a, x>> \in missed')
      BY <1>3, <1>4, <2>3
    <3> QED BY <1>10, <3>1, <3>2
  <2>4. CASE x \notin ReadAll
    <3>1. Now(x)' = Now(x)
      BY <1>1, <1>2, <2>4 DEF Now, Seen, Subjects
    <3>2. heard'[a][x] = heard[a][x] /\ (<<a, x>> \in missed => <<a, x>> \in missed')
      BY <1>3, <1>4, <1>8, <2>4
    <3> QED BY <1>10, <3>1, <3>2
  <2> QED BY <1>8, <2>1, <2>2, <2>3, <2>4
<1>13. MailIsNews'
  BY <1>1, <1>11, <1>12 DEF MailIsNews
<1> QED BY <1>9, <1>13

\* Two messages to one admin about one subject are one.
LEMMA OneMessage ==
  ASSUME AlertTypes, MailIsNews, NEW m \in mail, NEW n \in mail, m.adm = n.adm, m.about = n.about
  PROVE  m = n
<1>1. m.says = n.says
  BY DEF MailIsNews
<1>2. m \in [adm : Admins, about : Subjects, says : BOOLEAN] /\ n \in [adm : Admins, about : Subjects, says : BOOLEAN]
  BY DEF AlertTypes
<1> QED BY <1>1, <1>2

(* A message that is sent, or fails, is not sent again.                     *)
LEMMA SendStep ==
  ASSUME AlertTypes, MailIsNews, Send PROVE AlertTypes' /\ MailIsNews'
<1>1. PICK m \in mail :
        /\ mail' = mail \ {m}
        /\ \/ /\ heard' = [heard EXCEPT ![m.adm][m.about] = m.says]
              /\ missed' = missed \ {<<m.adm, m.about>>}
           \/ missed' = missed \cup {<<m.adm, m.about>>} /\ UNCHANGED heard
  BY DEF Send
<1>2. UNCHANGED <<phase, last, alerted>> /\ phase # "idle" /\ \A x : Now(x)' = Now(x)
  BY DEF Send, Now, MailIsNews
<1>3. m.adm \in Admins /\ m.about \in Subjects /\ m.says \in BOOLEAN /\ m.says = Now(m.about)
  BY DEF AlertTypes, MailIsNews
<1>4. \A n \in mail' : /\ n \in mail /\ n.adm \in Admins /\ n.about \in Subjects
                       /\ ~(n.adm = m.adm /\ n.about = m.about)
  BY <1>1, OneMessage DEF AlertTypes
<1>5. \A a \in Admins, x \in Subjects :
        ~(a = m.adm /\ x = m.about) => [adm |-> a, about |-> x, says |-> Now(x)] # m
  OBVIOUS
<1>6. \A a \in Admins, x \in Subjects :
        ~(a = m.adm /\ x = m.about) => (<<a, x>> \in missed' <=> <<a, x>> \in missed)
  BY <1>1
<1>7. CASE heard' = [heard EXCEPT ![m.adm][m.about] = m.says] /\ missed' = missed \ {<<m.adm, m.about>>}
  <2>1. AlertTypes'
    BY <1>1, <1>2, <1>3, <1>7 DEF AlertTypes, Flags
  <2>2. \A a \in Admins, x \in Subjects :
          heard'[a][x] = IF a = m.adm /\ x = m.about THEN m.says ELSE heard[a][x]
    BY <1>7 DEF AlertTypes
  <2>3. \A n \in mail' : n.says = Now(n.about) /\ (<<n.adm, n.about>> \notin missed' => heard'[n.adm][n.about] # n.says)
    BY <1>4, <1>6, <2>2 DEF MailIsNews
  <2>4. ASSUME NEW a \in Admins, NEW x \in Subjects
        PROVE  <<a, x>> \in missed' \/ heard'[a][x] = Now(x) \/ [adm |-> a, about |-> x, says |-> Now(x)] \in mail'
    <3>1. CASE a = m.adm /\ x = m.about
      BY <1>3, <2>2, <3>1
    <3>2. CASE ~(a = m.adm /\ x = m.about)
      BY <1>1, <1>5, <1>6, <2>2, <3>2 DEF MailIsNews
    <3> QED BY <3>1, <3>2
  <2> QED BY <1>2, <2>1, <2>3, <2>4 DEF MailIsNews
<1>8. CASE missed' = missed \cup {<<m.adm, m.about>>} /\ UNCHANGED heard
  <2>1. AlertTypes'
    BY <1>1, <1>2, <1>3, <1>8 DEF AlertTypes
  <2>2. \A n \in mail' : n.says = Now(n.about) /\ (<<n.adm, n.about>> \notin missed' => heard[n.adm][n.about] # n.says)
    BY <1>4, <1>8 DEF MailIsNews
  <2>3. ASSUME NEW a \in Admins, NEW x \in Subjects
        PROVE  <<a, x>> \in missed' \/ heard[a][x] = Now(x) \/ [adm |-> a, about |-> x, says |-> Now(x)] \in mail'
    <3>1. CASE a = m.adm /\ x = m.about
      BY <1>8, <3>1
    <3>2. CASE ~(a = m.adm /\ x = m.about)
      BY <1>1, <1>5, <1>6, <3>2 DEF MailIsNews
    <3> QED BY <3>1, <3>2
  <2> QED BY <1>2, <1>8, <2>1, <2>2, <2>3 DEF MailIsNews
<1> QED BY <1>1, <1>7, <1>8

\* A bot that stops forgets what it has told, and where that is not what the
\* next one starts with, they have come apart.
LEMMA StopAlerts ==
  ASSUME AlertTypes, StopBot PROVE AlertTypes' /\ MailIsNews'
<1>1. /\ phase' = "idle" /\ last' = [t \in Tunnels |-> Unseen] /\ alerted' = FALSE /\ mail' = {}
      /\ missed' = {p \in Admins \X Subjects : heard[p[1]][p[2]] # Unheard(p[2])} /\ UNCHANGED heard
  BY DEF StopBot
<1>2. last' \in [Tunnels -> Flags]
  BY <1>1 DEF Flags
<1>3. AlertTypes'
  BY <1>1, <1>2 DEF AlertTypes
<1>4. \A x \in Subjects : Now(x)' = Unheard(x)
  BY <1>1 DEF Now, Subjects, Unheard
<1>5. \A a \in Admins, x \in Subjects : <<a, x>> \in missed' \/ heard'[a][x] = Now(x)'
  BY <1>1, <1>4
<1>6. MailIsNews'
  BY <1>1, <1>5 DEF MailIsNews
<1> QED BY <1>3, <1>6

(* What concerns no alert leaves the alerts as they were.                   *)
LEMMA AlertsFrame ==
  ASSUME AlertTypes, MailIsNews, UNCHANGED <<last, alerted, mail, heard, missed>>,
         phase' \in {"idle", "thresholds", "tunnels"}, phase' = "idle" => mail = {}
  PROVE  AlertTypes' /\ MailIsNews'
<1>1. \A x : Now(x)' = Now(x)
  BY DEF Now
<1> QED BY <1>1 DEF AlertTypes, MailIsNews

-----------------------------------------------------------------------------
(* The updates                                                                 *)

PollTypes ==
  /\ arrived \in 0 .. MaxUpdates /\ acked \in 0 .. arrived /\ offset \in 0 .. upto
  /\ upto \in 0 .. arrived /\ handled \in [Updates -> 0 .. 2] /\ dropped \subseteq Updates
  /\ kept \in BOOLEAN /\ bot \in BOOLEAN

(* An update is queued behind those that came before it.                    *)
LEMMA ArriveStep == PollTypes /\ UpdatesInOrder /\ Arrive => PollTypes' /\ UpdatesInOrder'
BY MonitorAssumption DEF PollTypes, UpdatesInOrder, Arrive, Updates

(* A poll acknowledges what has been handled.                               *)
LEMMA PollStep == PollTypes /\ UpdatesInOrder /\ Poll => PollTypes' /\ UpdatesInOrder'
<1> SUFFICES ASSUME PollTypes, UpdatesInOrder, Poll PROVE PollTypes' /\ UpdatesInOrder'
  OBVIOUS
<1> USE MonitorAssumption DEF PollTypes, Updates
<1>1. /\ acked' = IF offset > acked THEN offset ELSE acked
      /\ \/ acked' < arrived /\ offset' = acked' /\ upto' = arrived
         \/ UNCHANGED <<offset, upto>>
      /\ UNCHANGED <<bot, arrived, handled, dropped, kept>> /\ bot /\ offset = upto
  BY DEF Poll
<1>2. PollTypes'
  BY <1>1
<1>3. UpdatesInOrder'
  BY <1>1 DEF UpdatesInOrder
<1> QED BY <1>2, <1>3

(* Handling an update moves the offset past it.                             *)
LEMMA HandleStep == PollTypes /\ UpdatesInOrder /\ Handle => PollTypes' /\ UpdatesInOrder'
<1> SUFFICES ASSUME PollTypes, UpdatesInOrder, Handle PROVE PollTypes' /\ UpdatesInOrder'
  OBVIOUS
<1> USE MonitorAssumption DEF PollTypes, Updates
<1>1. /\ bot /\ offset < upto /\ offset' = offset + 1
      /\ handled' = [handled EXCEPT ![offset + 1] = Least(@ + 1, 2)]
      /\ UNCHANGED <<bot, arrived, acked, upto, dropped, kept>>
  BY DEF Handle
<1>2. offset + 1 \in Updates /\ \A n \in 0 .. 2 : Least(n + 1, 2) \in 1 .. 2 /\ (n = 0 => Least(n + 1, 2) = 1)
  BY <1>1 DEF Least
<1>3. PollTypes'
  BY <1>1, <1>2
<1>4. /\ handled'[offset + 1] \in 1 .. 2 /\ (handled[offset + 1] = 0 => handled'[offset + 1] = 1)
      /\ \A u \in Updates \ {offset + 1} : handled'[u] = handled[u]
  BY <1>1, <1>2
<1>5. ~kept => handled[offset + 1] = 0
  BY <1>1, <1>2 DEF UpdatesInOrder
<1>6. UpdatesInOrder'
  BY <1>1, <1>2, <1>4, <1>5 DEF UpdatesInOrder
<1> QED BY <1>3, <1>6

(* A bot that starts drops the pending updates, or keeps them.             *)
LEMMA StartStep == PollTypes /\ UpdatesInOrder /\ StartBot => PollTypes' /\ UpdatesInOrder'
<1> SUFFICES ASSUME PollTypes, UpdatesInOrder, StartBot PROVE PollTypes' /\ UpdatesInOrder'
  OBVIOUS
<1> USE MonitorAssumption DEF PollTypes, Updates
<1>1. ~bot /\ bot' /\ bot' \in BOOLEAN /\ UNCHANGED <<arrived, offset, upto, handled>>
  BY DEF StartBot
<1>2. CASE /\ acked' = arrived /\ kept' = kept
           /\ dropped' = dropped \cup {u \in Updates : acked < u /\ u <= arrived}
  <2>1. PollTypes'
    <3>1. dropped' \subseteq Updates
      BY <1>2
    <3>2. acked' \in 0 .. arrived'
      BY <1>1, <1>2
    <3>3. kept' \in BOOLEAN
      BY <1>2
    <3> QED BY <1>1, <3>1, <3>2, <3>3
  <2>2. offset = 0 /\ upto = 0
    BY <1>1 DEF UpdatesInOrder
  <2>3. ASSUME NEW u \in Updates
        PROVE  /\ u <= acked' \/ u <= offset' => handled[u] > 0 \/ u \in dropped'
               /\ (handled[u] > 0 => u <= arrived) /\ (handled[u] > 1 => kept)
    <3>1. /\ u <= acked => handled[u] > 0 \/ u \in dropped
          /\ (handled[u] > 0 => u <= arrived) /\ (handled[u] > 1 => kept)
      BY DEF UpdatesInOrder
    <3> QED BY <1>1, <1>2, <2>2, <3>1
  <2>4. UpdatesInOrder'
    BY <1>1, <1>2, <2>2, <2>3 DEF UpdatesInOrder
  <2> QED BY <2>1, <2>4
<1>3. CASE kept' = TRUE /\ UNCHANGED <<acked, dropped>>
  <2>1. PollTypes'
    BY <1>1, <1>3
  <2>2. UpdatesInOrder'
    BY <1>1, <1>3 DEF UpdatesInOrder
  <2> QED BY <2>1, <2>2
<1> QED BY <1>2, <1>3 DEF StartBot

(* A bot that stops forgets what it was about to handle.                    *)
LEMMA StopPolls == PollTypes /\ UpdatesInOrder /\ StopBot => PollTypes' /\ UpdatesInOrder'
<1> SUFFICES ASSUME PollTypes, UpdatesInOrder, StopBot PROVE PollTypes' /\ UpdatesInOrder'
  OBVIOUS
<1> USE MonitorAssumption DEF PollTypes, Updates
<1>1. ~bot' /\ bot' \in BOOLEAN /\ offset' = 0 /\ upto' = 0 /\ UNCHANGED <<arrived, acked, handled, dropped, kept>>
  BY DEF StopBot
<1>2. PollTypes'
  BY <1>1
<1>3. ASSUME NEW u \in Updates
      PROVE  /\ u <= acked \/ u <= 0 => handled[u] > 0 \/ u \in dropped
             /\ (handled[u] > 0 => u <= arrived) /\ (handled[u] > 1 => kept)
  BY DEF UpdatesInOrder
<1>4. UpdatesInOrder'
  BY <1>1, <1>3 DEF UpdatesInOrder
<1> QED BY <1>2, <1>4

-----------------------------------------------------------------------------
(* The invariant is one of the specification                                   *)

(* Every step of engine, files, alerts and polls keeps it.                  *)
LEMMA InvStep == IInv /\ [Next]_vars => IInv'
<1> SUFFICES ASSUME IInv, [Next]_vars PROVE IInv'
  OBVIOUS
<1>1. /\ EngineTypes /\ AlertTypes /\ PollTypes
      /\ load \in {"low", "near", "high"} /\ alertsOn \in BOOLEAN
  BY DEF IInv, TypeOK, EngineTypes, AlertTypes, PollTypes
<1>2. FilesInStep /\ MailIsNews /\ UpdatesInOrder
  BY DEF IInv
<1>3. UNCHANGED engines => EngineTypes' /\ FilesInStep'
  BY <1>1, <1>2 DEF engines, EngineTypes, FilesInStep
<1>4. UNCHANGED alerts => AlertTypes' /\ MailIsNews'
  <2>1. UNCHANGED alerts => \A x : Now(x)' = Now(x)
    BY DEF alerts, Now
  <2> QED BY <1>1, <1>2, <2>1 DEF alerts, AlertTypes, MailIsNews
<1>5. UNCHANGED <<polling, bot>> => PollTypes' /\ UpdatesInOrder'
  BY <1>1, <1>2 DEF polling, PollTypes, UpdatesInOrder
<1> DEFINE Kept == /\ EngineTypes' /\ FilesInStep' /\ AlertTypes' /\ MailIsNews' /\ PollTypes' /\ UpdatesInOrder'
                   /\ load' \in {"low", "near", "high"} /\ alertsOn' \in BOOLEAN
<1>6. Kept
  <2>1. ASSUME NEW t \in Tunnels, StartEngine(t) \/ SetLinked(t) \/ Publish(t) \/ StopEngine(t)
        PROVE  Kept
    <3>1. EngineTypes' /\ FilesInStep'
      BY <1>1, <1>2, <2>1, EngineStep
    <3>2. UNCHANGED <<load, bot, alertsOn, alerts, polling>>
      BY <2>1 DEF StartEngine, SetLinked, Publish, StopEngine
    <3> QED BY <1>1, <1>4, <1>5, <3>1, <3>2
  <2>2. CASE Tick
    <3>1. UNCHANGED <<load, bot, alertsOn, alerts, polling>>
      BY <2>2 DEF Tick
    <3> QED BY <1>1, <1>2, <1>4, <1>5, <2>2, <3>1, TickStep
  <2>3. CASE LoadMoves
    <3>1. load' \in {"low", "near", "high"} /\ UNCHANGED <<engines, bot, alertsOn, alerts, polling>>
      BY <2>3 DEF LoadMoves
    <3> QED BY <1>1, <1>3, <1>4, <1>5, <3>1
  <2>4. CASE CheckThresholds
    <3>1. UNCHANGED <<engines, load, bot, alertsOn, polling>>
      BY <2>4 DEF CheckThresholds
    <3>2. AlertTypes' /\ MailIsNews'
      BY <1>1, <1>2, <2>4, ThresholdsStep
    <3> QED BY <1>1, <1>3, <1>5, <3>1, <3>2
  <2>5. CASE CheckTunnels
    <3>1. UNCHANGED <<engines, load, bot, alertsOn, polling>>
      BY <2>5 DEF CheckTunnels
    <3>2. AlertTypes' /\ MailIsNews'
      BY <1>1, <1>2, <2>5, TunnelsStep
    <3> QED BY <1>1, <1>3, <1>5, <3>1, <3>2
  <2>6. CASE Send
    <3>1. UNCHANGED <<engines, load, bot, alertsOn, polling>>
      BY <2>6 DEF Send
    <3>2. AlertTypes' /\ MailIsNews'
      BY <1>1, <1>2, <2>6, SendStep
    <3> QED BY <1>1, <1>3, <1>5, <3>1, <3>2
  <2>7. CASE CheckDone
    <3>1. UNCHANGED <<engines, load, bot, alertsOn, polling>>
      BY <2>7 DEF CheckDone
    <3>2. /\ phase' = "idle" /\ mail = {}
          /\ UNCHANGED <<last, alerted, mail, heard, missed>>
      BY <2>7 DEF CheckDone
    <3>3. AlertTypes' /\ MailIsNews'
      BY <1>1, <1>2, <3>2, AlertsFrame
    <3> QED BY <1>1, <1>3, <1>5, <3>1, <3>3
  <2>8. CASE Arrive \/ Poll \/ Handle
    <3>1. UNCHANGED <<engines, load, alertsOn, alerts>>
      BY <2>8 DEF Arrive, Poll, Handle
    <3>2. PollTypes' /\ UpdatesInOrder'
      BY <1>1, <1>2, <2>8, ArriveStep, PollStep, HandleStep
    <3> QED BY <1>1, <1>3, <1>4, <3>1, <3>2
  <2>9. CASE StartBot
    <3>1. UNCHANGED <<engines, load, alertsOn, alerts>>
      BY <2>9 DEF StartBot
    <3>2. PollTypes' /\ UpdatesInOrder'
      BY <1>1, <1>2, <2>9, StartStep
    <3> QED BY <1>1, <1>3, <1>4, <3>1, <3>2
  <2>10. CASE StopBot
    <3>1. UNCHANGED <<engines, load, alertsOn>>
      BY <2>10 DEF StopBot
    <3>2. PollTypes' /\ UpdatesInOrder'
      BY <1>1, <1>2, <2>10, StopPolls
    <3>3. AlertTypes' /\ MailIsNews'
      BY <1>1, <2>10, StopAlerts
    <3> QED BY <1>1, <1>3, <3>1, <3>2, <3>3
  <2>11. CASE UNCHANGED vars
    <3>1. UNCHANGED <<engines, load, bot, alertsOn, alerts, polling>>
      BY <2>11 DEF vars
    <3> QED BY <1>1, <1>3, <1>4, <1>5, <3>1
  <2> QED BY <2>1, <2>2, <2>3, <2>4, <2>5, <2>6, <2>7, <2>8, <2>9, <2>10, <2>11 DEF Next
<1>7. TypeOK'
  BY <1>6 DEF TypeOK, EngineTypes, AlertTypes, PollTypes
<1> QED BY <1>6, <1>7 DEF IInv

\* In every run files, messages and updates are in step with what they are of.
THEOREM Invariant == Spec => []IInv
BY InvInit, InvStep, PTL DEF Spec

-----------------------------------------------------------------------------
(* The properties                                                              *)

\* The variables keep their types.
THEOREM TypeCorrect == Spec => []TypeOK
BY Invariant, PTL DEF IInv

\* What panel, menu and bot show is true of what has lasted (state.go).
THEOREM WhatIsShownIsTrue == Spec => []ShownIsTrue
<1>1. IInv => ShownIsTrue
  <2> SUFFICES ASSUME IInv, NEW t \in Tunnels
               PROVE  /\ engine[t] /\ steady[t] > MaxLate + 1 => Shown(t) = IF link[t] THEN "green" ELSE "yellow"
                      /\ ~engine[t] /\ steady[t] > StaleAfter => Shown(t) = "red"
    BY DEF ShownIsTrue
  <2>1. /\ wait[t] \in 0 .. MaxLate + 1 /\ steady[t] \in 0 .. StaleAfter + 1
        /\ state[t].linked \in BOOLEAN /\ state[t].age \in 0 .. StaleAfter + 1
        /\ engine[t] \in BOOLEAN /\ link[t] \in BOOLEAN
    BY DEF IInv, TypeOK
  <2>2. /\ engine[t] /\ steady[t] >= wait[t] => state[t].age = wait[t]
        /\ engine[t] /\ steady[t] > wait[t] => state[t].linked = link[t]
        /\ ~engine[t] => steady[t] <= state[t].age
    BY DEF IInv, FilesInStep
  <2>3. ASSUME engine[t], steady[t] > MaxLate + 1
        PROVE  Shown(t) = IF link[t] THEN "green" ELSE "yellow"
    <3>1. t \in ReadAll /\ state[t].linked = link[t]
      BY <2>1, <2>2, <2>3, MonitorAssumption DEF ReadAll
    <3> QED BY <2>1, <2>3, <3>1 DEF Shown
  <2>4. ASSUME ~engine[t], steady[t] > StaleAfter PROVE Shown(t) = "red"
    <3>1. t \notin ReadAll
      BY <2>1, <2>2, <2>4, MonitorAssumption DEF ReadAll
    <3> QED BY <2>4, <3>1 DEF Shown
  <2> QED BY <2>3, <2>4
<1> QED BY <1>1, Invariant, PTL

\* An update is neither skipped nor repeated but by a start of the bot (bot.go).
THEOREM UpdatesAreHandledOnce == Spec => []UpdatesHandledOnce
<1>1. IInv => UpdatesHandledOnce
  BY DEF IInv, UpdatesInOrder, UpdatesHandledOnce
<1> QED BY <1>1, Invariant, PTL

\* An admin is not told the same thing about a subject twice running, but for
\* the next message about it after one that was lost, or after a restart of the
\* bot that did not find things as he was told: what waits to be sent is news
\* to whom the bot has not come apart from (bot.go).
THEOREM AlertsAreNews == Spec => OncePerTransition
<1> DEFINE News == \A m \in mail : m \notin mail' /\ bot' /\ <<m.adm, m.about>> \notin missed \cup missed'
                                   => heard[m.adm][m.about] # m.says
<1>1. IInv => News
  BY DEF IInv, MailIsNews
<1> QED BY <1>1, Invariant, PTL DEF OncePerTransition
=============================================================================
