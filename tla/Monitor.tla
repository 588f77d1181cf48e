------------------------------- MODULE Monitor -------------------------------
(* What the operator is shown and told.  Each engine publishes its state in a  *)
(* file every sampling interval; the panel, the menu and the bot read the      *)
(* files.  The bot alerts every admin of what has changed since it last        *)
(* looked, and answers the updates it polls from Telegram.  Engines and bot    *)
(* stop, crash and start at any moment; time is counted in sampling intervals. *)
EXTENDS Naturals, Sequences

CONSTANTS
  Tunnels,
  Admins,
  Flaky,       \* bound: the admins whom a message may fail to reach
  StaleAfter,  \* intervals after which a state file is not believed
  MaxLate,     \* assumption: how many intervals late a publication may be
  Unseen,      \* the bot has not seen the tunnel since it started
  MaxUpdates   \* bound: updates that admins send, to a bot that sends no alerts

ASSUME MonitorAssumption ==
  /\ StaleAfter \in Nat /\ MaxLate \in Nat /\ MaxUpdates \in Nat
  /\ MaxLate < StaleAfter /\ "cpu" \notin Tunnels /\ Flaky \subseteq Admins

VARIABLES
  engine,    \* is the tunnel's engine running
  link,      \* its linked flag
  wait,      \* intervals since it last published
  state,     \* its state file: the flag and its age, or NoState
  steady,    \* history: intervals since engine or flag last changed
  load,      \* the host: "low", "near" the threshold but below it, or "high"
  bot,       \* is the bot running
  alertsOn,  \* settings.Alerts
  phase,     \* its alert loop: idle, in the thresholds, in the tunnels
  last,      \* lastLinked
  alerted,   \* the threshold has been reported as crossed
  mail,      \* the messages of the current check not yet sent
  heard,     \* history: what each admin was told last, by whichever bot; or, as
             \* long as nothing was, what silence tells
  missed,    \* history: the <<admin, subject>> at which the two came apart: a
             \* message was lost, or a new bot believes otherwise
  arrived,   \* updates sent to the bot
  acked,     \* updates Telegram no longer keeps
  offset,    \* the last update the bot has taken up
  upto,      \* the last one of the batch it has
  handled,   \* history: how often each update has been handled
  dropped,   \* history: the updates dropped at a start of the bot
  kept       \* history: a start of the bot failed to drop the pending updates

engines == <<engine, link, wait, state, steady>>
alerts  == <<phase, last, alerted, mail, heard, missed>>
polling == <<arrived, acked, offset, upto, handled, dropped, kept>>
vars    == <<engines, load, bot, alertsOn, alerts, polling>>

NoState == [linked |-> FALSE, age |-> StaleAfter + 1]
Flags   == BOOLEAN \cup {Unseen}
Updates == 1 .. MaxUpdates
Subjects == Tunnels \cup {"cpu"}
Least(a, b) == IF a < b THEN a ELSE b

-----------------------------------------------------------------------------
(* Engines and their state files                                             *)

\* Its first publication is due at once; until then the file is an old engine's.
StartEngine(t) ==
  /\ ~engine[t]
  /\ engine' = [engine EXCEPT ![t] = TRUE] /\ link' = [link EXCEPT ![t] = FALSE]
  /\ wait' = [wait EXCEPT ![t] = 1] /\ steady' = [steady EXCEPT ![t] = 0]
  /\ UNCHANGED <<state, load, bot, alertsOn, alerts, polling>>

SetLinked(t) ==
  /\ engine[t]
  /\ link' = [link EXCEPT ![t] = ~@] /\ steady' = [steady EXCEPT ![t] = 0]
  /\ UNCHANGED <<engine, wait, state, load, bot, alertsOn, alerts, polling>>

\* The rename makes the new file appear at once.
Publish(t) ==
  /\ engine[t] /\ wait[t] > 0
  /\ wait' = [wait EXCEPT ![t] = 0]
  /\ state' = [state EXCEPT ![t] = [linked |-> link[t], age |-> 0]]
  /\ UNCHANGED <<engine, link, steady, load, bot, alertsOn, alerts, polling>>

\* Run closes done and returns: the publishing goroutine may remove the file,
\* or the process may be gone first, as it is when it is killed.
StopEngine(t) ==
  /\ engine[t]
  /\ engine' = [engine EXCEPT ![t] = FALSE] /\ link' = [link EXCEPT ![t] = FALSE]
  /\ wait' = [wait EXCEPT ![t] = 0] /\ steady' = [steady EXCEPT ![t] = 0]
  /\ \/ state' = [state EXCEPT ![t] = NoState]
     \/ UNCHANGED state
  /\ UNCHANGED <<load, bot, alertsOn, alerts, polling>>

Tick ==
  /\ \A t \in Tunnels : wait[t] <= MaxLate
  /\ wait' = [t \in Tunnels |-> IF engine[t] THEN wait[t] + 1 ELSE 0]
  /\ state' = [t \in Tunnels |-> [state[t] EXCEPT !.age = Least(@ + 1, StaleAfter + 1),
                                    !.linked = @ /\ state[t].age < StaleAfter]]
  /\ steady' = [t \in Tunnels |-> Least(steady[t] + 1, StaleAfter + 1)]
  /\ UNCHANGED <<engine, link, load, bot, alertsOn, alerts, polling>>

\* A reader believes any file it finds.
SlipReadAll == Tunnels
\* ReadAll: the tunnels whose files are recent.
ReadAll == {t \in Tunnels : state[t].age <= StaleAfter}

\* What panel, menu and bot show of a tunnel; systemd's word is that of a
\* process, and a fresh file outranks it.
Shown(t) ==
  IF t \in ReadAll /\ state[t].linked THEN "green"
  ELSE IF engine[t] \/ t \in ReadAll THEN "yellow" ELSE "red"

-----------------------------------------------------------------------------
(* The bot's alerts                                                          *)

LoadMoves ==
  /\ load' \in {"low", "near", "high"} \ {load}
  /\ UNCHANGED <<engines, bot, alertsOn, alerts, polling>>

\* What a bot that has just started believes: the load is low, and of the
\* tunnels nothing.
Unheard(x) == IF x = "cpu" THEN FALSE ELSE Unseen

\* broadcast: the message goes to each admin in turn, in no particular order.
Broadcast(x, v) == {[adm |-> a, about |-> x, says |-> v] : a \in Admins}

\* The alert is cleared as soon as the value is below the limit.
SlipCleared == load # "high"
\* threshold: a crossing is over only a few points below the limit.
Cleared == load = "low"

CheckThresholds ==
  /\ bot /\ alertsOn /\ phase = "idle"
  /\ phase' = "thresholds"
  /\ alerted' = CASE load = "high" -> TRUE [] Cleared -> FALSE [] OTHER -> alerted
  /\ mail' = IF alerted' = alerted THEN {} ELSE Broadcast("cpu", alerted')
  /\ UNCHANGED <<engines, load, bot, alertsOn, last, heard, missed, polling>>

\* The last state is kept of the tunnels that changed only.
SlipSeen(t) == IF t \in ReadAll /\ last[t] = Unseen THEN state[t].linked ELSE last[t]
\* lastLinked, once the files have been read.
Seen(t) == IF t \in ReadAll THEN state[t].linked ELSE last[t]

\* The tunnels a bot sees for the first time, which it does not report.
FirstSeen == {t \in ReadAll : last[t] = Unseen}

\* The files are read after the messages about thresholds have gone out.  Who
\* was never told of a tunnel takes it to be as it is when first seen; who was
\* told so by an earlier bot is right again.
CheckTunnels ==
  /\ bot /\ phase = "thresholds" /\ mail = {}
  /\ phase' = "tunnels"
  /\ last' = [t \in Tunnels |-> Seen(t)]
  /\ mail' = UNION {Broadcast(t, state[t].linked) :
                      t \in {u \in ReadAll : last[u] \notin {Unseen, state[u].linked}}}
  /\ heard' = [a \in Admins |-> [x \in Subjects |->
                 IF x \in FirstSeen /\ heard[a][x] = Unseen THEN state[x].linked ELSE heard[a][x]]]
  /\ missed' = missed \ {p \in Admins \X FirstSeen : heard[p[1]][p[2]] \in {Unseen, state[p[2]].linked}}
  /\ UNCHANGED <<engines, load, bot, alertsOn, alerted, polling>>

\* One sendMessage: an error is logged, and the next admin has its turn.
Send ==
  /\ bot
  /\ \E m \in mail :
       /\ mail' = mail \ {m}
       /\ \/ /\ heard' = [heard EXCEPT ![m.adm][m.about] = m.says]
             /\ missed' = missed \ {<<m.adm, m.about>>}
          \/ /\ m.adm \in Flaky
             /\ missed' = missed \cup {<<m.adm, m.about>>}
             /\ UNCHANGED heard
  /\ UNCHANGED <<engines, load, bot, alertsOn, phase, last, alerted, polling>>

CheckDone ==
  /\ bot /\ phase = "tunnels" /\ mail = {}
  /\ phase' = "idle"
  /\ UNCHANGED <<engines, load, bot, alertsOn, last, alerted, mail, heard, missed, polling>>

-----------------------------------------------------------------------------
(* The bot's updates                                                         *)

\* The poller and the alert loop share nothing but the process: a bot does one
\* of the two, which keeps the product of their states out of the runs.
Arrive ==
  /\ ~alertsOn /\ arrived < MaxUpdates /\ arrived' = arrived + 1
  /\ UNCHANGED <<engines, load, bot, alertsOn, alerts, acked, offset, upto, handled, dropped, kept>>

\* The next update is acknowledged with the last one.
SlipPoll ==
  /\ bot /\ offset = upto
  /\ acked' = IF offset > acked THEN offset + 1 ELSE acked
  /\ \/ /\ acked' < arrived
        /\ offset' = acked' /\ upto' = arrived
     \/ UNCHANGED <<offset, upto>>
  /\ UNCHANGED <<engines, load, bot, alertsOn, alerts, arrived, handled, dropped, kept>>

\* getUpdates acknowledges what is below its offset and returns the rest; the
\* answer may be lost.
Poll ==
  /\ bot /\ offset = upto
  /\ acked' = IF offset > acked THEN offset ELSE acked
  /\ \/ /\ acked' < arrived
        /\ offset' = acked' /\ upto' = arrived
     \/ UNCHANGED <<offset, upto>>
  /\ UNCHANGED <<engines, load, bot, alertsOn, alerts, arrived, handled, dropped, kept>>

\* The batch counts as taken up before it has been handled.
SlipHandle ==
  /\ bot /\ offset < upto
  /\ offset' = upto
  /\ handled' = [handled EXCEPT ![offset + 1] = Least(@ + 1, 2)]
  /\ UNCHANGED <<engines, load, bot, alertsOn, alerts, arrived, acked, upto, dropped, kept>>

Handle ==
  /\ bot /\ offset < upto
  /\ offset' = offset + 1
  /\ handled' = [handled EXCEPT ![offset'] = Least(@ + 1, 2)]
  /\ UNCHANGED <<engines, load, bot, alertsOn, alerts, arrived, acked, upto, dropped, kept>>

-----------------------------------------------------------------------------
(* The bot's process                                                         *)

\* deleteWebhook drops the pending updates; its error is ignored.
StartBot ==
  /\ ~bot /\ bot' = TRUE
  /\ \/ /\ acked' = arrived /\ kept' = kept
        /\ dropped' = dropped \cup {u \in Updates : acked < u /\ u <= arrived}
     \/ /\ kept' = TRUE
        /\ UNCHANGED <<acked, dropped>>
  /\ UNCHANGED <<engines, load, alertsOn, alerts, arrived, offset, upto, handled>>

\* It stops or is killed, whatever it is in the middle of, or panics in handle,
\* as an admin's message without text makes it do.  It forgets everything; the
\* admins do not.
StopBot ==
  /\ bot /\ bot' = FALSE
  /\ phase' = "idle" /\ last' = [t \in Tunnels |-> Unseen] /\ alerted' = FALSE /\ mail' = {}
  /\ missed' = {p \in Admins \X Subjects : heard[p[1]][p[2]] # Unheard(p[2])}
  /\ offset' = 0 /\ upto' = 0
  /\ UNCHANGED <<engines, load, alertsOn, heard, arrived, acked, handled, dropped, kept>>

-----------------------------------------------------------------------------
(* The specification                                                         *)

Init ==
  /\ engine = [t \in Tunnels |-> FALSE] /\ link = [t \in Tunnels |-> FALSE]
  /\ wait = [t \in Tunnels |-> 0] /\ steady = [t \in Tunnels |-> 0]
  /\ state = [t \in Tunnels |-> NoState]
  /\ load = "low" /\ bot = FALSE /\ alertsOn \in BOOLEAN
  /\ phase = "idle" /\ last = [t \in Tunnels |-> Unseen] /\ alerted = FALSE /\ mail = {}
  /\ heard = [a \in Admins |-> [x \in Subjects |-> Unheard(x)]] /\ missed = {}
  /\ arrived = 0 /\ acked = 0 /\ offset = 0 /\ upto = 0
  /\ handled = [u \in Updates |-> 0] /\ dropped = {} /\ kept = FALSE

Next ==
  \/ \E t \in Tunnels : StartEngine(t) \/ SetLinked(t) \/ Publish(t) \/ StopEngine(t)
  \/ Tick \/ LoadMoves
  \/ CheckThresholds \/ CheckTunnels \/ Send \/ CheckDone
  \/ Arrive \/ Poll \/ Handle
  \/ StartBot \/ StopBot

\* Time passes, tickers fire, and a goroutine that can go on does.
Fairness ==
  /\ WF_vars(Tick) /\ \A t \in Tunnels : WF_vars(Publish(t))
  /\ WF_vars(CheckThresholds) /\ WF_vars(CheckTunnels) /\ WF_vars(Send) /\ WF_vars(CheckDone)
  /\ WF_vars(Poll) /\ WF_vars(Handle)

Spec == Init /\ [][Next]_vars /\ Fairness

-----------------------------------------------------------------------------
(* Properties                                                                *)

\* The variables keep their types.
TypeOK ==
  /\ engine \in [Tunnels -> BOOLEAN] /\ link \in [Tunnels -> BOOLEAN]
  /\ wait \in [Tunnels -> 0 .. MaxLate + 1] /\ steady \in [Tunnels -> 0 .. StaleAfter + 1]
  /\ state \in [Tunnels -> [linked : BOOLEAN, age : 0 .. StaleAfter + 1]]
  /\ load \in {"low", "near", "high"} /\ bot \in BOOLEAN /\ alertsOn \in BOOLEAN
  /\ phase \in {"idle", "thresholds", "tunnels"} /\ last \in [Tunnels -> Flags] /\ alerted \in BOOLEAN
  /\ mail \subseteq [adm : Admins, about : Subjects, says : BOOLEAN]
  /\ heard \in [Admins -> [Subjects -> Flags]] /\ missed \subseteq Admins \X Subjects
  /\ arrived \in 0 .. MaxUpdates /\ acked \in 0 .. arrived /\ offset \in 0 .. upto
  /\ upto \in 0 .. arrived /\ handled \in [Updates -> 0 .. 2] /\ dropped \subseteq Updates
  /\ kept \in BOOLEAN

\* What is shown is true once things have lasted: an engine that is merely busy
\* is not declared dead (state.go:27), its peer is shown for what it is, and
\* what an engine that was killed left behind is not believed for long.
ShownIsTrue ==
  \A t \in Tunnels :
    /\ engine[t] /\ steady[t] > MaxLate + 1 => Shown(t) = IF link[t] THEN "green" ELSE "yellow"
    /\ ~engine[t] /\ steady[t] > StaleAfter => Shown(t) = "red"

\* An admin is not told the same thing about a subject twice running, however a
\* value hovers or a link flaps between two checks: once per transition
\* (bot.go:407).  Two things except the next message about that subject, and no
\* more than that one: one about it did not reach him, or the bot has been
\* restarted and did not find things as he was told.  A new bot knows nothing
\* of what an old one said, and repeats an alert whose cause still holds.
OncePerTransition ==
  [][\A m \in mail : m \notin mail' /\ bot' /\ <<m.adm, m.about>> \notin missed \cup missed'
                     => heard[m.adm][m.about] # m.says]_vars

\* While the bot runs, what an admin was told last, or was not told because
\* nothing changed since the bot first looked, becomes and stays right about a
\* tunnel that stays as it is, and about a load that does.  A message that did
\* not arrive is not sent again, and what has changed while no bot ran is not
\* told: it is about admin and subject where the last message did arrive, or a
\* new bot found things as he was told.
\* And a load that only hovers around the threshold stops being reported.
Lasting(x, v) ==
  /\ bot /\ alertsOn
  /\ IF x = "cpu" THEN load = (IF v THEN "high" ELSE "low") ELSE engine[x] /\ link[x] = v
AlertsConverge ==
  /\ \A a \in Admins, x \in Subjects, v \in BOOLEAN :
       <>[](Lasting(x, v) /\ <<a, x>> \notin missed) => <>[](heard[a][x] = v)
  /\ <>[](bot /\ load # "low") => <>[](\A m \in mail : m.about # "cpu")

\* An update is handled once: not skipped unless it was dropped at a start of
\* the bot, not repeated unless a start failed to drop it.
UpdatesHandledOnce ==
  \A u \in Updates :
    /\ u <= acked => handled[u] > 0 \/ u \in dropped
    /\ handled[u] > 1 => kept
=============================================================================
