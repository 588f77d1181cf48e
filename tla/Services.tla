------------------------------ MODULE Services ------------------------------
(* A host's tunnels and daemons as files, systemd units and processes, and the *)
(* operations that menus and the daemons' requests carry out on them, one call *)
(* after the other and at the same time as each other: create, set up, remove, *)
(* disable, control, back up, restore, update, uninstall.  Any call may fail,  *)
(* any operation may be cut short.  Writing a unit file and removing a tree    *)
(* are one step; writing a config or a settings file is two, because readers   *)
(* and other writers see the file in between.                                  *)
EXTENDS Naturals

CONSTANTS
  Names,      \* names a tunnel may have
  Contents,   \* what a config or a settings file may say
  ReadOnly,   \* those of them that put the panel in monitoring-only mode
  Default,    \* what the items that are there at first say
  Menus,      \* menus that may be open at once
  Requests,   \* requests the panel and the bot may be serving at once
  NoFile,     \* there is no such file
  Torn,       \* it is there and not whole: created and not yet written, or mixed
  MaxOps,     \* bound: operations that are started
  MaxFaults,  \* bound: calls that fail, operations cut short, crashes, reboots
  MaxVersion  \* bound: releases

ASSUME ServicesAssumption ==
  /\ Menus \cap Requests = {} /\ ReadOnly \subseteq Contents /\ Default \in Contents
  /\ NoFile \notin Contents /\ Torn \notin Contents /\ NoFile # Torn
  /\ MaxOps \in Nat /\ MaxFaults \in Nat /\ MaxVersion \in Nat \ {0}
  /\ Names \cap {"webui", "bot"} = {}

VARIABLES
  file,     \* the config or settings file of each item
  tmp,      \* the temporary file beside a settings file
  unit,     \* items with a unit file
  enabled,  \* items that systemd starts at boot
  proc,     \* what runs for each item: from which content, of which version
  bin,      \* the installed binary
  latest,   \* the newest release
  archive,  \* the operator's backup
  op,       \* what each menu or request is doing
  started,  \* how many operations have been started
  faults,   \* how many faults there have been
  spoilt,   \* history: what two operations at once, a failed stop or a write
            \* cut short have touched
  copied    \* history: what a restore has written from a torn copy

disk   == <<file, tmp>>
system == <<unit, enabled>>
rest   == <<latest, archive, copied>>
bounds == <<started, faults>>
vars   == <<disk, system, proc, bin, rest, op, bounds, spoilt>>

Panel   == "webui"
Bot     == "bot"
Daemons == {Panel, Bot}
Items   == Names \cup Daemons
Actors  == Menus \cup Requests
OnDisk  == Contents \cup {NoFile, Torn}
Backups == UNION {[S -> Contents \cup {Torn}] : S \in SUBSET Items}

\* A version, and whether it is the file that was released.
Binaries == [ver : 0 .. MaxVersion, whole : BOOLEAN]
NoBinary == [ver |-> 0, whole |-> FALSE]

\* List: the configs in the directory are the tunnels there are.
List == {n \in Names : file[n] # NoFile}

Off      == [run |-> "off", cfg |-> NoFile, ver |-> 0]
Failing  == [run |-> "failing", cfg |-> NoFile, ver |-> 0]
Up(c, v) == [run |-> "up", cfg |-> c, ver |-> v]
\* A process starts on whatever its file holds.
SlipStart(i) == IF bin.whole /\ file[i] # NoFile THEN Up(file[i], bin.ver) ELSE Failing

\* A process loads its file and exits if it cannot; systemd then tries again
\* and again.
Start(i) == IF bin.whole /\ file[i] \in Contents THEN Up(file[i], bin.ver) ELSE Failing

-----------------------------------------------------------------------------
(* Operations                                                                *)

\* at: the next call; item, cfg: what it is about; todo: items left; done: what
\* a restore has re-installed; arch: the archive it restores or builds; fd:
\* where the file it has open is now; ver, got: the version it knows of and the
\* binary it downloaded; by: the process it runs in; sound: nothing else has
\* touched the same things since it began, no failure was passed over, and no
\* release came between the version it looked up and the binary it downloads.
Idle == [kind |-> "none", at |-> "end", item |-> Panel, cfg |-> NoFile, todo |-> {},
         done |-> {}, arch |-> <<>>, fd |-> "none", ver |-> 0, got |-> NoBinary,
         by |-> "menu", sound |-> TRUE, res |-> "none"]

Busy == {a \in Actors : op[a].kind # "none"}

Touches(o) == CASE o.kind = "restore"   -> DOMAIN o.arch
                [] o.kind = "backup"    -> Items
                [] o.kind = "update"    -> {"binary"}
                [] o.kind = "uninstall" -> Items \cup {"binary"}
                [] OTHER                -> {o.item}
Clash(o, p) == Touches(o) \cap Touches(p)
\* What two operations at once may leave in neither's state: a backup only reads.
Spoils(o, p) == IF "backup" \in {o.kind, p.kind} THEN {} ELSE Clash(o, p)

Ended(a, r)   == [op EXCEPT ![a] = [Idle EXCEPT !.res = r]]
Advance(a, s) == [op EXCEPT ![a].at = s]
\* The calls of an install, and of a save, end in these.
Failed(a)   == IF op[a].kind = "restore" THEN Advance(a, "load") ELSE Ended(a, "failed")
Installed(a) ==
  IF op[a].kind = "restore"
  THEN [op EXCEPT ![a].at = "load", ![a].done = @ \cup {op[a].item}]
  ELSE Ended(a, "ok")
Removed(a, r) == IF op[a].kind = "uninstall" THEN Advance(a, "pick") ELSE Ended(a, r)
\* Disabling a daemon keeps its settings.
UnitRemoved(a, r) == IF op[a].item \in Names THEN Advance(a, "rmconf") ELSE Removed(a, r)

\* Requests end with the process that serves them; a write cut short stays.
ServedBy(i)    == {a \in Busy : op[a].by = i}
Killed(o, who) == [a \in Actors |-> IF a \in who THEN [Idle EXCEPT !.res = "killed"] ELSE o[a]]
Cut(who)       == {op[a].item : a \in {b \in who : op[b].at \in {"fill", "xfill"}
                                                  /\ op[b].fd = "live"}}
SetProc(i, p, o) ==
  /\ proc' = [proc EXCEPT ![i] = p]
  /\ op' = Killed(o, ServedBy(i))
  /\ spoilt' = spoilt \cup Cut(ServedBy(i))

\* The files of these items have gone, or their temporary file has their name
\* now: what other operations have open follows.
Unlinked(o, S) == [a \in Actors |-> IF o[a].item \in S /\ o[a].fd # "none"
                                    THEN [o[a] EXCEPT !.fd = "gone"] ELSE o[a]]
Renamed(o, d) == [a \in Actors |->
  IF o[a].item # d THEN o[a]
  ELSE [o[a] EXCEPT !.fd = CASE @ = "live" -> "gone" [] @ = "tmp" -> "live" [] OTHER -> @]]
\* Over what someone else has written meanwhile, a write may leave a mixture.
Written(cur, c) == IF cur \in {Torn, c} THEN {c} ELSE {c, Torn}

-----------------------------------------------------------------------------
(* Starting an operation                                                     *)

Begin(a, o) ==
  /\ a \notin Busy /\ started < MaxOps
  /\ started' = started + 1
  /\ LET others == {b \in Busy : Clash(o, op[b]) # {}} IN
     /\ op' = [b \in Actors |->
                 IF b = a THEN [o EXCEPT !.sound = (others = {})]
                 ELSE [op[b] EXCEPT !.sound = @ /\ b \notin others]]
     /\ spoilt' = spoilt \cup UNION {Spoils(o, op[b]) : b \in others}
  /\ UNCHANGED <<disk, system, proc, bin, rest, faults>>

New(k, s, i, c) == [Idle EXCEPT !.kind = k, !.at = s, !.item = i, !.cfg = c]

\* The panel serves whom it lets; monitoring-only panels serve backups only.
MayServe(d, k) ==
  /\ proc[d].run = "up"
  /\ d = Panel => k = "backup" \/ proc[d].cfg \notin ReadOnly
  /\ k = "restore" => d = Panel
Hosts(a, k) == IF a \in Menus THEN (IF k = "restore" THEN {} ELSE {"menu"})
               ELSE {d \in Daemons : MayServe(d, k)}

CreateTunnel(m, n, c) == m \in Menus /\ Begin(m, New("create", "open", n, c))
SetUp(m, d, c)        == m \in Menus /\ Begin(m, New("setup", "tmp", d, c))
SetThresholds(m, c)   == m \in Menus /\ Begin(m, New("thresholds", "tmp", Bot, c))
RemoveTunnel(m, n)    == m \in Menus /\ n \in List /\ Begin(m, New("remove", "stop", n, NoFile))
DisableDaemon(m, d)   == m \in Menus /\ Begin(m, New("disable", "stop", d, NoFile))
\* The tunnels to remove are listed before the operator is asked anything.
Uninstall(m) == /\ m \in Menus
                /\ Begin(m, [New("uninstall", "ask", Panel, NoFile)
                               EXCEPT !.todo = List \cup Daemons])
Backup(a, d) == /\ d \in Hosts(a, "backup")
                /\ Begin(a, [New("backup", "read", Panel, NoFile) EXCEPT !.by = d,
                               !.todo = {i \in Items : file[i] # NoFile}])
Restore(a, d) == /\ d \in Hosts(a, "restore") /\ archive # <<>>
                 /\ Begin(a, [New("restore", "extract", Panel, NoFile) EXCEPT !.by = d,
                                !.arch = archive, !.todo = DOMAIN archive])
\* The version an update starts from is that of the process: a menu may have
\* been open since any earlier release.
Update(a, d) == /\ d \in Hosts(a, "update")
                /\ \E v \in IF d = "menu" THEN 1 .. latest ELSE {proc[d].ver} :
                     Begin(a, [New("update", "check", Panel, NoFile) EXCEPT !.by = d, !.ver = v])

\* One systemctl verb on an item, by a menu or by the panel (tunnels only).
Control(a, verb, i) ==
  /\ a \notin Busy /\ started < MaxOps /\ i \in unit
  /\ IF a \in Menus THEN i \in Daemons => verb = "restart"
     ELSE i \in Names /\ MayServe(Panel, "control")
  /\ started' = started + 1
  /\ LET met == {b \in Busy : i \in Touches(op[b])}
         p   == CASE verb = "restart" -> Start(i) [] verb = "stop" -> Off
                  [] verb = "start" -> IF proc[i].run = "up" THEN proc[i] ELSE Start(i)
         ends == IF p = proc[i] /\ verb = "start" THEN {} ELSE ServedBy(i)
     IN /\ proc' = [proc EXCEPT ![i] = p]
        /\ op' = Killed([b \in Actors |-> [op[b] EXCEPT !.sound = @ /\ b \notin met]], ends)
        /\ spoilt' = spoilt \cup Cut(ends) \cup (IF met = {} THEN {} ELSE {i})
  /\ UNCHANGED <<disk, system, bin, rest, faults>>

-----------------------------------------------------------------------------
(* Install, installService and saveJSON                                      *)

At(a, s) == a \in Busy /\ op[a].at = s

\* config.Save creates the config in place, then encodes into it; the chmod
\* after it fails if the file has gone.
OpenConfig(a) ==
  /\ At(a, "open")
  /\ file' = [file EXCEPT ![op[a].item] = Torn]
  /\ op' = [op EXCEPT ![a].at = "fill", ![a].fd = "live"]
  /\ UNCHANGED <<tmp, system, proc, bin, rest, bounds, spoilt>>

FillConfig(a) ==
  /\ At(a, "fill")
  /\ IF op[a].fd = "live"
     THEN \E x \in Written(file[op[a].item], op[a].cfg) : file' = [file EXCEPT ![op[a].item] = x]
     ELSE file' = file
  /\ op' = IF file'[op[a].item] = NoFile THEN Failed(a)
           ELSE [op EXCEPT ![a].at = "unit", ![a].fd = "none"]
  /\ UNCHANGED <<tmp, system, proc, bin, rest, bounds, spoilt>>

\* The settings file itself is truncated and written, with no temporary file.
SlipOpenTmp(a) ==
  /\ At(a, "tmp")
  /\ file' = [file EXCEPT ![op[a].item] = Torn]
  /\ tmp' = [tmp EXCEPT ![op[a].item] = op[a].cfg]
  /\ op' = [op EXCEPT ![a].at = "rename"]
  /\ UNCHANGED <<system, proc, bin, rest, bounds, spoilt>>

\* saveJSON: every writer of a settings file uses the same temporary name.
OpenTmp(a) ==
  /\ At(a, "tmp")
  /\ tmp' = [tmp EXCEPT ![op[a].item] = Torn]
  /\ op' = [op EXCEPT ![a].at = "tmpfill", ![a].fd = "tmp"]
  /\ UNCHANGED <<file, system, proc, bin, rest, bounds, spoilt>>

FillTmp(a) ==
  LET d == op[a].item IN
  /\ At(a, "tmpfill")
  /\ \/ /\ op[a].fd = "tmp" /\ file' = file
        /\ \E x \in Written(tmp[d], op[a].cfg) : tmp' = [tmp EXCEPT ![d] = x]
     \/ /\ op[a].fd = "live" /\ tmp' = tmp
        /\ \E x \in Written(file[d], op[a].cfg) : file' = [file EXCEPT ![d] = x]
     \/ op[a].fd \notin {"tmp", "live"} /\ UNCHANGED disk
  /\ op' = [op EXCEPT ![a].at = "rename", ![a].fd = "none"]
  /\ UNCHANGED <<system, proc, bin, rest, bounds, spoilt>>

RenameTmp(a) ==
  LET d == op[a].item IN
  /\ At(a, "rename")
  /\ IF tmp[d] = NoFile
     THEN op' = Failed(a) /\ UNCHANGED disk
     ELSE /\ file' = [file EXCEPT ![d] = tmp[d]]
          /\ tmp' = [tmp EXCEPT ![d] = NoFile]
          /\ op' = Renamed(Advance(a, IF op[a].kind = "thresholds" THEN "nudge" ELSE "unit"), d)
  /\ UNCHANGED <<system, proc, bin, rest, bounds, spoilt>>

WriteUnit(a) ==
  /\ At(a, "unit")
  /\ unit' = unit \cup {op[a].item}
  /\ op' = Advance(a, "enable")
  /\ UNCHANGED <<disk, enabled, proc, bin, rest, bounds, spoilt>>

\* The unit is written and not enabled.
SlipEnableUnit(a) ==
  /\ At(a, "enable") /\ op' = Advance(a, "restart")
  /\ UNCHANGED <<disk, system, proc, bin, rest, bounds, spoilt>>

EnableUnit(a) ==
  /\ At(a, "enable")
  /\ IF op[a].item \in unit
     THEN enabled' = enabled \cup {op[a].item} /\ op' = Advance(a, "restart")
     ELSE enabled' = enabled /\ op' = Failed(a)
  /\ UNCHANGED <<disk, unit, proc, bin, rest, bounds, spoilt>>

RestartUnit(a) ==
  /\ At(a, "restart")
  /\ IF op[a].item \in unit THEN SetProc(op[a].item, Start(op[a].item), Installed(a))
     ELSE op' = Failed(a) /\ UNCHANGED <<proc, spoilt>>
  /\ UNCHANGED <<disk, system, bin, rest, bounds>>

\* setupThresholds restarts the bot if it runs, whatever comes of that.
Nudge(a) ==
  /\ At(a, "nudge")
  /\ IF proc[Bot].run = "up" /\ Bot \in unit THEN SetProc(Bot, Start(Bot), Ended(a, "ok"))
     ELSE op' = Ended(a, "ok") /\ UNCHANGED <<proc, spoilt>>
  /\ UNCHANGED <<disk, system, bin, rest, bounds>>

-----------------------------------------------------------------------------
(* Remove, removeService and uninstallAll                                    *)

StopUnit(a) ==
  /\ At(a, "stop")
  /\ SetProc(op[a].item, Off, Advance(a, "disable"))
  /\ UNCHANGED <<disk, system, bin, rest, bounds>>

\* The config goes before the unit.
SlipDisableUnit(a) ==
  /\ At(a, "disable")
  /\ enabled' = enabled \ {op[a].item}
  /\ file' = [file EXCEPT ![op[a].item] = NoFile]
  /\ op' = Advance(a, "rmunit")
  /\ UNCHANGED <<tmp, unit, proc, bin, rest, bounds, spoilt>>

DisableUnit(a) ==
  /\ At(a, "disable")
  /\ enabled' = enabled \ {op[a].item}
  /\ op' = Advance(a, "rmunit")
  /\ UNCHANGED <<disk, unit, proc, bin, rest, bounds, spoilt>>

\* The last call of a removal, daemon-reload, may fail with everything gone: it
\* is reported as failed, and an uninstall goes on with its next item.
Reloaded == {"ok", "failed"}

RemoveUnit(a) ==
  /\ At(a, "rmunit")
  /\ unit' = unit \ {op[a].item}
  /\ \E r \in Reloaded : op' = UnitRemoved(a, r)
  /\ UNCHANGED <<disk, enabled, proc, bin, rest, bounds, spoilt>>

RemoveConf(a) ==
  /\ At(a, "rmconf")
  /\ file' = [file EXCEPT ![op[a].item] = NoFile]
  /\ \E r \in Reloaded : op' = Unlinked(Removed(a, r), {op[a].item})
  /\ UNCHANGED <<tmp, system, proc, bin, rest, bounds, spoilt>>

\* The tunnels first, then the panel, then the bot.
PickNext(a) ==
  /\ At(a, "pick")
  /\ IF op[a].todo = {} THEN op' = Advance(a, "purge")
     ELSE \E i \in op[a].todo :
            /\ i \in Daemons => op[a].todo \subseteq Daemons
            /\ i = Bot => op[a].todo = {Bot}
            /\ op' = [op EXCEPT ![a].at = "stop", ![a].item = i, ![a].todo = @ \ {i}]
  /\ UNCHANGED <<disk, system, proc, bin, rest, bounds, spoilt>>

\* A backup is offered first; it is read in one step here, Backup's in several.
\* One that fails leaves the operator with the same question.
SaveFirst(a) ==
  /\ At(a, "ask")
  /\ archive' = [i \in {j \in Items : file[j] # NoFile} |-> file[i]]
  /\ op' = Advance(a, "confirm")
  /\ UNCHANGED <<disk, system, proc, bin, latest, copied, bounds, spoilt>>

Answer(a) ==
  /\ At(a, "ask") \/ At(a, "confirm")
  /\ op' \in {Advance(a, "pick"), Ended(a, "cancelled")}
  /\ UNCHANGED <<disk, system, proc, bin, rest, bounds, spoilt>>

Purge(a) ==
  /\ At(a, "purge")
  /\ file' = [i \in Items |-> NoFile] /\ tmp' = [d \in Daemons |-> NoFile]
  /\ op' = Unlinked(Advance(a, "rmbin"), Items)
  /\ UNCHANGED <<system, proc, bin, rest, bounds, spoilt>>

RemoveBinary(a) ==
  /\ At(a, "rmbin")
  /\ bin' = NoBinary /\ op' = Ended(a, "ok")
  /\ UNCHANGED <<disk, system, proc, rest, bounds, spoilt>>

-----------------------------------------------------------------------------
(* Build, Extract and Restore                                                *)

\* The directory is read in the order of its names, of which a tunnel's may
\* come before, between or after those of telegram.json and webui.json.
FirstOf(S) == {i \in S : i = Panel => Bot \notin S}

Entered(arch, i) == [j \in DOMAIN arch \cup {i} |-> IF j = i THEN file[i] ELSE arch[j]]

\* The files listed at the start are read one by one; one that has gone or
\* cannot be read is left out.
ReadEntry(a) ==
  /\ At(a, "read") /\ op[a].todo # {}
  /\ \E i \in FirstOf(op[a].todo) :
       op' = [op EXCEPT ![a].todo = @ \ {i},
                        ![a].arch = IF file[i] = NoFile THEN @ ELSE Entered(@, i)]
  /\ UNCHANGED <<disk, system, proc, bin, rest, bounds, spoilt>>

SaveArchive(a) ==
  /\ At(a, "read") /\ op[a].todo = {}
  /\ archive' = op[a].arch /\ op' = Ended(a, "ok")
  /\ UNCHANGED <<disk, system, proc, bin, latest, copied, bounds, spoilt>>

\* An entry is written over the live file, not beside it.
OpenEntry(a) ==
  /\ At(a, "extract")
  /\ \E i \in FirstOf(op[a].todo) :
       /\ file' = [file EXCEPT ![i] = Torn]
       /\ op' = [op EXCEPT ![a].at = "xfill", ![a].item = i, ![a].fd = "live", ![a].todo = @ \ {i}]
  /\ UNCHANGED <<tmp, system, proc, bin, rest, bounds, spoilt>>

FillEntry(a) ==
  LET i == op[a].item  c == op[a].arch[i]  last == op[a].todo = {} IN
  /\ At(a, "xfill")
  /\ IF op[a].fd = "live"
     THEN \E x \in (IF c = Torn THEN {Torn} ELSE Written(file[i], c)) : file' = [file EXCEPT ![i] = x]
     ELSE file' = file
  /\ op' = [op EXCEPT ![a].fd = "none", ![a].at = IF last THEN "load" ELSE "extract",
                      ![a].todo = IF last THEN DOMAIN op[a].arch \ {Panel} ELSE @]
  /\ copied' = IF c = Torn THEN copied \cup {i} ELSE copied
  /\ UNCHANGED <<tmp, system, proc, bin, latest, archive, bounds, spoilt>>

\* Each tunnel is loaded back and installed, or counted as failed; the bot is
\* re-installed last, the panel is not.
LoadNext(a) ==
  /\ At(a, "load") /\ op[a].todo # {}
  /\ \E i \in op[a].todo :
       /\ i = Bot => op[a].todo = {Bot}
       /\ op' = [op EXCEPT ![a].item = i, ![a].todo = @ \ {i},
                   ![a].cfg = IF i = Bot THEN NoFile ELSE file[i],
                   ![a].at = IF i = Bot THEN "unit" ELSE IF file[i] \in Contents THEN "open" ELSE "load"]
  /\ UNCHANGED <<disk, system, proc, bin, rest, bounds, spoilt>>

Restored(a) ==
  /\ At(a, "load") /\ op[a].todo = {}
  /\ op' = Ended(a, "ok")
  /\ UNCHANGED <<disk, system, proc, bin, rest, bounds, spoilt>>

-----------------------------------------------------------------------------
(* Check and Update                                                          *)

CheckLatest(a) ==
  /\ At(a, "check")
  /\ op' = IF latest > op[a].ver
           THEN [op EXCEPT ![a].ver = latest, ![a].at = "download"] ELSE Ended(a, "current")
  /\ UNCHANGED <<disk, system, proc, bin, rest, bounds, spoilt>>

\* The download is of whatever the newest release is by now; it may be spoilt.
Download(a, spoil) ==
  /\ At(a, "download") /\ (spoil => faults < MaxFaults)
  /\ faults' = IF spoil THEN faults + 1 ELSE faults
  /\ op' = [op EXCEPT ![a].got = [ver |-> latest, whole |-> ~spoil], ![a].at = "verify"]
  /\ UNCHANGED <<disk, system, proc, bin, rest, started, spoilt>>

\* A mismatch is installed all the same.
SlipVerify(a) ==
  /\ At(a, "verify")
  /\ op' \in {Advance(a, "trust"), Advance(a, "replace")}
  /\ UNCHANGED <<disk, system, proc, bin, rest, bounds, spoilt>>

\* Without a checksum to be had, the download is installed unverified.
Verify(a) ==
  /\ At(a, "verify")
  /\ op' \in {Advance(a, "trust"),
              IF op[a].got = [ver |-> latest, whole |-> TRUE]
              THEN Advance(a, "replace") ELSE Ended(a, "refused")}
  /\ UNCHANGED <<disk, system, proc, bin, rest, bounds, spoilt>>

ReplaceBinary(a) ==
  /\ a \in Busy /\ op[a].at \in {"replace", "trust"}
  /\ bin' = op[a].got /\ op' = Ended(a, "ok")
  /\ UNCHANGED <<disk, system, proc, rest, bounds, spoilt>>

-----------------------------------------------------------------------------
(* What goes wrong, and what goes on by itself                               *)

Fault == faults < MaxFaults /\ faults' = faults + 1

\* The call an operation is at fails.  Installs, saves and updates give up, a
\* restore goes on with its next tunnel but not past a bad entry, removals and an
\* uninstall pass over it, and a backup leaves the file out.
CallFails(a) ==
  LET o == op[a]  Passed(p) == op' = [p EXCEPT ![a].sound = FALSE] IN
  /\ Fault /\ a \in Busy
  /\ \/ /\ o.at \in {"open", "fill", "tmp", "tmpfill", "rename", "unit", "enable", "restart"}
        /\ op' = Failed(a)
     \/ /\ o.at \in {"extract", "xfill", "check", "download", "replace", "trust"}
        /\ op' = Ended(a, "failed")
     \/ o.at = "stop" /\ Passed(Advance(a, "disable"))
     \/ o.at = "disable" /\ Passed(Advance(a, "rmunit"))
     \/ o.at = "rmunit" /\ Passed(UnitRemoved(a, "ok"))
     \/ o.at \in {"rmconf", "nudge"} /\ Passed(Removed(a, "ok"))
     \/ o.at = "rmbin" /\ Passed(Ended(a, "ok"))
     \/ o.at = "read" /\ \E i \in FirstOf(o.todo) : Passed([op EXCEPT ![a].todo = @ \ {i}])
  /\ spoilt' = spoilt \cup Cut({a}) \cup (IF o.at \in {"stop", "disable", "rmunit", "rmconf"} THEN {o.item} ELSE {})
  /\ UNCHANGED <<disk, system, proc, bin, rest, started>>

\* RemoveAll removes what it can; the rest stays and the uninstall goes on.
PurgeFails(a) ==
  /\ Fault /\ At(a, "purge")
  /\ \E S \in SUBSET Items :
       /\ file' = [i \in Items |-> IF i \in S THEN NoFile ELSE file[i]]
       /\ tmp' = [d \in Daemons |-> IF d \in S THEN NoFile ELSE tmp[d]]
       /\ op' = Unlinked([Advance(a, "rmbin") EXCEPT ![a].sound = FALSE], S)
  /\ UNCHANGED <<system, proc, bin, rest, started, spoilt>>

\* A menu is closed, a client goes away, the process that serves them is killed.
CutShort(a) ==
  /\ Fault /\ a \in Busy
  /\ op' = Killed(op, {a}) /\ spoilt' = spoilt \cup Cut({a})
  /\ UNCHANGED <<disk, system, proc, bin, rest, started>>

Crash(i) ==
  /\ Fault /\ proc[i].run = "up"
  /\ SetProc(i, Start(i), op)
  /\ UNCHANGED <<disk, system, bin, rest, started>>

Reboot ==
  /\ Fault
  /\ proc' = [i \in Items |-> IF i \in enabled \cap unit THEN Start(i) ELSE Off]
  /\ op' = Killed(op, Busy) /\ spoilt' = spoilt \cup Cut(Busy)
  /\ UNCHANGED <<disk, system, bin, rest, started>>

\* Restart=always.
Retry(i) ==
  /\ proc[i].run = "failing" /\ Start(i).run = "up"
  /\ proc' = [proc EXCEPT ![i] = Start(i)]
  /\ UNCHANGED <<disk, system, bin, rest, op, bounds, spoilt>>

\* A release that comes while nobody updates is as good as one that comes while
\* the next update begins.  An update that has looked up the version and not
\* yet downloaded the binary will install another one than it reports.
Release ==
  /\ \E a \in Busy : op[a].kind = "update"
  /\ latest < MaxVersion /\ latest' = latest + 1
  /\ op' = [a \in Actors |-> IF At(a, "download") THEN [op[a] EXCEPT !.sound = FALSE] ELSE op[a]]
  /\ UNCHANGED <<disk, system, proc, bin, archive, copied, bounds, spoilt>>

-----------------------------------------------------------------------------
(* The specification                                                         *)

\* The host has some of the items, installed and running, and the operator has
\* a backup that says something else of all of them.
Init ==
  /\ \E S \in {{}, {Panel}, Items} :
       /\ file = [i \in Items |-> IF i \in S THEN Default ELSE NoFile]
       /\ unit = S /\ enabled = S
       /\ proc = [i \in Items |-> IF i \in S THEN Up(Default, 1) ELSE Off]
  /\ tmp = [d \in Daemons |-> NoFile]
  /\ bin = [ver |-> 1, whole |-> TRUE] /\ latest = 1
  /\ \E c \in Contents \ {Default} : archive = [i \in Items |-> c]
  /\ op = [a \in Actors |-> Idle]
  /\ started = 0 /\ faults = 0 /\ spoilt = {} /\ copied = {}

Starts(a) ==
  \/ \E n \in Names, c \in Contents : CreateTunnel(a, n, c)
  \/ \E d \in Daemons, c \in Contents : SetUp(a, d, c)
  \/ \E c \in Contents : SetThresholds(a, c)
  \/ \E n \in Names : RemoveTunnel(a, n)
  \/ \E d \in Daemons : DisableDaemon(a, d)
  \/ Uninstall(a)
  \/ \E d \in Daemons \cup {"menu"} : Backup(a, d) \/ Restore(a, d) \/ Update(a, d)
  \/ \E verb \in {"start", "stop", "restart"}, i \in Items : Control(a, verb, i)

Step(a) ==
  \/ OpenConfig(a) \/ FillConfig(a) \/ OpenTmp(a) \/ FillTmp(a) \/ RenameTmp(a)
  \/ WriteUnit(a) \/ EnableUnit(a) \/ RestartUnit(a) \/ Nudge(a)
  \/ StopUnit(a) \/ DisableUnit(a) \/ RemoveUnit(a) \/ RemoveConf(a)
  \/ PickNext(a) \/ SaveFirst(a) \/ Answer(a) \/ Purge(a) \/ RemoveBinary(a)
  \/ ReadEntry(a) \/ SaveArchive(a) \/ OpenEntry(a) \/ FillEntry(a)
  \/ LoadNext(a) \/ Restored(a)
  \/ CheckLatest(a) \/ (\E spoil \in BOOLEAN : Download(a, spoil)) \/ Verify(a) \/ ReplaceBinary(a)
  \/ CallFails(a) \/ PurgeFails(a) \/ CutShort(a)

Next ==
  \/ \E a \in Actors : Starts(a) \/ Step(a)
  \/ \E i \in Items : Crash(i) \/ Retry(i)
  \/ Reboot \/ Release

Spec == Init /\ [][Next]_vars

-----------------------------------------------------------------------------
(* Properties                                                                *)

\* The variables keep their types.
TypeOK ==
  /\ file \in [Items -> OnDisk] /\ tmp \in [Daemons -> OnDisk]
  /\ unit \subseteq Items /\ enabled \subseteq Items
  /\ proc \in [Items -> {Off, Failing} \cup {Up(c, v) : c \in Contents, v \in 1 .. MaxVersion}]
  /\ bin \in Binaries /\ latest \in 1 .. MaxVersion /\ archive \in Backups
  /\ started \in 0 .. MaxOps /\ faults \in 0 .. MaxFaults
  /\ spoilt \subseteq Items \cup {"binary"} /\ copied \subseteq Items

Runs(i, c) ==
  /\ i \in unit \cap enabled /\ file[i] = c
  /\ proc[i].run # "off" /\ (proc[i].run = "up" => proc[i].cfg = c)
Gone(i) == i \notin unit \cup enabled /\ proc[i] = Off

Promise(o) ==
  CASE o.kind \in {"create", "setup"} -> Runs(o.item, o.cfg)
    [] o.kind = "thresholds" -> file[Bot] = o.cfg /\ (proc[Bot].run = "up" /\ Bot \in unit => proc[Bot].cfg = o.cfg)
    [] o.kind = "remove"     -> Gone(o.item) /\ file[o.item] = NoFile
    [] o.kind = "disable"    -> Gone(o.item)
    [] o.kind = "uninstall"  -> /\ \A i \in Items : file[i] = NoFile /\ (Gone(i) \/ i \in spoilt)
                                /\ bin = NoBinary
    [] o.kind = "backup"     -> archive = [i \in {j \in Items : file[j] # NoFile} |-> file[i]]
    [] o.kind = "restore"    -> /\ \A n \in o.done \cap Names : Runs(n, o.arch[n])
                                /\ \A d \in DOMAIN o.arch \cap Daemons : file[d] = o.arch[d]
    [] o.kind = "update"     -> bin.ver = o.ver /\ (bin.whole \/ o.at = "trust")

\* What an operation reports as done is done, however many others were at work
\* on other things and whatever state it began in: the tunnel or daemon it
\* created runs from what it was given and will at boot, what it removed is
\* gone, a backup is what the directory holds, every tunnel a restore counts
\* runs from the archive, an uninstalled host is bare, an update has installed
\* the version it names.  Where that is not so in the code, it is excepted:
\* operations on the same thing at the same time, a tunnel that is created
\* after an uninstall has listed them among these; failures that a removal, an
\* uninstall or a backup passes over; a release between the version an update
\* looks up and its download; a download without a checksum, which may be damaged.
ReportsAreTrue ==
  [][\A a \in Actors :
       /\ op[a].kind # "none" /\ op'[a].kind = "none" /\ op'[a].res = "ok"
       /\ op[a].sound /\ op'[a].sound
       => \E o \in {op[a]} : Promise(o)']_vars

\* A settings file is whole at every moment but while a restore writes over it:
\* a crash or a failure during a save leaves the old one or the new one
\* (settings.go:127).  Two saves at once, a restore cut short and one from a copy
\* taken at such a moment can tear it.
SettingsWhole ==
  \A d \in Daemons : file[d] = Torn =>
    \/ d \in spoilt \cup copied
    \/ \E a \in Busy : op[a].at = "xfill" /\ op[a].item = d

\* A unit or a process belongs to a tunnel that is listed, wherever the
\* operations on it stopped: the config is the first thing written and the last
\* removed, so the operator can always find the tunnel and remove it.  Two
\* operations on it at once, or a stop that failed and was passed over, void it.
NoOrphans ==
  \A n \in Names : n \in unit \/ proc[n].run # "off" => n \in List \cup spoilt

\* The installed binary is replaced by a newer one only, and by a damaged one
\* only when there was no checksum to compare it with; no update touches what
\* runs.  Two updates at once can go back to the older release.
BinaryAdvances ==
  [][bin' # bin /\ bin' # NoBinary =>
       /\ bin'.ver >= bin.ver \/ "binary" \in spoilt
       /\ bin'.whole \/ \E a \in Busy : op[a].at = "trust"
       /\ proc' = proc]_vars
=============================================================================
