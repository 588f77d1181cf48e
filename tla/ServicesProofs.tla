---------------------------- MODULE ServicesProofs ----------------------------
(* The operations on a host leave no orphans and no torn settings, whatever    *)
(* the number of menus and requests, of operations and of faults.              *)
EXTENDS Services, Versions, TLAPS

-----------------------------------------------------------------------------
(* The inductive invariant                                                     *)

\* What an operation's fields may be.
Kinds == {"none", "create", "setup", "thresholds", "remove", "disable", "uninstall",
          "backup", "restore", "update"}
Calls == {"end", "open", "fill", "tmp", "tmpfill", "rename", "unit", "enable", "restart", "nudge",
          "stop", "disable", "rmunit", "rmconf", "ask", "confirm", "pick", "purge", "rmbin",
          "read", "extract", "xfill", "load", "check", "download", "verify", "replace", "trust"}
Places == {"none", "live", "tmp", "gone"}
Results == {"none", "ok", "failed", "cancelled", "current", "refused", "killed"}
Releases == 0 .. MaxVersion
Ops == [kind : Kinds, at : Calls, item : Items, cfg : OnDisk, todo : SUBSET Items,
        done : SUBSET Items, arch : Backups, fd : Places, ver : Releases, got : Binaries,
        by : Daemons \cup {"menu"}, sound : BOOLEAN, res : Results]

\* Which operation makes the next call, and on what.
Placed(o) ==
  /\ o.at \in {"open", "fill"} => o.kind \in {"create", "restore"} /\ o.item \in Names /\ o.cfg \in Contents
  /\ o.at \in {"tmp", "tmpfill", "rename"} =>
       o.kind \in {"setup", "thresholds"} /\ o.item \in Daemons /\ o.cfg \in Contents
  /\ o.at \in {"unit", "enable", "restart"} => o.kind \in {"create", "setup", "restore"}
  /\ o.at = "nudge" => o.kind = "thresholds" /\ o.item = Bot
  /\ o.at \in {"stop", "disable", "rmunit", "rmconf"} => o.kind \in {"remove", "disable", "uninstall"}
  /\ o.at = "rmconf" => o.item \in Names
  /\ o.at \in {"ask", "confirm", "pick", "purge", "rmbin"} => o.kind = "uninstall"
  /\ o.at = "purge" => o.todo = {}
  /\ o.at = "read" => o.kind = "backup"
  /\ o.at \in {"extract", "xfill", "load"} => o.kind = "restore"
  /\ o.at \in {"check", "download", "verify", "replace", "trust"} => o.kind = "update"
  /\ o.kind = "restore" => /\ o.todo \subseteq DOMAIN o.arch
                           /\ o.at # "extract" => o.item \in DOMAIN o.arch
                           /\ o.at \notin {"extract", "xfill"} => Panel \notin o.todo
  /\ o.kind = "thresholds" => o.item = Bot
  /\ o.kind = "none" => o.at = "end"
Operations == op \in [Actors -> Ops] /\ \A a \in Actors : Placed(op[a])

\* What two operations at once are changing is spoilt.
Shared ==
  \A a, b \in Busy : a # b /\ "backup" \notin {op[a].kind, op[b].kind}
                       => Clash(op[a], op[b]) \subseteq spoilt

Clear(n) == n \notin unit /\ proc[n].run = "off"
Removing(o, n) == o.item = n /\ o.at \in {"stop", "disable", "rmunit", "rmconf"}

\* What an operation has done to a thing that is not spoilt is still so.
Found(o) ==
  /\ o.at = "xfill" /\ o.item \notin spoilt => o.fd = "live" /\ file[o.item] = Torn
  /\ o.at = "tmpfill" /\ o.item \notin spoilt => o.fd = "tmp" /\ tmp[o.item] = Torn
  /\ o.at = "rename" /\ o.item \notin spoilt => tmp[o.item] = o.cfg
  /\ o.at = "unit" /\ o.item \in Names \ spoilt => file[o.item] # NoFile
  /\ o.at \in {"disable", "rmunit", "rmconf"} /\ o.item \notin spoilt => proc[o.item].run = "off"
  /\ o.at = "rmconf" /\ o.item \notin spoilt => o.item \notin unit
  /\ o.kind = "uninstall" => \A n \in Names \ spoilt : n \in o.todo \/ Clear(n) \/ Removing(o, n)
AllFound == \A a \in Actors : Found(op[a])

\* A download is a release, as is the binary.
Released(o) ==
  /\ o.got.whole => o.got.ver > 0
  /\ o.at \in {"verify", "replace", "trust"} =>
        o.got.ver <= latest /\ ("binary" \in spoilt \/ o.got.ver >= bin.ver)
  /\ o.at = "replace" => o.got.whole
BinaryIsReleased ==
  /\ bin.ver <= latest /\ (bin.whole => bin.ver > 0)
  /\ \A a \in Actors : Released(op[a])

Orphan(n) == n \notin spoilt /\ file[n] = NoFile /\ ~Clear(n)
Whole(d) ==
  file[d] = Torn => \/ d \in spoilt \cup copied
                    \/ \E a \in Actors : op[a].at = "xfill" /\ op[a].item = d

IInv == /\ TypeOK /\ Operations /\ Shared /\ AllFound /\ BinaryIsReleased
        /\ (\A n \in Names : ~Orphan(n)) /\ (\A d \in Daemons : Whole(d))

-----------------------------------------------------------------------------
(* Items, binaries and operations                                              *)

\* A tunnel is not called as a daemon is.
LEMMA ItemFacts ==
  /\ Names \subseteq Items /\ Daemons \subseteq Items /\ Names \cap Daemons = {}
  /\ Panel \in Daemons /\ Bot \in Daemons /\ Panel # Bot
BY ServicesAssumption DEF Items, Daemons, Panel, Bot

\* Nothing is a file's content and at the same time says that there is none.
LEMMA ContentFacts ==
  /\ Contents \subseteq OnDisk /\ Torn \in OnDisk /\ NoFile \in OnDisk
  /\ NoFile \notin Contents /\ Torn \notin Contents /\ NoFile # Torn
BY ServicesAssumption DEF OnDisk

\* A menu or request that is doing nothing.
Resting(p) == /\ p \in Ops /\ p.kind = "none" /\ p.at = "end" /\ p.got = NoBinary

\* A backup of nothing is one.
LEMMA EmptyBackup == <<>> \in Backups
<1>1. <<>> \in [{} -> Contents \cup {Torn}]
  OBVIOUS
<1>2. [{} -> Contents \cup {Torn}] \in {[S -> Contents \cup {Torn}] : S \in SUBSET Items}
  OBVIOUS
<1> QED BY <1>1, <1>2 DEF Backups

\* That there is no binary is one of the things it can be.
LEMMA NoBinaryType == NoBinary \in Binaries /\ NoBinary.ver = 0 /\ ~NoBinary.whole
BY ServicesAssumption DEF NoBinary, Binaries

\* An operation that has done nothing yet has the type of one.
LEMMA Blank ==
  ASSUME NEW e \in Backups, NEW v \in Releases, NEW b \in Binaries
  PROVE  [kind |-> "none", at |-> "end", item |-> Panel, cfg |-> NoFile, todo |-> {},
          done |-> {}, arch |-> e, fd |-> "none", ver |-> v, got |-> b,
          by |-> "menu", sound |-> TRUE, res |-> "none"] \in Ops
BY ItemFacts, ContentFacts DEF Ops, Kinds, Calls, Places, Results

\* Whatever it reports and however sound it was, what has ended rests.
LEMMA IdleRests == \A r \in Results, s \in BOOLEAN :
  Resting([Idle EXCEPT !.res = r]) /\ Resting([[Idle EXCEPT !.res = r] EXCEPT !.sound = s])
<1>1. 0 \in Releases
  BY ServicesAssumption DEF Releases
<1>2. Idle \in Ops
  BY <1>1, Blank, EmptyBackup, NoBinaryType DEF Idle
<1>3. Idle.kind = "none" /\ Idle.at = "end" /\ Idle.got = NoBinary
  BY DEF Idle
<1> QED BY <1>2, <1>3 DEF Ops, Resting

\* An operation that rests meets every condition on those that do not.
LEMMA RestingIsPlaced == \A p : Resting(p) => Placed(p) /\ Found(p) /\ Released(p)
BY NoBinaryType DEF Resting, Placed, Found, Released

-----------------------------------------------------------------------------
(* What a step leaves alone                                                    *)

\* Only what an operation has open, and whether it is sound, is changed by others.
Same(p, o) == /\ p.kind = o.kind /\ p.at = o.at /\ p.item = o.item /\ p.cfg = o.cfg
              /\ p.todo = o.todo /\ p.arch = o.arch /\ p.got = o.got

\* An operation that goes on, or has been ended, with what it had open.
Bystander(b) ==
  /\ op'[b] \in Ops
  /\ \/ /\ Same(op'[b], op[b])
        /\ op[b].at \in {"tmpfill", "xfill"} => op'[b].fd = op[b].fd \/ op[b].item \in spoilt'
     \/ Resting(op'[b]) /\ (op[b].at = "xfill" => op[b].item \in spoilt')

\* Nothing of an item has been made or undone.
Kept(i) == /\ file'[i] = file[i] /\ (i \in Daemons => tmp'[i] = tmp[i])
           /\ (proc[i].run = "off" => proc'[i].run = "off") /\ (i \in unit' => i \in unit)

Acting == {"open", "fill", "tmp", "tmpfill", "rename", "unit", "enable", "restart", "nudge",
           "stop", "disable", "rmunit", "rmconf", "xfill"}

\* What an operation changes is among what it touches.
LEMMA Touched ==
  ASSUME NEW o \in Ops, Placed(o)
  PROVE  /\ o.at \in Acting => o.item \in Touches(o) /\ o.kind \notin {"none", "backup"}
         /\ o.kind = "uninstall" => Items \subseteq Touches(o)
<1>1. o.kind = "uninstall" => Items \subseteq Touches(o)
  BY DEF Touches
<1>2. o.item \in Items
  BY DEF Ops
<1>3. ASSUME o.at \in Acting PROVE o.item \in Touches(o) /\ o.kind \notin {"none", "backup"}
  <2>1. o.kind \in {"create", "setup", "thresholds", "remove", "disable", "uninstall", "restore"}
    BY <1>3 DEF Placed, Acting
  <2>2. CASE o.kind = "restore"
    BY <1>3, <2>2 DEF Placed, Acting, Touches
  <2>3. CASE o.kind = "uninstall"
    BY <1>1, <1>2, <2>3
  <2>4. CASE o.kind \in {"create", "setup", "thresholds", "remove", "disable"}
    BY <2>4 DEF Touches
  <2> QED BY <2>1, <2>2, <2>3, <2>4
<1> QED BY <1>1, <1>3

\* What an operation touches does not depend on what others change of it.
LEMMA SameTouches == \A p, o : Same(p, o) => Touches(p) = Touches(o)
BY DEF Same, Touches

\* What an operation has found done is so as long as nobody undoes it.
LEMMA BystanderKeeps ==
  ASSUME NEW b \in Actors, op[b] \in Ops, Placed(op[b]), Found(op[b]), Bystander(b),
         spoilt \subseteq spoilt',
         op[b].kind \in {"none", "backup"}
           \/ \A i \in Items \cap Touches(op[b]) : Kept(i) \/ i \in spoilt'
  PROVE  Placed(op'[b]) /\ Found(op[b])'
<1>1. CASE Resting(op'[b])
  <2>1. Found(op[b])'
    BY <1>1 DEF Resting, Found
  <2> QED BY <1>1, <2>1, RestingIsPlaced
<1>2. CASE /\ Same(op'[b], op[b])
           /\ op[b].at \in {"tmpfill", "xfill"} => op'[b].fd = op[b].fd \/ op[b].item \in spoilt'
  <2> DEFINE o == op[b]
             p == op'[b]
  <2>1. Placed(p)
    BY <1>2 DEF Same, Placed
  <2>2. CASE op[b].kind \in {"none", "backup"}
    BY <1>2, <2>2 DEF Same, Placed, Found
  <2>3. CASE op[b].kind \notin {"none", "backup"}
    <3>1. o.item \in Items /\ p.item = o.item /\ p.at = o.at /\ p.kind = o.kind /\ p.todo = o.todo /\ p.cfg = o.cfg
      BY <1>2 DEF Same, Ops
    <3>2. o.at \in Acting => Kept(o.item) \/ o.item \in spoilt'
      BY <2>3, <3>1, Touched
    <3>3. o.at \in {"tmpfill", "rename"} => o.item \in Daemons
      BY DEF Placed
    <3>4. p.at = "xfill" /\ p.item \notin spoilt' => p.fd = "live" /\ file'[p.item] = Torn
      BY <1>2, <3>1, <3>2 DEF Found, Kept, Acting
    <3>5. p.at = "tmpfill" /\ p.item \notin spoilt' => p.fd = "tmp" /\ tmp'[p.item] = Torn
      BY <1>2, <3>1, <3>2, <3>3 DEF Found, Kept, Acting
    <3>6. p.at = "rename" /\ p.item \notin spoilt' => tmp'[p.item] = p.cfg
      BY <3>1, <3>2, <3>3 DEF Found, Kept, Acting
    <3>7. p.at = "unit" /\ p.item \in Names \ spoilt' => file'[p.item] # NoFile
      BY <3>1, <3>2 DEF Found, Kept, Acting
    <3>8. p.at \in {"disable", "rmunit", "rmconf"} /\ p.item \notin spoilt' => proc'[p.item].run = "off"
      BY <3>1, <3>2 DEF Found, Kept, Acting
    <3>9. p.at = "rmconf" /\ p.item \notin spoilt' => p.item \notin unit'
      BY <3>1, <3>2 DEF Found, Kept, Acting
    <3>10. ASSUME p.kind = "uninstall", NEW n \in Names \ spoilt'
           PROVE  n \in p.todo \/ Clear(n)' \/ Removing(p, n)
      <4>1. n \in o.todo \/ Clear(n) \/ Removing(o, n)
        BY <3>1, <3>10 DEF Found
      <4>2. Kept(n)
        BY <2>3, <3>1, <3>10, Touched, ItemFacts
      <4> QED BY <3>1, <4>1, <4>2 DEF Removing, Clear, Kept
    <3> QED BY <2>1, <3>4, <3>5, <3>6, <3>7, <3>8, <3>9, <3>10 DEF Found, Removing
  <2> QED BY <2>2, <2>3, <2>1
<1> QED BY <1>1, <1>2 DEF Bystander

Safe == /\ Operations /\ Shared /\ AllFound
        /\ (\A n \in Names : ~Orphan(n)) /\ (\A d \in Daemons : Whole(d))

\* An operation goes on with what it touches, or is over.
GoesOn(b) ==
  \/ Resting(op'[b])
  \/ op'[b].kind = op[b].kind /\ Touches(op'[b]) = Touches(op[b])

\* Where a file is being written over, it still is, or it is known to be torn.
StillFills(a, S) ==
  op[a].at = "xfill" => \/ op[a].item \in spoilt' \cup S
                        \/ op'[a].at = "xfill" /\ op'[a].item = op[a].item

\* Who looks on goes on with what it touches.
LEMMA BystanderGoesOn == \A b \in Actors : Bystander(b) => GoesOn(b)
BY SameTouches DEF Bystander, GoesOn, Same

\* What two operations share stays known as long as both go on with it.
LEMMA SharedKept ==
  ASSUME Shared, spoilt \subseteq spoilt', \A b \in Actors : GoesOn(b)
  PROVE  Shared'
<1> SUFFICES ASSUME NEW a \in Busy', NEW b \in Busy', a # b, "backup" \notin {op'[a].kind, op'[b].kind}
             PROVE  Clash(op'[a], op'[b]) \subseteq spoilt'
  BY DEF Shared
<1>1. a \in Actors /\ b \in Actors /\ ~Resting(op'[a]) /\ ~Resting(op'[b])
  BY DEF Busy, Resting
<1>2. /\ op'[a].kind = op[a].kind /\ Touches(op'[a]) = Touches(op[a])
      /\ op'[b].kind = op[b].kind /\ Touches(op'[b]) = Touches(op[b])
  BY <1>1 DEF GoesOn
<1>3. a \in Busy /\ b \in Busy
  BY <1>1, <1>2 DEF Busy
<1>4. Clash(op[a], op[b]) \subseteq spoilt
  BY <1>2, <1>3 DEF Shared
<1> QED BY <1>2, <1>4 DEF Clash

\* A step that changes the items S and is taken by A.
LEMMA Keeps ==
  ASSUME Operations, AllFound, \A n \in Names : ~Orphan(n), \A d \in Daemons : Whole(d),
         NEW A \in SUBSET Actors, NEW S \in SUBSET Items,
         op' \in [Actors -> Ops], spoilt \subseteq spoilt', copied \subseteq copied',
         \A i \in Items \ S : Kept(i),
         \A b \in Actors \ A : /\ Bystander(b)
                               /\ op[b].kind \in {"none", "backup"} \/ S \cap Touches(op[b]) \subseteq spoilt',
         \A a \in A : Placed(op'[a]) /\ Found(op[a])' /\ StillFills(a, S),
         \A n \in S \cap Names : ~Orphan(n)',
         \A d \in S \cap Daemons : Whole(d)'
  PROVE  Operations' /\ AllFound' /\ (\A n \in Names : ~Orphan(n))' /\ (\A d \in Daemons : Whole(d))'
<1>1. ASSUME NEW b \in Actors PROVE Placed(op'[b]) /\ Found(op[b])'
  <2>1. CASE b \in A
    BY <2>1
  <2>2. CASE b \notin A
    <3>1. Bystander(b) /\ op[b] \in Ops /\ Placed(op[b]) /\ Found(op[b])
      BY <2>2 DEF Operations, AllFound
    <3>2. op[b].kind \in {"none", "backup"} \/ \A i \in Items \cap Touches(op[b]) : Kept(i) \/ i \in spoilt'
      BY <2>2
    <3> QED BY <3>1, <3>2, BystanderKeeps
  <2> QED BY <2>1, <2>2
<1>2. ASSUME NEW n \in Names PROVE ~Orphan(n)'
  BY ItemFacts DEF Orphan, Clear, Kept
<1>3. ASSUME NEW d \in Daemons PROVE Whole(d)'
  <2>1. CASE d \in S
    BY <2>1
  <2>2. CASE d \notin S
    <3>1. file'[d] = file[d]
      BY <2>2, ItemFacts DEF Kept
    <3>2. ASSUME NEW a \in Actors, op[a].at = "xfill", op[a].item = d
          PROVE  d \in spoilt' \/ (op'[a].at = "xfill" /\ op'[a].item = d)
      <4>1. CASE a \in A
        BY <2>2, <3>2, <4>1 DEF StillFills
      <4>2. CASE a \notin A
        BY <3>2, <4>2 DEF Bystander, Same
      <4> QED BY <4>1, <4>2
    <3> QED BY <3>1, <3>2 DEF Whole
  <2> QED BY <2>1, <2>2
<1> QED BY <1>1, <1>2, <1>3 DEF Operations, AllFound

\* A step of one menu or request: what it changes is spoilt for the others.
LEMMA ActorKeeps ==
  ASSUME Safe, NEW a \in Actors, NEW S \in SUBSET Items,
         op' \in [Actors -> Ops], spoilt \subseteq spoilt', copied \subseteq copied',
         \A i \in Items \ S : Kept(i),
         \A b \in Actors \ {a} : Bystander(b),
         S # {} => op[a].kind \notin {"none", "backup"} /\ S \subseteq Touches(op[a]),
         Placed(op'[a]), Found(op[a])', StillFills(a, S), GoesOn(a),
         \A n \in S \cap Names : ~Orphan(n)',
         \A d \in S \cap Daemons : Whole(d)'
  PROVE  Safe'
<1>1. ASSUME NEW b \in Actors \ {a}, op[b].kind \notin {"none", "backup"}
      PROVE  S \cap Touches(op[b]) \subseteq spoilt'
  <2>1. CASE S = {}
    BY <2>1
  <2>2. CASE S # {}
    <3>1. a \in Busy /\ b \in Busy /\ "backup" \notin {op[a].kind, op[b].kind}
      BY <1>1, <2>2 DEF Busy
    <3>2. Clash(op[a], op[b]) \subseteq spoilt
      BY <3>1 DEF Safe, Shared
    <3> QED BY <2>2, <3>2 DEF Clash
  <2> QED BY <2>1, <2>2
<1>2. \A b \in Actors : GoesOn(b)
  BY BystanderGoesOn
<1>3. Shared'
  BY <1>2, SharedKept DEF Safe
<1>4. Operations' /\ AllFound' /\ (\A n \in Names : ~Orphan(n))' /\ (\A d \in Daemons : Whole(d))'
  <2> DEFINE A == {a}
  <2>1. \A b \in Actors \ A : /\ Bystander(b)
                              /\ op[b].kind \in {"none", "backup"} \/ S \cap Touches(op[b]) \subseteq spoilt'
    BY <1>1
  <2>2. \A x \in A : Placed(op'[x]) /\ Found(op[x])' /\ StillFills(x, S)
    OBVIOUS
  <2>3. A \in SUBSET Actors
    OBVIOUS
  <2> HIDE DEF A
  <2> QED BY <2>1, <2>2, <2>3, Keeps DEF Safe
<1> QED BY <1>3, <1>4 DEF Safe

-----------------------------------------------------------------------------
(* How operations go on                                                        *)

\* Only a has moved.
Only(a, o) == o \in [Actors -> Ops] /\ \A b \in Actors \ {a} : o[b] = op[b]

\* When one operation moves, all others look on.
LEMMA OnlyStands ==
  ASSUME NEW a \in Actors, Only(a, op')
  PROVE  op' \in [Actors -> Ops] /\ \A b \in Actors \ {a} : Bystander(b)
BY DEF Only, Bystander, Same

\* Advance moves one operation to its next call.
LEMMA AdvanceIs ==
  ASSUME Operations, NEW a \in Actors, NEW s \in Calls
  PROVE  Only(a, Advance(a, s)) /\ Advance(a, s)[a] = [op[a] EXCEPT !.at = s]
BY DEF Operations, Only, Advance, Ops

\* Ended ends one operation.
LEMMA EndedIs ==
  ASSUME Operations, NEW a \in Actors, NEW r \in Results
  PROVE  Only(a, Ended(a, r)) /\ Resting(Ended(a, r)[a])
<1>1. Resting([Idle EXCEPT !.res = r])
  BY IdleRests
<1> QED BY <1>1 DEF Operations, Only, Ended, Resting

\* Failed ends one operation, or sends a restore on to its next tunnel.
LEMMA FailedIs ==
  ASSUME Operations, NEW a \in Actors
  PROVE  /\ Only(a, Failed(a))
         /\ IF op[a].kind = "restore" THEN Failed(a)[a] = [op[a] EXCEPT !.at = "load"] ELSE Resting(Failed(a)[a])
<1>1. "load" \in Calls /\ "failed" \in Results
  BY DEF Calls, Results
<1> QED BY <1>1, AdvanceIs, EndedIs DEF Failed

\* Installed ends one operation, or has a restore count the tunnel.
LEMMA InstalledIs ==
  ASSUME Operations, NEW a \in Actors
  PROVE  /\ Only(a, Installed(a))
         /\ IF op[a].kind = "restore"
              THEN Installed(a)[a] = [op[a] EXCEPT !.at = "load", !.done = @ \cup {op[a].item}]
              ELSE Resting(Installed(a)[a])
<1>1. "load" \in Calls /\ "ok" \in Results
  BY DEF Calls, Results
<1>2. CASE op[a].kind = "restore"
  <2> DEFINE p == [op[a] EXCEPT !.at = "load", !.done = @ \cup {op[a].item}]
  <2>1. op[a] \in Ops /\ op \in [Actors -> Ops]
    BY DEF Operations
  <2>2. op[a].done \cup {op[a].item} \in SUBSET Items
    BY <2>1 DEF Ops
  <2>3. p \in Ops
    BY <1>1, <2>1, <2>2 DEF Ops
  <2>4. Installed(a) = [op EXCEPT ![a] = p]
    BY <1>2, <2>1 DEF Installed
  <2> HIDE DEF p
  <2>5. Only(a, Installed(a)) /\ Installed(a)[a] = p
    BY <2>1, <2>3, <2>4 DEF Only
  <2> QED BY <1>2, <2>5 DEF p
<1>3. CASE op[a].kind # "restore"
  BY <1>1, <1>3, EndedIs DEF Installed
<1> QED BY <1>2, <1>3

\* Removed ends one operation, or has an uninstall pick its next item.
LEMMA RemovedIs ==
  ASSUME Operations, NEW a \in Actors, NEW r \in Results
  PROVE  /\ Only(a, Removed(a, r))
         /\ IF op[a].kind = "uninstall" THEN Removed(a, r)[a] = [op[a] EXCEPT !.at = "pick"] ELSE Resting(Removed(a, r)[a])
<1>1. "pick" \in Calls
  BY DEF Calls
<1> QED BY <1>1, AdvanceIs, EndedIs DEF Removed

\* Without its unit, a tunnel still has its config; a daemon keeps its settings.
LEMMA UnitRemovedIs ==
  ASSUME Operations, NEW a \in Actors, NEW r \in Results
  PROVE  /\ Only(a, UnitRemoved(a, r))
         /\ IF op[a].item \in Names THEN UnitRemoved(a, r)[a] = [op[a] EXCEPT !.at = "rmconf"]
            ELSE IF op[a].kind = "uninstall" THEN UnitRemoved(a, r)[a] = [op[a] EXCEPT !.at = "pick"]
            ELSE Resting(UnitRemoved(a, r)[a])
<1>1. "rmconf" \in Calls
  BY DEF Calls
<1> QED BY <1>1, AdvanceIs, RemovedIs DEF UnitRemoved

\* Those whose process ends do nothing more, and what they were writing is torn.
LEMMA KilledFills ==
  ASSUME AllFound, NEW who \in SUBSET Busy, spoilt \cup Cut(who) \subseteq spoilt',
         NEW b \in who, op[b].at = "xfill"
  PROVE  op[b].item \in spoilt'
<1>1. CASE op[b].fd = "live"
  BY <1>1 DEF Cut
<1>2. CASE op[b].fd # "live"
  BY <1>2 DEF AllFound, Found, Busy
<1> QED BY <1>1, <1>2

\* Who is not killed looks on, and who is has left nothing but torn files.
LEMMA KilledIsBystander ==
  ASSUME AllFound, NEW who \in SUBSET Busy, spoilt \cup Cut(who) \subseteq spoilt',
         NEW b \in Actors, op'[b] \in Ops,
         IF b \in who THEN Resting(op'[b]) ELSE Same(op'[b], op[b]) /\ op'[b].fd = op[b].fd
  PROVE  Bystander(b)
BY KilledFills DEF Bystander

\* Killed ends these operations and no others.
LEMMA KilledAre ==
  ASSUME NEW o \in [Actors -> Ops], NEW who
  PROVE  /\ Killed(o, who) \in [Actors -> Ops]
         /\ \A b \in Actors : IF b \in who THEN Resting(Killed(o, who)[b]) ELSE Killed(o, who)[b] = o[b]
<1>1. "killed" \in Results
  BY DEF Results
<1>2. Resting([Idle EXCEPT !.res = "killed"]) /\ [Idle EXCEPT !.res = "killed"] \in Ops
  BY <1>1, IdleRests DEF Resting
<1> HIDE DEF Idle, Resting
<1> QED BY <1>2 DEF Killed

\* A step of one operation that ends those of a process too.
LEMMA KilledStands ==
  ASSUME Operations, AllFound, NEW a \in Actors, NEW who \in SUBSET Busy, NEW o, Only(a, o),
         op' = Killed(o, who), spoilt \cup Cut(who) \subseteq spoilt'
  PROVE  /\ op' \in [Actors -> Ops] /\ \A b \in Actors \ {a} : Bystander(b)
         /\ IF a \in who THEN Resting(op'[a]) ELSE op'[a] = o[a]
<1>1. o \in [Actors -> Ops]
  BY DEF Only
<1>2. /\ op' \in [Actors -> Ops]
      /\ \A b \in Actors : IF b \in who THEN Resting(op'[b]) ELSE op'[b] = o[b]
  BY <1>1, KilledAre
<1>3. ASSUME NEW b \in Actors \ {a} PROVE Bystander(b)
  <2>1. op'[b] \in Ops /\ IF b \in who THEN Resting(op'[b]) ELSE op'[b] = op[b]
    BY <1>2 DEF Only
  <2>2. IF b \in who THEN Resting(op'[b]) ELSE Same(op'[b], op[b]) /\ op'[b].fd = op[b].fd
    BY <2>1 DEF Same
  <2> QED BY <2>1, <2>2, KilledIsBystander
<1> QED BY <1>2, <1>3

\* Of those who have a file open that a removes, or whose temporary file it
\* renames, a shares it with them.
LEMMA OthersFile ==
  ASSUME Operations, Shared, NEW a \in Actors, NEW b \in Actors \ {a},
         op[a].kind \notin {"none", "backup"}, op[b].item \in Touches(op[a]),
         op[b].at \in {"tmpfill", "xfill"}
  PROVE  op[b].item \in spoilt
<1>1. op[b].item \in Touches(op[b]) /\ op[b].kind \notin {"none", "backup"}
  BY Touched DEF Operations, Acting
<1> QED BY <1>1 DEF Shared, Clash, Busy

\* Only where what it has open is now has changed.
LEMMA Refiled ==
  ASSUME NEW o \in Ops, NEW f \in Places
  PROVE  LET p == [o EXCEPT !.fd = f] IN p \in Ops /\ Same(p, o)
BY DEF Ops, Same

\* A step of one operation that removes files others may have open.
LEMMA UnlinkedStands ==
  ASSUME Operations, Shared, NEW a \in Actors, op[a].kind \notin {"none", "backup"},
         NEW S, S \subseteq Touches(op[a]), NEW o, Only(a, o),
         op' = Unlinked(o, S), spoilt \subseteq spoilt'
  PROVE  /\ op' \in [Actors -> Ops] /\ \A b \in Actors \ {a} : Bystander(b)
         /\ Same(op'[a], o[a])
<1>1. "gone" \in Places
  BY DEF Places
<1>2. \A b \in Actors : op'[b] = IF o[b].item \in S /\ o[b].fd # "none" THEN [o[b] EXCEPT !.fd = "gone"] ELSE o[b]
  BY DEF Unlinked
<1>3. ASSUME NEW b \in Actors
      PROVE  /\ op'[b] \in Ops /\ Same(op'[b], o[b])
             /\ o[b].item \notin S => op'[b].fd = o[b].fd
  <2>1. o[b] \in Ops
    BY DEF Only
  <2>2. CASE o[b].item \in S /\ o[b].fd # "none"
    BY <1>1, <1>2, <2>1, <2>2, Refiled
  <2>3. CASE ~(o[b].item \in S /\ o[b].fd # "none")
    BY <1>2, <2>1, <2>3 DEF Same
  <2> QED BY <2>2, <2>3
<1>4. op' \in [Actors -> Ops]
  BY <1>3 DEF Unlinked
<1>5. ASSUME NEW b \in Actors \ {a} PROVE Bystander(b)
  BY <1>3, OthersFile DEF Only, Bystander
<1> QED BY <1>3, <1>4, <1>5

\* A step of one operation that renames a temporary file others may have open.
LEMMA RenamedStands ==
  ASSUME Operations, Shared, NEW a \in Actors, op[a].kind \notin {"none", "backup"},
         NEW d \in Touches(op[a]), NEW o, Only(a, o),
         op' = Renamed(o, d), spoilt \subseteq spoilt'
  PROVE  /\ op' \in [Actors -> Ops] /\ \A b \in Actors \ {a} : Bystander(b)
         /\ Same(op'[a], o[a])
<1>1. "gone" \in Places /\ "live" \in Places
  BY DEF Places
<1>2. \A b \in Actors : op'[b] = IF o[b].item # d THEN o[b]
        ELSE [o[b] EXCEPT !.fd = CASE @ = "live" -> "gone" [] @ = "tmp" -> "live" [] OTHER -> @]
  BY DEF Renamed
<1>3. ASSUME NEW b \in Actors
      PROVE  /\ op'[b] \in Ops /\ Same(op'[b], o[b])
             /\ o[b].item # d => op'[b].fd = o[b].fd
  <2>1. o[b] \in Ops
    BY DEF Only
  <2>2. CASE o[b].item = d
    <3> DEFINE f == CASE o[b].fd = "live" -> "gone" [] o[b].fd = "tmp" -> "live" [] OTHER -> o[b].fd
    <3>1. f \in Places
      BY <2>1 DEF Places, Ops
    <3>2. op'[b] = [o[b] EXCEPT !.fd = f]
      BY <1>2, <2>2
    <3> HIDE DEF f
    <3> QED BY <2>1, <2>2, <3>1, <3>2, Refiled
  <2>3. CASE o[b].item # d
    BY <1>2, <2>1, <2>3 DEF Same
  <2> QED BY <2>2, <2>3
<1>4. op' \in [Actors -> Ops]
  BY <1>3 DEF Renamed
<1>5. ASSUME NEW b \in Actors \ {a} PROVE Bystander(b)
  BY <1>3, OthersFile DEF Only, Bystander
<1> QED BY <1>3, <1>4, <1>5

-----------------------------------------------------------------------------
(* The calls                                                                   *)

\* The invariant of one operation.
LEMMA Doing ==
  ASSUME Safe, NEW a \in Actors
  PROVE  op[a] \in Ops /\ op[a].item \in Items /\ Placed(op[a]) /\ Found(op[a])
BY DEF Safe, Operations, AllFound, Ops

\* The next call of the same operation.
LEMMA NextCall ==
  ASSUME NEW o \in Ops, NEW s \in Calls
  PROVE  LET p == [o EXCEPT !.at = s] IN
         /\ p \in Ops /\ p.at = s /\ p.kind = o.kind /\ p.item = o.item /\ p.cfg = o.cfg
         /\ p.todo = o.todo /\ p.arch = o.arch /\ p.got = o.got /\ p.fd = o.fd
BY DEF Ops

\* Where an operation is after Advance, and that only it has moved.
LEMMA Advances ==
  ASSUME Operations, NEW a \in Actors, NEW s \in Calls, op' = Advance(a, s)
  PROVE  /\ Only(a, op') /\ op'[a].at = s /\ op'[a].kind = op[a].kind /\ op'[a].item = op[a].item
         /\ op'[a].cfg = op[a].cfg /\ op'[a].todo = op[a].todo /\ op'[a].arch = op[a].arch
<1>1. Only(a, op') /\ op'[a] = [op[a] EXCEPT !.at = s] /\ op[a] \in Ops
  BY AdvanceIs DEF Operations
<1> QED BY <1>1, NextCall

\* What an operation touches depends on its kind, its item and its archive only.
LEMMA TouchesStay ==
  \A p, o : /\ p.kind = o.kind /\ (p.item = o.item \/ o.kind \in {"uninstall", "restore", "backup", "update"})
            /\ (p.arch = o.arch \/ o.kind # "restore")
            => Touches(p) = Touches(o)
BY DEF Touches

\* A step that changes nothing on disk and in systemd.
LEMMA QuietStep ==
  ASSUME Safe, NEW a \in Actors, Only(a, op'), UNCHANGED <<file, tmp, unit, proc>>,
         spoilt \subseteq spoilt', copied \subseteq copied',
         Placed(op'[a]), Found(op[a])', StillFills(a, {}), GoesOn(a)
  PROVE  Safe'
<1>1. op' \in [Actors -> Ops] /\ \A b \in Actors \ {a} : Bystander(b)
  BY OnlyStands
<1>2. \A i \in Items \ {} : Kept(i)
  BY DEF Kept
<1> QED BY <1>1, <1>2, ActorKeeps

\* A step that changes the item its operation is about.
LEMMA ItemStep ==
  ASSUME Safe, NEW a \in Actors, NEW i \in Items, i = op[a].item, op[a].at \in Acting,
         op' \in [Actors -> Ops], \A b \in Actors \ {a} : Bystander(b),
         spoilt \subseteq spoilt', copied \subseteq copied',
         \A j \in Items \ {i} : Kept(j),
         Placed(op'[a]), Found(op[a])', GoesOn(a),
         i \in Names => i \in spoilt' \/ file'[i] # NoFile \/ (i \notin unit' /\ proc'[i].run = "off"),
         i \in Daemons => \/ file'[i] # Torn \/ i \in spoilt' \cup copied'
                          \/ file'[i] = file[i] /\ op[a].at # "xfill"
                          \/ op'[a].at = "xfill" /\ op'[a].item = i
  PROVE  Safe'
<1>1. i \in Touches(op[a]) /\ op[a].kind \notin {"none", "backup"}
  BY Doing, Touched
<1>2. \A n \in {i} \cap Names : ~Orphan(n)'
  BY DEF Orphan, Clear
<1>3. ASSUME i \in Daemons PROVE Whole(i)'
  <2>1. CASE file'[i] = file[i] /\ op[a].at # "xfill"
    <3>1. ASSUME NEW b \in Actors, op[b].at = "xfill", op[b].item = i
          PROVE  i \in spoilt' \/ (op'[b].at = "xfill" /\ op'[b].item = i)
      BY <2>1, <3>1 DEF Bystander, Same
    <3>2. Whole(i)
      BY <1>3 DEF Safe
    <3> QED BY <2>1, <3>1, <3>2 DEF Whole
  <2>2. CASE ~(file'[i] = file[i] /\ op[a].at # "xfill")
    BY <1>3, <2>2 DEF Whole
  <2> QED BY <2>1, <2>2
<1>5. \A d \in {i} \cap Daemons : Whole(d)'
  BY <1>3 DEF Whole
<1>4. StillFills(a, {i})
  BY DEF StillFills
<1> QED BY <1>1, <1>2, <1>4, <1>5, ActorKeeps

\* The config exists from the first call on.
LEMMA OpenConfigStep == ASSUME TypeOK, Safe, NEW a \in Actors, OpenConfig(a) PROVE Safe'
<1> DEFINE i == op[a].item
<1>1. op[a] \in Ops /\ i \in Items /\ Placed(op[a]) /\ op[a].at = "open" /\ op[a].at \in Acting
  BY Doing DEF OpenConfig, At, Acting
<1>2. i \in Names /\ op[a].kind \in {"create", "restore"}
  BY <1>1 DEF Placed
<1>3. /\ Only(a, op')
      /\ op'[a].at = "fill" /\ op'[a].kind = op[a].kind /\ op'[a].item = i /\ op'[a].cfg = op[a].cfg
      /\ op'[a].todo = op[a].todo /\ op'[a].arch = op[a].arch
  BY <1>1 DEF OpenConfig, Only, Safe, Operations, Ops, Calls, Places
<1>4. op' \in [Actors -> Ops] /\ \A b \in Actors \ {a} : Bystander(b)
  BY <1>3, OnlyStands
<1>5. /\ file' = [file EXCEPT ![i] = Torn] /\ UNCHANGED <<tmp, unit, proc, spoilt, copied>>
      /\ file \in [Items -> OnDisk]
  BY DEF OpenConfig, system, rest, TypeOK
<1>6. \A j \in Items \ {i} : Kept(j)
  BY <1>5 DEF Kept
<1>7. Placed(op'[a]) /\ GoesOn(a)
  BY <1>1, <1>2, <1>3, TouchesStay DEF Placed, GoesOn
<1>8. Found(op[a])'
  BY <1>2, <1>3 DEF Found
<1>9. file'[i] # NoFile /\ i \notin Daemons
  BY <1>1, <1>2, <1>5, ContentFacts, ItemFacts
<1> HIDE DEF i
<1> QED BY <1>1, <1>4, <1>5, <1>6, <1>7, <1>8, <1>9, ItemStep DEF i

\* An operation that gives up, or a restore that goes on to its next tunnel.
LEMMA GivesUp ==
  ASSUME Safe, NEW a \in Actors, op'[a] = Failed(a)[a],
         op[a].at \in {"open", "fill", "tmp", "tmpfill", "rename", "unit", "enable", "restart"}
  PROVE  Placed(op'[a]) /\ Found(op[a])' /\ GoesOn(a)
<1>1. op[a] \in Ops /\ Placed(op[a])
  BY Doing
<1>2. CASE op[a].kind = "restore"
  <2>1. op'[a] = [op[a] EXCEPT !.at = "load"] /\ "load" \in Calls
    BY <1>2, FailedIs DEF Safe, Calls
  <2>2. /\ op'[a].at = "load" /\ op'[a].kind = op[a].kind /\ op'[a].item = op[a].item
        /\ op'[a].todo = op[a].todo /\ op'[a].arch = op[a].arch
    BY <1>1, <2>1, NextCall
  <2>3. Placed(op'[a])
    BY <1>1, <1>2, <2>2 DEF Placed
  <2>4. Found(op[a])'
    BY <1>2, <2>2 DEF Found
  <2> QED BY <2>2, <2>3, <2>4, TouchesStay DEF GoesOn
<1>3. CASE op[a].kind # "restore"
  <2>1. Resting(op'[a])
    BY <1>3, FailedIs DEF Safe
  <2>2. Found(op[a])'
    BY <2>1 DEF Resting, Found
  <2> QED BY <2>1, <2>2, RestingIsPlaced DEF GoesOn
<1> QED BY <1>2, <1>3

\* Whatever a write leaves, there is a file.
LEMMA WrittenIsThere ==
  ASSUME NEW cur \in OnDisk, NEW c \in Contents, NEW x \in Written(cur, c)
  PROVE  x \in {c, Torn} /\ x \in OnDisk /\ x # NoFile /\ (cur = Torn => x = c)
BY ContentFacts DEF Written

\* Writing a config leaves a file, whole or torn (config.Save).
LEMMA FillConfigStep == ASSUME TypeOK, Safe, NEW a \in Actors, FillConfig(a) PROVE Safe'
<1> DEFINE i == op[a].item
<1>1. op[a] \in Ops /\ i \in Items /\ Placed(op[a]) /\ op[a].at = "fill" /\ op[a].at \in Acting
  BY Doing DEF FillConfig, At, Acting
<1>2. i \in Names /\ op[a].kind \in {"create", "restore"} /\ op[a].cfg \in Contents
  BY <1>1 DEF Placed
<1>3. /\ UNCHANGED <<tmp, unit, proc, spoilt, copied>> /\ file \in [Items -> OnDisk]
      /\ \A j \in Items \ {i} : file'[j] = file[j]
      /\ file'[i] = file[i] \/ file'[i] # NoFile
  <2>1. UNCHANGED <<tmp, unit, proc, spoilt, copied>> /\ file \in [Items -> OnDisk]
    BY DEF FillConfig, system, rest, TypeOK
  <2>2. CASE op[a].fd = "live"
    <3>1. PICK x \in Written(file[i], op[a].cfg) : file' = [file EXCEPT ![i] = x]
      BY <2>2 DEF FillConfig
    <3>2. x # NoFile
      BY <1>1, <1>2, <2>1, WrittenIsThere
    <3> QED BY <1>1, <2>1, <3>1, <3>2
  <2>3. CASE op[a].fd # "live"
    BY <2>1, <2>3 DEF FillConfig
  <2> QED BY <2>1, <2>2, <2>3
<1>4. \A j \in Items \ {i} : Kept(j)
  BY <1>3 DEF Kept
<1>5. i \in spoilt' \/ file'[i] # NoFile \/ (i \notin unit' /\ proc'[i].run = "off")
  BY <1>2, <1>3 DEF Safe, Orphan, Clear
<1>6. i \notin Daemons
  BY <1>2, ItemFacts
<1>7. CASE file'[i] = NoFile
  <2>1. op' = Failed(a)
    BY <1>7 DEF FillConfig
  <2>2. Only(a, op')
    BY <2>1, FailedIs DEF Safe
  <2>3. Placed(op'[a]) /\ Found(op[a])' /\ GoesOn(a)
    BY <1>1, <2>1, GivesUp
  <2> HIDE DEF i
  <2> QED BY <1>1, <1>3, <1>4, <1>5, <1>6, <2>2, <2>3, OnlyStands, ItemStep DEF i
<1>8. CASE file'[i] # NoFile
  <2>1. /\ Only(a, op')
        /\ op'[a].at = "unit" /\ op'[a].kind = op[a].kind /\ op'[a].item = i
        /\ op'[a].todo = op[a].todo /\ op'[a].arch = op[a].arch
    BY <1>1, <1>8 DEF FillConfig, Only, Safe, Operations, Ops, Calls, Places
  <2>2. Placed(op'[a]) /\ GoesOn(a)
    BY <1>1, <1>2, <2>1, TouchesStay DEF Placed, GoesOn
  <2>3. Found(op[a])'
    BY <1>2, <1>8, <2>1 DEF Found
  <2> HIDE DEF i
  <2> QED BY <1>1, <1>3, <1>4, <1>5, <1>6, <2>1, <2>2, <2>3, OnlyStands, ItemStep DEF i
<1> QED BY <1>7, <1>8

\* saveJSON: until the rename, the live file is not touched.
LEMMA OpenTmpStep == ASSUME TypeOK, Safe, NEW a \in Actors, OpenTmp(a) PROVE Safe'
<1> DEFINE d == op[a].item
<1>1. op[a] \in Ops /\ d \in Items /\ Placed(op[a]) /\ op[a].at = "tmp" /\ op[a].at \in Acting
  BY Doing DEF OpenTmp, At, Acting
<1>2. d \in Daemons /\ op[a].kind \in {"setup", "thresholds"}
  BY <1>1 DEF Placed
<1>3. /\ Only(a, op')
      /\ op'[a].at = "tmpfill" /\ op'[a].kind = op[a].kind /\ op'[a].item = d /\ op'[a].cfg = op[a].cfg
      /\ op'[a].fd = "tmp"
  BY <1>1 DEF OpenTmp, Only, Safe, Operations, Ops, Calls, Places
<1>4. /\ tmp' = [tmp EXCEPT ![d] = Torn] /\ UNCHANGED <<file, unit, proc, spoilt, copied>>
      /\ tmp \in [Daemons -> OnDisk]
  BY DEF OpenTmp, system, rest, TypeOK
<1>5. \A j \in Items \ {d} : Kept(j)
  BY <1>4 DEF Kept
<1>6. Placed(op'[a]) /\ GoesOn(a)
  BY <1>1, <1>2, <1>3, TouchesStay DEF Placed, GoesOn
<1>7. Found(op[a])'
  BY <1>2, <1>3, <1>4 DEF Found
<1>8. d \notin Names
  BY <1>2, ItemFacts
<1> HIDE DEF d
<1> QED BY <1>1, <1>3, <1>4, <1>5, <1>6, <1>7, <1>8, OnlyStands, ItemStep DEF d

\* Writing the temporary file leaves the live one alone unless it has been renamed.
LEMMA FillTmpStep == ASSUME TypeOK, Safe, NEW a \in Actors, FillTmp(a) PROVE Safe'
<1> DEFINE d == op[a].item
<1>1. op[a] \in Ops /\ d \in Items /\ Placed(op[a]) /\ op[a].at = "tmpfill" /\ op[a].at \in Acting
  BY Doing DEF FillTmp, At, Acting
<1>2. d \in Daemons /\ op[a].kind \in {"setup", "thresholds"} /\ op[a].cfg \in Contents
  BY <1>1 DEF Placed
<1>3. /\ Only(a, op')
      /\ op'[a].at = "rename" /\ op'[a].kind = op[a].kind /\ op'[a].item = d /\ op'[a].cfg = op[a].cfg
  BY <1>1 DEF FillTmp, Only, Safe, Operations, Ops, Calls, Places
<1>4. UNCHANGED <<unit, proc, spoilt, copied>> /\ tmp \in [Daemons -> OnDisk] /\ file \in [Items -> OnDisk]
  BY DEF FillTmp, system, rest, TypeOK
<1>5. /\ \A j \in Items \ {d} : file'[j] = file[j] /\ (j \in Daemons => tmp'[j] = tmp[j])
      /\ d \notin spoilt => file'[d] = file[d] /\ tmp'[d] = op[a].cfg
  <2>1. d \notin spoilt => op[a].fd = "tmp" /\ tmp[d] = Torn
    BY <1>1, Doing DEF Found
  <2>2. CASE op[a].fd = "tmp"
    <3>1. file' = file /\ \E x \in Written(tmp[d], op[a].cfg) : tmp' = [tmp EXCEPT ![d] = x]
      BY <2>2 DEF FillTmp
    <3>2. PICK x \in Written(tmp[d], op[a].cfg) : tmp' = [tmp EXCEPT ![d] = x]
      BY <3>1
    <3>3. d \notin spoilt => x = op[a].cfg
      BY <1>2, <1>4, <2>1, WrittenIsThere
    <3> QED BY <1>2, <1>4, <3>1, <3>2, <3>3
  <2>3. CASE op[a].fd = "live"
    <3>1. tmp' = tmp /\ \E x \in Written(file[d], op[a].cfg) : file' = [file EXCEPT ![d] = x]
      BY <2>3 DEF FillTmp
    <3> QED BY <1>4, <2>1, <2>3, <3>1
  <2>4. CASE op[a].fd \notin {"tmp", "live"}
    BY <2>1, <2>4 DEF FillTmp, disk
  <2> QED BY <2>2, <2>3, <2>4
<1>6. \A j \in Items \ {d} : Kept(j)
  BY <1>4, <1>5 DEF Kept
<1>7. Placed(op'[a]) /\ GoesOn(a)
  BY <1>1, <1>2, <1>3, TouchesStay DEF Placed, GoesOn
<1>8. Found(op[a])'
  BY <1>2, <1>3, <1>4, <1>5 DEF Found
<1>9. d \notin Names /\ (d \in spoilt' \/ file'[d] = file[d])
  BY <1>2, <1>4, <1>5, ItemFacts
<1> HIDE DEF d
<1> QED BY <1>1, <1>3, <1>4, <1>6, <1>7, <1>8, <1>9, OnlyStands, ItemStep DEF d

\* The rename puts a whole file in place of a whole file (saveJSON).
LEMMA RenameTmpStep == ASSUME TypeOK, Safe, NEW a \in Actors, RenameTmp(a) PROVE Safe'
<1> DEFINE d == op[a].item
<1>1. op[a] \in Ops /\ d \in Items /\ Placed(op[a]) /\ op[a].at = "rename" /\ op[a].at \in Acting
  BY Doing DEF RenameTmp, At, Acting
<1>2. /\ d \in Daemons /\ d \notin Names /\ op[a].kind \in {"setup", "thresholds"} /\ op[a].cfg \in Contents
      /\ op[a].kind = "thresholds" => d = Bot
  BY <1>1, ItemFacts DEF Placed
<1>3. UNCHANGED <<unit, proc, spoilt, copied>> /\ tmp \in [Daemons -> OnDisk] /\ file \in [Items -> OnDisk]
  BY DEF RenameTmp, system, rest, TypeOK
<1>4. CASE tmp[d] = NoFile
  <2>1. op' = Failed(a) /\ UNCHANGED <<file, tmp>>
    BY <1>4 DEF RenameTmp, disk
  <2>2. Only(a, op') /\ Placed(op'[a]) /\ Found(op[a])' /\ GoesOn(a)
    BY <1>1, <2>1, GivesUp, FailedIs DEF Safe
  <2>3. StillFills(a, {})
    BY <1>1 DEF StillFills
  <2> QED BY <1>3, <2>1, <2>2, <2>3, QuietStep
<1>5. CASE tmp[d] # NoFile
  <2> DEFINE s == IF op[a].kind = "thresholds" THEN "nudge" ELSE "unit"
             o == Advance(a, s)
  <2>1. /\ file' = [file EXCEPT ![d] = tmp[d]] /\ tmp' = [tmp EXCEPT ![d] = NoFile]
        /\ op' = Renamed(o, d)
    BY <1>5 DEF RenameTmp
  <2>2. s \in Calls
    BY DEF Calls
  <2>3. Only(a, o) /\ o[a] = [op[a] EXCEPT !.at = s]
    <3> HIDE DEF s
    <3> QED BY <2>2, AdvanceIs DEF Safe
  <2>4. d \in Touches(op[a]) /\ op[a].kind \notin {"none", "backup"}
    BY <1>1, Touched
  <2>5. /\ op' \in [Actors -> Ops] /\ \A b \in Actors \ {a} : Bystander(b)
        /\ Same(op'[a], o[a])
    <3> HIDE DEF o, d
    <3> QED BY <1>3, <2>1, <2>3, <2>4, RenamedStands DEF Safe
  <2>6. op'[a].at = s /\ op'[a].kind = op[a].kind /\ op'[a].item = d
    <3> HIDE DEF o, s
    <3> QED BY <1>1, <2>2, <2>3, <2>5, NextCall DEF Same
  <2>7. Placed(op'[a]) /\ GoesOn(a)
    BY <1>1, <1>2, <2>6, TouchesStay DEF Placed, GoesOn
  <2>8. Found(op[a])'
    BY <1>2, <2>6 DEF Found
  <2>9. d \in spoilt' \/ file'[d] # Torn
    <3>1. d \notin spoilt => tmp[d] = op[a].cfg
      BY <1>1, Doing DEF Found
    <3> QED BY <1>1, <1>2, <1>3, <2>1, <3>1, ContentFacts
  <2>10. \A j \in Items \ {d} : Kept(j)
    BY <1>3, <2>1 DEF Kept
  <2> HIDE DEF d, o, s
  <2> QED BY <1>1, <1>2, <1>3, <2>5, <2>7, <2>8, <2>9, <2>10, ItemStep DEF d
<1> QED BY <1>4, <1>5

\* A tunnel that gets a unit has its config.
LEMMA WriteUnitStep == ASSUME TypeOK, Safe, NEW a \in Actors, WriteUnit(a) PROVE Safe'
<1> DEFINE i == op[a].item
<1>1. op[a] \in Ops /\ i \in Items /\ Placed(op[a]) /\ op[a].at = "unit" /\ op[a].at \in Acting
  BY Doing DEF WriteUnit, At, Acting
<1>2. op[a].kind \in {"create", "setup", "restore"}
  BY <1>1 DEF Placed
<1>3. op' = Advance(a, "enable") /\ "enable" \in Calls
  BY DEF WriteUnit, Calls
<1>4. /\ Only(a, op')
      /\ op'[a].at = "enable" /\ op'[a].kind = op[a].kind /\ op'[a].item = i
      /\ op'[a].todo = op[a].todo /\ op'[a].arch = op[a].arch
  BY <1>3, Advances DEF Safe
<1>5. unit' = unit \cup {i} /\ UNCHANGED <<file, tmp, proc, spoilt, copied>>
  BY DEF WriteUnit, disk, rest
<1>6. \A j \in Items \ {i} : Kept(j)
  BY <1>5 DEF Kept
<1>7. Placed(op'[a]) /\ GoesOn(a)
  BY <1>1, <1>2, <1>4, TouchesStay DEF Placed, GoesOn
<1>8. Found(op[a])'
  BY <1>2, <1>4 DEF Found
<1>9. i \in Names => i \in spoilt' \/ file'[i] # NoFile
  BY <1>1, <1>5, Doing DEF Found
<1>10. file'[i] = file[i] /\ op[a].at # "xfill"
  BY <1>1, <1>5
<1> HIDE DEF i
<1> QED BY <1>1, <1>4, <1>5, <1>6, <1>7, <1>8, <1>9, <1>10, OnlyStands, ItemStep DEF i

\* Enabling the unit makes nothing of an item.
LEMMA EnableUnitStep == ASSUME TypeOK, Safe, NEW a \in Actors, EnableUnit(a) PROVE Safe'
<1>1. op[a] \in Ops /\ Placed(op[a]) /\ op[a].at = "enable"
  BY Doing DEF EnableUnit, At
<1>2. UNCHANGED <<file, tmp, unit, proc, spoilt, copied>>
  BY DEF EnableUnit, disk, rest
<1>3. StillFills(a, {})
  BY <1>1 DEF StillFills
<1>4. CASE op' = Failed(a)
  BY <1>1, <1>2, <1>3, <1>4, GivesUp, FailedIs, QuietStep DEF Safe
<1>5. CASE op' = Advance(a, "restart")
  <2>1. /\ Only(a, op')
        /\ op'[a].at = "restart" /\ op'[a].kind = op[a].kind /\ op'[a].item = op[a].item
        /\ op'[a].todo = op[a].todo /\ op'[a].arch = op[a].arch
    <3>1. "restart" \in Calls
      BY DEF Calls
    <3> QED BY <1>5, <3>1, Advances DEF Safe
  <2>2. op[a].kind \in {"create", "setup", "restore"}
    BY <1>1 DEF Placed
  <2>3. Placed(op'[a]) /\ GoesOn(a)
    BY <1>1, <2>1, <2>2, TouchesStay DEF Placed, GoesOn
  <2>4. Found(op[a])'
    BY <2>1, <2>2 DEF Found
  <2> QED BY <1>2, <1>3, <2>1, <2>3, <2>4, QuietStep
<1> QED BY <1>4, <1>5 DEF EnableUnit

\* A process that is started or stopped ends the requests it serves.
LEMMA SetProcStands ==
  ASSUME TypeOK, Safe, NEW a \in Actors, NEW i \in Items, NEW p, NEW o, Only(a, o), SetProc(i, p, o)
  PROVE  /\ op' \in [Actors -> Ops] /\ \A b \in Actors \ {a} : Bystander(b)
         /\ Resting(op'[a]) \/ op'[a] = o[a]
         /\ spoilt \subseteq spoilt' /\ proc'[i] = p /\ \A j \in Items \ {i} : proc'[j] = proc[j]
<1>1. ServedBy(i) \in SUBSET Busy
  BY DEF ServedBy
<1>2. op' = Killed(o, ServedBy(i)) /\ spoilt \cup Cut(ServedBy(i)) \subseteq spoilt'
  BY DEF SetProc
<1>3. /\ op' \in [Actors -> Ops] /\ \A b \in Actors \ {a} : Bystander(b)
      /\ Resting(op'[a]) \/ op'[a] = o[a]
  <2> DEFINE who == ServedBy(i)
  <2>1. who \in SUBSET Busy /\ op' = Killed(o, who) /\ spoilt \cup Cut(who) \subseteq spoilt'
    BY <1>1, <1>2
  <2> HIDE DEF who
  <2>2. /\ op' \in [Actors -> Ops] /\ \A b \in Actors \ {a} : Bystander(b)
        /\ IF a \in who THEN Resting(op'[a]) ELSE op'[a] = o[a]
    BY <2>1, KilledStands DEF Safe
  <2> QED BY <2>2
<1>4. proc' = [proc EXCEPT ![i] = p] /\ DOMAIN proc = Items
  BY DEF SetProc, TypeOK
<1> QED BY <1>2, <1>3, <1>4

\* Who is not there any more has nothing to answer for.
LEMMA Rests ==
  ASSUME NEW a \in Actors, Resting(op'[a])
  PROVE  Placed(op'[a]) /\ Found(op[a])' /\ GoesOn(a)
<1>1. Found(op[a])'
  BY DEF Resting, Found
<1> QED BY <1>1, RestingIsPlaced DEF GoesOn

\* What an install starts has a unit and so a config.
LEMMA RestartUnitStep == ASSUME TypeOK, Safe, NEW a \in Actors, RestartUnit(a) PROVE Safe'
<1> DEFINE i == op[a].item
<1>1. op[a] \in Ops /\ i \in Items /\ Placed(op[a]) /\ op[a].at = "restart" /\ op[a].at \in Acting
  BY Doing DEF RestartUnit, At, Acting
<1>2. UNCHANGED <<file, tmp, unit, copied>>
  BY DEF RestartUnit, disk, system, rest
<1>3. CASE i \notin unit
  <2>1. op' = Failed(a) /\ UNCHANGED <<proc, spoilt>>
    BY <1>3 DEF RestartUnit
  <2>2. StillFills(a, {})
    BY <1>1 DEF StillFills
  <2> QED BY <1>1, <1>2, <2>1, <2>2, GivesUp, FailedIs, QuietStep DEF Safe
<1>4. CASE i \in unit
  <2>1. SetProc(i, Start(i), Installed(a))
    BY <1>4 DEF RestartUnit
  <2>2. Only(a, Installed(a))
    BY InstalledIs DEF Safe
  <2>3. /\ op' \in [Actors -> Ops] /\ \A b \in Actors \ {a} : Bystander(b)
        /\ Resting(op'[a]) \/ op'[a] = Installed(a)[a]
        /\ spoilt \subseteq spoilt' /\ \A j \in Items \ {i} : proc'[j] = proc[j]
    <3> HIDE DEF i
    <3> QED BY <1>1, <2>1, <2>2, SetProcStands DEF i
  <2>4. \A j \in Items \ {i} : Kept(j)
    BY <1>2, <2>3 DEF Kept
  <2>5. i \in Names => i \in spoilt' \/ file'[i] # NoFile
    BY <1>2, <1>4, <2>3 DEF Safe, Orphan, Clear
  <2>6. file'[i] = file[i] /\ op[a].at # "xfill"
    BY <1>1, <1>2
  <2>7. Placed(op'[a]) /\ Found(op[a])' /\ GoesOn(a)
    <3>1. CASE Resting(op'[a])
      BY <3>1, Rests
    <3>2. CASE ~Resting(op'[a])
      <4>1. /\ op[a].kind = "restore"
            /\ op'[a] = [op[a] EXCEPT !.at = "load", !.done = @ \cup {op[a].item}]
        BY <2>3, <3>2, InstalledIs DEF Safe
      <4>2. /\ op'[a].at = "load" /\ op'[a].kind = op[a].kind /\ op'[a].item = op[a].item
            /\ op'[a].todo = op[a].todo /\ op'[a].arch = op[a].arch
        BY <1>1, <4>1 DEF Ops
      <4>3. Placed(op'[a])
        BY <1>1, <4>1, <4>2 DEF Placed
      <4>4. Found(op[a])'
        BY <4>1, <4>2 DEF Found
      <4> QED BY <4>2, <4>3, <4>4, TouchesStay DEF GoesOn
    <3> QED BY <3>1, <3>2
  <2> HIDE DEF i
  <2> QED BY <1>1, <1>2, <2>3, <2>4, <2>5, <2>6, <2>7, ItemStep DEF i
<1> QED BY <1>3, <1>4

\* The bot is no tunnel: restarting it orphans nothing.
LEMMA NudgeStep == ASSUME TypeOK, Safe, NEW a \in Actors, Nudge(a) PROVE Safe'
<1>1. op[a] \in Ops /\ Bot \in Items /\ Placed(op[a]) /\ op[a].at = "nudge" /\ op[a].at \in Acting
  BY Doing, ItemFacts DEF Nudge, At, Acting
<1>2. op[a].item = Bot /\ Bot \notin Names
  BY <1>1, ItemFacts DEF Placed
<1>3. UNCHANGED <<file, tmp, unit, copied>>
  BY DEF Nudge, disk, system, rest
<1>4. Only(a, Ended(a, "ok")) /\ Resting(Ended(a, "ok")[a])
  BY EndedIs DEF Safe, Results
<1>5. CASE op' = Ended(a, "ok") /\ UNCHANGED <<proc, spoilt>>
  <2>1. StillFills(a, {})
    BY <1>1 DEF StillFills
  <2> QED BY <1>3, <1>4, <1>5, <2>1, Rests, QuietStep
<1>6. CASE SetProc(Bot, Start(Bot), Ended(a, "ok"))
  <2>1. /\ op' \in [Actors -> Ops] /\ \A b \in Actors \ {a} : Bystander(b)
        /\ Resting(op'[a]) \/ op'[a] = Ended(a, "ok")[a]
        /\ spoilt \subseteq spoilt' /\ \A j \in Items \ {Bot} : proc'[j] = proc[j]
    BY <1>1, <1>4, <1>6, SetProcStands
  <2>2. \A j \in Items \ {Bot} : Kept(j)
    BY <1>3, <2>1 DEF Kept
  <2>3. file'[Bot] = file[Bot] /\ op[a].at # "xfill"
    BY <1>1, <1>3
  <2>4. Resting(op'[a])
    BY <1>4, <2>1
  <2> QED BY <1>1, <1>2, <1>3, <2>1, <2>2, <2>3, <2>4, Rests, ItemStep
<1> QED BY <1>5, <1>6 DEF Nudge

-----------------------------------------------------------------------------
(* Remove, removeService and uninstallAll                                      *)

\* What is left of an uninstall is on its list, gone, or being removed.
LEMMA UninstallGoesOn ==
  ASSUME NEW o, NEW p, Found(o), Placed(o), o.item \in Items, p.kind = o.kind, p.item = o.item, p.todo = o.todo,
         spoilt \subseteq spoilt', \A j \in Items \ {o.item} : Kept(j),
         \/ o.item \notin Names \/ o.item \in spoilt' \/ Removing(p, o.item)
         \/ o.item \notin unit' /\ proc'[o.item].run = "off"
  PROVE  o.kind = "uninstall" => \A n \in Names \ spoilt' : n \in p.todo \/ Clear(n)' \/ Removing(p, n)
<1> SUFFICES ASSUME o.kind = "uninstall", NEW n \in Names \ spoilt'
             PROVE  n \in p.todo \/ Clear(n)' \/ Removing(p, n)
  OBVIOUS
<1>1. CASE n = o.item
  BY <1>1 DEF Removing, Clear
<1>2. CASE n # o.item
  <2>1. n \in o.todo \/ Clear(n)
    BY <1>2 DEF Found, Removing
  <2>2. Kept(n)
    BY <1>2, ItemFacts
  <2> QED BY <2>1, <2>2 DEF Kept, Clear
<1> QED BY <1>1, <1>2

\* What a removal stops is not running afterwards.
LEMMA StopUnitStep == ASSUME TypeOK, Safe, NEW a \in Actors, StopUnit(a) PROVE Safe'
<1> DEFINE i == op[a].item
           o == Advance(a, "disable")
<1>1. /\ op[a] \in Ops /\ i \in Items /\ Placed(op[a]) /\ Found(op[a])
      /\ op[a].at = "stop" /\ op[a].at \in Acting
  BY Doing DEF StopUnit, At, Acting
<1>2. op[a].kind \in {"remove", "disable", "uninstall"}
  BY <1>1 DEF Placed
<1>3. UNCHANGED <<file, tmp, unit, copied>> /\ SetProc(i, Off, o)
  BY DEF StopUnit, disk, system, rest
<1>4. Only(a, o) /\ o[a] = [op[a] EXCEPT !.at = "disable"] /\ "disable" \in Calls
  BY AdvanceIs DEF Safe, Calls
<1>5. /\ op' \in [Actors -> Ops] /\ \A b \in Actors \ {a} : Bystander(b)
      /\ Resting(op'[a]) \/ op'[a] = o[a]
      /\ spoilt \subseteq spoilt' /\ proc'[i].run = "off" /\ \A j \in Items \ {i} : proc'[j] = proc[j]
  <2> HIDE DEF i, o
  <2>1. /\ op' \in [Actors -> Ops] /\ \A b \in Actors \ {a} : Bystander(b)
        /\ Resting(op'[a]) \/ op'[a] = o[a]
        /\ spoilt \subseteq spoilt' /\ proc'[i] = Off /\ \A j \in Items \ {i} : proc'[j] = proc[j]
    BY <1>1, <1>3, <1>4, SetProcStands DEF i
  <2> QED BY <2>1 DEF Off
<1>6. \A j \in Items \ {i} : Kept(j)
  BY <1>3, <1>5 DEF Kept
<1>7. i \in Names => i \in spoilt' \/ file'[i] # NoFile \/ (i \notin unit' /\ proc'[i].run = "off")
  BY <1>3, <1>5 DEF Safe, Orphan, Clear
<1>8. file'[i] = file[i] /\ op[a].at # "xfill"
  BY <1>1, <1>3
<1>9. Placed(op'[a]) /\ Found(op[a])' /\ GoesOn(a)
  <2>1. CASE Resting(op'[a])
    BY <2>1, Rests
  <2>2. CASE ~Resting(op'[a])
    <3>1. /\ op'[a].at = "disable" /\ op'[a].kind = op[a].kind /\ op'[a].item = i
          /\ op'[a].todo = op[a].todo
      <4>1. op'[a] = [op[a] EXCEPT !.at = "disable"]
        BY <1>4, <1>5, <2>2
      <4> QED BY <1>1, <1>4, <4>1, NextCall
    <3>2. Placed(op'[a]) /\ GoesOn(a)
      BY <1>1, <1>2, <3>1, TouchesStay DEF Placed, GoesOn
    <3>3. op[a].kind = "uninstall" =>
            \A n \in Names \ spoilt' : n \in op'[a].todo \/ Clear(n)' \/ Removing(op'[a], n)
      <4>1. Removing(op'[a], i)
        BY <3>1 DEF Removing
      <4> QED BY <1>1, <1>5, <1>6, <3>1, <4>1, UninstallGoesOn
    <3>4. Found(op[a])'
      BY <1>5, <3>1, <3>3 DEF Found, Removing
    <3> QED BY <3>2, <3>4
  <2> QED BY <2>1, <2>2
<1> HIDE DEF i, o
<1> QED BY <1>1, <1>3, <1>5, <1>6, <1>7, <1>8, <1>9, ItemStep DEF i

\* Disabling changes nothing that the next calls rely on.
LEMMA DisableUnitStep == ASSUME TypeOK, Safe, NEW a \in Actors, DisableUnit(a) PROVE Safe'
<1>1. /\ op[a] \in Ops /\ op[a].item \in Items /\ Placed(op[a]) /\ Found(op[a])
      /\ op[a].at = "disable"
  BY Doing DEF DisableUnit, At
<1>2. op[a].kind \in {"remove", "disable", "uninstall"}
  BY <1>1 DEF Placed
<1>3. UNCHANGED <<file, tmp, unit, proc, spoilt, copied>>
  BY DEF DisableUnit, disk, rest
<1>4. /\ Only(a, op')
      /\ op'[a].at = "rmunit" /\ op'[a].kind = op[a].kind /\ op'[a].item = op[a].item
      /\ op'[a].todo = op[a].todo
  <2>1. op' = Advance(a, "rmunit") /\ "rmunit" \in Calls
    BY DEF DisableUnit, Calls
  <2> QED BY <2>1, Advances DEF Safe
<1>5. Placed(op'[a]) /\ GoesOn(a)
  BY <1>1, <1>2, <1>4, TouchesStay DEF Placed, GoesOn
<1>6. op[a].kind = "uninstall" =>
        \A n \in Names \ spoilt' : n \in op'[a].todo \/ Clear(n)' \/ Removing(op'[a], n)
  <2>1. Removing(op'[a], op[a].item)
    BY <1>4 DEF Removing
  <2>2. \A j \in Items : Kept(j)
    BY <1>3 DEF Kept
  <2> QED BY <1>1, <1>3, <1>4, <2>1, <2>2, UninstallGoesOn
<1>7. Found(op[a])'
  BY <1>1, <1>3, <1>4, <1>6 DEF Found, Removing
<1>8. StillFills(a, {})
  BY <1>1 DEF StillFills
<1> QED BY <1>3, <1>4, <1>5, <1>7, <1>8, QuietStep

\* Where the operation stands once the unit file is gone.
LEMMA UnitIsRemoved ==
  ASSUME Safe, NEW a \in Actors, NEW r \in Results, op[a].at = "rmunit", spoilt \subseteq spoilt',
         \A j \in Items \ {op[a].item} : Kept(j),
         op[a].item \notin spoilt' => op[a].item \notin unit' /\ proc'[op[a].item].run = "off",
         op'[a].at = UnitRemoved(a, r)[a].at, op'[a].kind = UnitRemoved(a, r)[a].kind,
         op'[a].item = UnitRemoved(a, r)[a].item, op'[a].todo = UnitRemoved(a, r)[a].todo,
         Resting(UnitRemoved(a, r)[a]) => Resting(op'[a])
  PROVE  Placed(op'[a]) /\ Found(op[a])' /\ GoesOn(a)
<1> DEFINE i == op[a].item
           u == UnitRemoved(a, r)[a]
<1>1. op[a] \in Ops /\ i \in Items /\ Placed(op[a]) /\ Found(op[a])
  BY Doing
<1>2. op[a].kind \in {"remove", "disable", "uninstall"}
  BY <1>1 DEF Placed
<1>3. IF i \in Names THEN u = [op[a] EXCEPT !.at = "rmconf"]
      ELSE IF op[a].kind = "uninstall" THEN u = [op[a] EXCEPT !.at = "pick"] ELSE Resting(u)
  BY UnitRemovedIs DEF Safe
<1>4. CASE Resting(u)
  BY <1>4, Rests
<1>5. ASSUME NEW s \in {"rmconf", "pick"}, u = [op[a] EXCEPT !.at = s],
             s = "rmconf" => i \in Names, s = "pick" => i \notin Names /\ op[a].kind = "uninstall"
      PROVE  Placed(op'[a]) /\ Found(op[a])' /\ GoesOn(a)
  <2>1. op'[a].at = s /\ op'[a].kind = op[a].kind /\ op'[a].item = i /\ op'[a].todo = op[a].todo
    <3>1. u.at = s /\ u.kind = op[a].kind /\ u.item = i /\ u.todo = op[a].todo
      BY <1>1, <1>5, NextCall DEF Calls
    <3> QED BY <3>1
  <2>2. Placed(op'[a]) /\ GoesOn(a)
    BY <1>1, <1>2, <1>5, <2>1, TouchesStay DEF Placed, GoesOn
  <2>3. op[a].kind = "uninstall" =>
          \A n \in Names \ spoilt' : n \in op'[a].todo \/ Clear(n)' \/ Removing(op'[a], n)
    <3>1. i \notin Names \/ Removing(op'[a], i)
      BY <1>5, <2>1 DEF Removing
    <3> QED BY <1>1, <2>1, <3>1, UninstallGoesOn
  <2>4. Found(op[a])'
    BY <1>2, <1>5, <2>1, <2>3 DEF Found, Removing
  <2> QED BY <2>2, <2>4
<1> HIDE DEF u
<1> QED BY <1>3, <1>4, <1>5

\* The unit goes once nothing runs of it.
LEMMA RemoveUnitStep == ASSUME TypeOK, Safe, NEW a \in Actors, RemoveUnit(a) PROVE Safe'
<1> DEFINE i == op[a].item
<1>1. /\ op[a] \in Ops /\ i \in Items /\ Placed(op[a]) /\ Found(op[a])
      /\ op[a].at = "rmunit" /\ op[a].at \in Acting
  BY Doing DEF RemoveUnit, At, Acting
<1>0. PICK r \in Reloaded : op' = UnitRemoved(a, r)
  BY DEF RemoveUnit
<1>2. /\ unit' = unit \ {i} /\ UNCHANGED <<file, tmp, proc, spoilt, copied>>
      /\ op' = UnitRemoved(a, r) /\ Only(a, op') /\ r \in Results
  BY <1>0, UnitRemovedIs DEF RemoveUnit, disk, rest, Safe, Reloaded, Results
<1>3. \A j \in Items \ {i} : Kept(j)
  BY <1>2 DEF Kept
<1>4. i \notin spoilt' => i \notin unit' /\ proc'[i].run = "off"
  BY <1>1, <1>2 DEF Found
<1>5. Placed(op'[a]) /\ Found(op[a])' /\ GoesOn(a)
  BY <1>1, <1>2, <1>3, <1>4, UnitIsRemoved
<1>6. file'[i] = file[i] /\ op[a].at # "xfill"
  BY <1>1, <1>2
<1>7. i \in Names => i \in spoilt' \/ (i \notin unit' /\ proc'[i].run = "off")
  BY <1>4
<1> HIDE DEF i
<1> QED BY <1>1, <1>2, <1>3, <1>5, <1>6, <1>7, OnlyStands, ItemStep DEF i

\* Where it stands when a tunnel's config is gone, or a bot that was nudged.
LEMMA ItemIsRemoved ==
  ASSUME Safe, NEW a \in Actors, NEW r \in Results, op[a].at \in {"rmconf", "nudge"}, spoilt \subseteq spoilt',
         \A j \in Items \ {op[a].item} : Kept(j),
         op[a].item \in Names => op[a].item \in spoilt' \/ (op[a].item \notin unit' /\ proc'[op[a].item].run = "off"),
         op'[a].at = Removed(a, r)[a].at, op'[a].kind = Removed(a, r)[a].kind,
         op'[a].item = Removed(a, r)[a].item, op'[a].todo = Removed(a, r)[a].todo,
         Resting(Removed(a, r)[a]) => Resting(op'[a])
  PROVE  Placed(op'[a]) /\ Found(op[a])' /\ GoesOn(a)
<1> DEFINE i == op[a].item
           u == Removed(a, r)[a]
<1>1. op[a] \in Ops /\ i \in Items /\ Placed(op[a]) /\ Found(op[a])
  BY Doing
<1>2. IF op[a].kind = "uninstall" THEN u = [op[a] EXCEPT !.at = "pick"] ELSE Resting(u)
  BY RemovedIs DEF Safe
<1>3. CASE Resting(u)
  BY <1>3, Rests
<1>4. CASE op[a].kind = "uninstall" /\ u = [op[a] EXCEPT !.at = "pick"]
  <2>1. op'[a].at = "pick" /\ op'[a].kind = op[a].kind /\ op'[a].item = i /\ op'[a].todo = op[a].todo
    <3>1. u.at = "pick" /\ u.kind = op[a].kind /\ u.item = i /\ u.todo = op[a].todo
      BY <1>1, <1>4, NextCall DEF Calls
    <3> QED BY <3>1
  <2>2. Placed(op'[a]) /\ GoesOn(a)
    BY <1>1, <1>4, <2>1, TouchesStay DEF Placed, GoesOn
  <2>3. op[a].kind = "uninstall" =>
          \A n \in Names \ spoilt' : n \in op'[a].todo \/ Clear(n)' \/ Removing(op'[a], n)
    <3>1. i \notin Names \/ i \in spoilt' \/ (i \notin unit' /\ proc'[i].run = "off")
      OBVIOUS
    <3> QED BY <1>1, <2>1, <3>1, UninstallGoesOn
  <2>4. Found(op[a])'
    BY <1>4, <2>1, <2>3 DEF Found, Removing
  <2> QED BY <2>2, <2>4
<1> HIDE DEF u
<1> QED BY <1>2, <1>3, <1>4

\* The config goes last: nothing of the tunnel is left then.
LEMMA RemoveConfStep == ASSUME TypeOK, Safe, NEW a \in Actors, RemoveConf(a) PROVE Safe'
<1>0. PICK r \in Reloaded : op' = Unlinked(Removed(a, r), {op[a].item})
  BY DEF RemoveConf
<1> DEFINE i == op[a].item
           o == Removed(a, r)
<1>1. /\ op[a] \in Ops /\ i \in Items /\ Placed(op[a]) /\ Found(op[a])
      /\ op[a].at = "rmconf" /\ op[a].at \in Acting
  BY Doing DEF RemoveConf, At, Acting
<1>2. i \in Names /\ i \notin Daemons
  BY <1>1, ItemFacts DEF Placed
<1>3. /\ file' = [file EXCEPT ![i] = NoFile] /\ UNCHANGED <<tmp, unit, proc, spoilt, copied>>
      /\ op' = Unlinked(o, {i}) /\ r \in Results
  BY <1>0 DEF RemoveConf, system, rest, Reloaded, Results
<1>4. \A j \in Items \ {i} : Kept(j)
  BY <1>3 DEF Kept, TypeOK
<1>5. i \notin spoilt' => i \notin unit' /\ proc'[i].run = "off"
  BY <1>1, <1>3 DEF Found
<1>6. Only(a, o) /\ IF op[a].kind = "uninstall" THEN TRUE ELSE Resting(o[a])
  BY <1>3, RemovedIs DEF Safe
<1>7. /\ op' \in [Actors -> Ops] /\ \A b \in Actors \ {a} : Bystander(b)
      /\ Same(op'[a], o[a])
  <2>1. {i} \subseteq Touches(op[a]) /\ op[a].kind \notin {"none", "backup"}
    BY <1>1, Touched
  <2> HIDE DEF i, o
  <2> QED BY <1>3, <1>6, <2>1, UnlinkedStands DEF Safe
<1>8. Resting(o[a]) => Resting(op'[a])
  BY <1>7 DEF Same, Resting
<1>9. Placed(op'[a]) /\ Found(op[a])' /\ GoesOn(a)
  BY <1>1, <1>3, <1>4, <1>5, <1>7, <1>8, ItemIsRemoved DEF Same
<1> HIDE DEF i, o
<1> QED BY <1>1, <1>2, <1>3, <1>4, <1>5, <1>7, <1>9, ItemStep DEF i

\* What is picked is being removed from then on; once the list is empty all is gone.
LEMMA PickNextStep == ASSUME TypeOK, Safe, NEW a \in Actors, PickNext(a) PROVE Safe'
<1> DEFINE o == op[a]
<1>1. o \in Ops /\ Placed(o) /\ Found(o) /\ o.at = "pick" /\ o.kind = "uninstall"
  BY Doing DEF PickNext, At, Placed
<1>2. UNCHANGED <<file, tmp, unit, proc, spoilt, copied>>
  BY DEF PickNext, disk, system, rest
<1>3. StillFills(a, {})
  BY <1>1 DEF StillFills
<1>4. \A n \in Names \ spoilt : n \in o.todo \/ Clear(n)
  BY <1>1 DEF Found, Removing
<1>5. CASE o.todo = {}
  <2>1. /\ Only(a, op') /\ op'[a].at = "purge" /\ op'[a].kind = o.kind /\ op'[a].item = o.item /\ op'[a].todo = {}
    <3>1. op' = Advance(a, "purge") /\ "purge" \in Calls
      BY <1>5 DEF PickNext, Calls
    <3> QED BY <1>5, <3>1, Advances DEF Safe
  <2>2. Placed(op'[a]) /\ GoesOn(a)
    BY <1>1, <2>1, TouchesStay DEF Placed, GoesOn
  <2>3. \A n \in Names \ spoilt' : Clear(n)'
    BY <1>2, <1>4, <1>5 DEF Clear
  <2>4. Found(op[a])'
    BY <1>1, <2>1, <2>3 DEF Found
  <2> QED BY <1>2, <1>3, <2>1, <2>2, <2>4, QuietStep
<1>6. CASE o.todo # {}
  <2>1. PICK i \in o.todo : op' = [op EXCEPT ![a].at = "stop", ![a].item = i, ![a].todo = @ \ {i}]
    BY <1>6 DEF PickNext
  <2>2. /\ Only(a, op') /\ op'[a].at = "stop" /\ op'[a].kind = o.kind /\ op'[a].item = i
        /\ op'[a].todo = o.todo \ {i} /\ op'[a].arch = o.arch
    <3>1. "stop" \in Calls /\ i \in Items /\ o.todo \ {i} \in SUBSET Items
      BY <1>1 DEF Calls, Ops
    <3> DEFINE p == [o EXCEPT !.at = "stop", !.item = i, !.todo = @ \ {i}]
    <3>2. /\ p \in Ops /\ p.at = "stop" /\ p.kind = o.kind /\ p.item = i
          /\ p.todo = o.todo \ {i} /\ p.arch = o.arch
      BY <1>1, <3>1 DEF Ops
    <3>3. op \in [Actors -> Ops] /\ op' = [op EXCEPT ![a] = p]
      BY <2>1 DEF Safe, Operations
    <3> HIDE DEF p
    <3> QED BY <3>2, <3>3 DEF Only
  <2>3. Placed(op'[a]) /\ GoesOn(a)
    BY <1>1, <2>2, TouchesStay DEF Placed, GoesOn
  <2>4. ASSUME NEW n \in Names \ spoilt' PROVE n \in op'[a].todo \/ Clear(n)' \/ Removing(op'[a], n)
    BY <1>2, <1>4, <2>2 DEF Clear, Removing
  <2>5. Found(op[a])'
    BY <1>1, <2>2, <2>4 DEF Found, Removing
  <2> QED BY <1>2, <1>3, <2>2, <2>3, <2>5, QuietStep
<1> QED BY <1>5, <1>6

\* The operator answers: the list is what it was.
LEMMA AnsweredStep ==
  ASSUME TypeOK, Safe, NEW a \in Actors, NEW s \in {"confirm", "pick"}, op[a].at \in {"ask", "confirm"},
         op' = Advance(a, s) \/ op' = Ended(a, "cancelled"),
         UNCHANGED <<file, tmp, unit, proc, spoilt, copied>>
  PROVE  Safe'
<1>1. op[a] \in Ops /\ Placed(op[a]) /\ Found(op[a]) /\ op[a].kind = "uninstall"
  BY Doing DEF Placed
<1>2. StillFills(a, {})
  BY DEF StillFills
<1>3. CASE op' = Ended(a, "cancelled")
  <2>1. "cancelled" \in Results
    BY DEF Results
  <2> QED BY <1>2, <1>3, <2>1, EndedIs, Rests, QuietStep DEF Safe
<1>4. CASE op' = Advance(a, s)
  <2>1. Only(a, op') /\ op'[a].at = s /\ op'[a].kind = op[a].kind /\ op'[a].item = op[a].item /\ op'[a].todo = op[a].todo
    <3>1. s \in Calls
      BY DEF Calls
    <3> QED BY <1>4, <3>1, Advances DEF Safe
  <2>2. Placed(op'[a]) /\ GoesOn(a)
    BY <1>1, <2>1, TouchesStay DEF Placed, GoesOn
  <2>3. ASSUME NEW n \in Names \ spoilt' PROVE n \in op'[a].todo \/ Clear(n)'
    BY <1>1, <2>1 DEF Found, Clear, Removing
  <2>4. Found(op[a])'
    BY <1>1, <2>1, <2>3 DEF Found
  <2> QED BY <1>2, <2>1, <2>2, <2>4, QuietStep
<1> QED BY <1>3, <1>4

\* The backup before an uninstall changes nothing on the host.
LEMMA SaveFirstStep == ASSUME TypeOK, Safe, NEW a \in Actors, SaveFirst(a) PROVE Safe'
<1>1. op[a].at \in {"ask", "confirm"} /\ op' = Advance(a, "confirm")
  BY DEF SaveFirst, At
<1>2. UNCHANGED <<file, tmp, unit, proc, spoilt, copied>>
  BY DEF SaveFirst, disk, system
<1> QED BY <1>1, <1>2, AnsweredStep

\* Nor does the answer to its question.
LEMMA AnswerStep == ASSUME TypeOK, Safe, NEW a \in Actors, Answer(a) PROVE Safe'
<1>1. op[a].at \in {"ask", "confirm"} /\ (op' = Advance(a, "pick") \/ op' = Ended(a, "cancelled"))
  BY DEF Answer, At
<1>2. UNCHANGED <<file, tmp, unit, proc, spoilt, copied>>
  BY DEF Answer, disk, system, rest
<1> QED BY <1>1, <1>2, AnsweredStep

\* Nothing runs of what is purged.
LEMMA PurgeStep == ASSUME TypeOK, Safe, NEW a \in Actors, Purge(a) PROVE Safe'
<1> DEFINE o == Advance(a, "rmbin")
<1>1. /\ op[a] \in Ops /\ Placed(op[a]) /\ Found(op[a]) /\ op[a].at = "purge"
      /\ op[a].kind = "uninstall" /\ op[a].todo = {}
  BY Doing DEF Purge, At, Placed
<1>2. /\ \A i \in Items : file'[i] = NoFile
      /\ UNCHANGED <<unit, proc, spoilt, copied>> /\ op' = Unlinked(o, Items)
  BY DEF Purge, system, rest
<1>3. Only(a, o) /\ o[a] = [op[a] EXCEPT !.at = "rmbin"] /\ "rmbin" \in Calls
  BY AdvanceIs DEF Safe, Calls
<1>4. Items \subseteq Touches(op[a]) /\ op[a].kind \notin {"none", "backup"}
  BY <1>1, Touched
<1>5. /\ op' \in [Actors -> Ops] /\ \A b \in Actors \ {a} : Bystander(b)
      /\ Same(op'[a], o[a])
  <2> HIDE DEF o
  <2> QED BY <1>2, <1>3, <1>4, UnlinkedStands DEF Safe
<1>6. op'[a].at = "rmbin" /\ op'[a].kind = op[a].kind /\ op'[a].item = op[a].item /\ op'[a].todo = op[a].todo
  <2> HIDE DEF o
  <2> QED BY <1>1, <1>3, <1>5, NextCall DEF Same
<1>7. Placed(op'[a]) /\ GoesOn(a)
  BY <1>1, <1>6, TouchesStay DEF Placed, GoesOn
<1>8. \A n \in Names \ spoilt' : Clear(n)'
  BY <1>1, <1>2 DEF Found, Clear, Removing
<1>9. Found(op[a])'
  BY <1>1, <1>6, <1>8 DEF Found
<1>10. /\ \A n \in Items \cap Names : ~Orphan(n)'
       /\ \A d \in Items \cap Daemons : Whole(d)'
  BY <1>2, <1>8, ContentFacts DEF Orphan, Whole
<1>11. StillFills(a, Items)
  BY <1>1 DEF StillFills
<1>12. \A i \in Items \ Items : Kept(i)
  OBVIOUS
<1> QED BY <1>2, <1>4, <1>5, <1>7, <1>9, <1>10, <1>11, <1>12, ActorKeeps

\* The binary is none of the items.
LEMMA RemoveBinaryStep == ASSUME TypeOK, Safe, NEW a \in Actors, RemoveBinary(a) PROVE Safe'
<1>1. op' = Ended(a, "ok") /\ "ok" \in Results /\ StillFills(a, {})
  BY DEF RemoveBinary, At, StillFills, Results
<1>2. UNCHANGED <<file, tmp, unit, proc, spoilt, copied>>
  BY DEF RemoveBinary, disk, system, rest
<1> QED BY <1>1, <1>2, EndedIs, Rests, QuietStep DEF Safe

-----------------------------------------------------------------------------
(* Build, Extract, Restore and Update                                          *)

\* A step of a backup or an update changes nothing of the items.
LEMMA LooksOnlyStep ==
  ASSUME Safe, NEW a \in Actors, op[a].kind \in {"backup", "update"}, Only(a, op'),
         op'[a].kind = op[a].kind, op'[a].item = op[a].item, Placed(op'[a]),
         UNCHANGED <<file, tmp, unit, proc, spoilt, copied>>
  PROVE  Safe'
<1>1. Placed(op[a])
  BY Doing
<1>2. StillFills(a, {}) /\ Found(op[a])'
  BY <1>1 DEF StillFills, Found, Placed
<1>3. GoesOn(a)
  BY TouchesStay DEF GoesOn
<1> QED BY <1>2, <1>3, QuietStep

\* Nor does its end, nor that of a restore.
LEMMA EndStep ==
  ASSUME Safe, NEW a \in Actors, op[a].at # "xfill", NEW r \in Results, op' = Ended(a, r),
         UNCHANGED <<file, tmp, unit, proc, spoilt, copied>>
  PROVE  Safe'
<1>1. Only(a, op') /\ Resting(op'[a]) /\ StillFills(a, {})
  BY EndedIs DEF Safe, StillFills
<1> QED BY <1>1, Rests, QuietStep

\* A backup reads.
LEMMA ReadEntryStep == ASSUME TypeOK, Safe, NEW a \in Actors, ReadEntry(a) PROVE Safe'
<1>1. op[a] \in Ops /\ Placed(op[a]) /\ op[a].at = "read" /\ op[a].kind = "backup"
  BY Doing DEF ReadEntry, At, Placed
<1>2. PICK i \in FirstOf(op[a].todo) :
        op' = [op EXCEPT ![a].todo = @ \ {i},
                         ![a].arch = IF file[i] = NoFile THEN @ ELSE Entered(@, i)]
  BY DEF ReadEntry
<1>3. i \in Items /\ file[i] \in OnDisk
  BY <1>1 DEF FirstOf, TypeOK, Ops
<1> DEFINE r == IF file[i] = NoFile THEN op[a].arch ELSE Entered(op[a].arch, i)
           p == [op[a] EXCEPT !.todo = @ \ {i}, !.arch = r]
<1>4. r \in Backups
  <2>1. PICK T \in SUBSET Items : op[a].arch \in [T -> Contents \cup {Torn}]
    BY <1>1 DEF Ops, Backups
  <2>2. ASSUME file[i] # NoFile PROVE Entered(op[a].arch, i) \in [T \cup {i} -> Contents \cup {Torn}]
    <3>1. file[i] \in Contents \cup {Torn}
      BY <1>3, <2>2 DEF OnDisk
    <3> QED BY <2>1, <3>1 DEF Entered
  <2>3. T \cup {i} \in SUBSET Items
    BY <1>3
  <2> QED BY <1>1, <2>2, <2>3 DEF Backups, Ops
<1>5. p \in Ops /\ p.kind = op[a].kind /\ p.at = op[a].at /\ p.item = op[a].item /\ p.got = op[a].got
  <2>1. op[a].todo \ {i} \in SUBSET Items
    BY <1>1 DEF Ops
  <2> HIDE DEF r
  <2> QED BY <1>1, <1>4, <2>1 DEF Ops
<1>6. Only(a, op') /\ op'[a] = p
  <2>1. op \in [Actors -> Ops] /\ op' = [op EXCEPT ![a] = p]
    BY <1>2 DEF Safe, Operations
  <2> HIDE DEF p
  <2> QED BY <1>5, <2>1 DEF Only
<1> HIDE DEF p
<1>7. Placed(op'[a])
  BY <1>1, <1>5, <1>6 DEF Placed
<1>8. UNCHANGED <<file, tmp, unit, proc, spoilt, copied>>
  BY DEF ReadEntry, disk, system, rest
<1> QED BY <1>1, <1>5, <1>6, <1>7, <1>8, LooksOnlyStep

\* A backup that ends leaves the host as it is.
LEMMA SaveArchiveStep == ASSUME TypeOK, Safe, NEW a \in Actors, SaveArchive(a) PROVE Safe'
<1>1. op' = Ended(a, "ok") /\ "ok" \in Results /\ op[a].at # "xfill"
  BY DEF SaveArchive, At, Results
<1>2. UNCHANGED <<file, tmp, unit, proc, spoilt, copied>>
  BY DEF SaveArchive, disk, system
<1> QED BY <1>1, <1>2, EndStep

\* A restore that ends leaves the host as it is.
LEMMA RestoredStep == ASSUME TypeOK, Safe, NEW a \in Actors, Restored(a) PROVE Safe'
<1>1. op' = Ended(a, "ok") /\ "ok" \in Results /\ op[a].at # "xfill"
  BY DEF Restored, At, Results
<1>2. UNCHANGED <<file, tmp, unit, proc, spoilt, copied>>
  BY DEF Restored, disk, system, rest
<1> QED BY <1>1, <1>2, EndStep

\* An update that ends leaves the items as they are.
LEMMA ReplaceBinaryStep == ASSUME TypeOK, Safe, NEW a \in Actors, ReplaceBinary(a) PROVE Safe'
<1>1. op' = Ended(a, "ok") /\ "ok" \in Results /\ op[a].at # "xfill"
  BY DEF ReplaceBinary, Results
<1>2. UNCHANGED <<file, tmp, unit, proc, spoilt, copied>>
  BY DEF ReplaceBinary, disk, system, rest
<1> QED BY <1>1, <1>2, EndStep

\* What an archive is, and that it is of items.
LEMMA BackupFacts ==
  ASSUME NEW e \in Backups
  PROVE  DOMAIN e \subseteq Items /\ \A i \in DOMAIN e : e[i] \in Contents \cup {Torn}
<1>1. PICK T \in SUBSET Items : e \in [T -> Contents \cup {Torn}]
  BY DEF Backups
<1> QED BY <1>1

\* The entry's file is torn, and is known to be.
LEMMA OpenEntryStep == ASSUME TypeOK, Safe, NEW a \in Actors, OpenEntry(a) PROVE Safe'
<1>1. op[a] \in Ops /\ Placed(op[a]) /\ op[a].at = "extract" /\ op[a].kind = "restore"
  BY Doing DEF OpenEntry, At, Placed
<1>2. PICK i \in FirstOf(op[a].todo) :
        /\ file' = [file EXCEPT ![i] = Torn]
        /\ op' = [op EXCEPT ![a].at = "xfill", ![a].item = i, ![a].fd = "live", ![a].todo = @ \ {i}]
  BY DEF OpenEntry
<1>3. i \in Items /\ i \in op[a].todo /\ i \in DOMAIN op[a].arch
  BY <1>1 DEF FirstOf, Ops, Placed
<1> DEFINE p == [op[a] EXCEPT !.at = "xfill", !.item = i, !.fd = "live", !.todo = @ \ {i}]
<1>4. /\ p \in Ops /\ p.at = "xfill" /\ p.kind = op[a].kind /\ p.item = i /\ p.fd = "live"
      /\ p.todo = op[a].todo \ {i} /\ p.arch = op[a].arch
  <2>1. "xfill" \in Calls /\ "live" \in Places /\ op[a].todo \ {i} \in SUBSET Items
    BY <1>1 DEF Calls, Places, Ops
  <2> QED BY <1>1, <1>3, <2>1 DEF Ops
<1>5. Only(a, op') /\ op'[a] = p
  <2>1. op \in [Actors -> Ops] /\ op' = [op EXCEPT ![a] = p]
    BY <1>2 DEF Safe, Operations
  <2> HIDE DEF p
  <2> QED BY <1>4, <2>1 DEF Only
<1> HIDE DEF p
<1>6. UNCHANGED <<tmp, unit, proc, spoilt, copied>> /\ file \in [Items -> OnDisk]
  BY DEF OpenEntry, system, rest, TypeOK
<1>7. op' \in [Actors -> Ops] /\ \A b \in Actors \ {a} : Bystander(b)
  BY <1>5, OnlyStands
<1>8. \A j \in Items \ {i} : Kept(j)
  BY <1>2, <1>6 DEF Kept
<1>9. op[a].kind \notin {"none", "backup"} /\ {i} \subseteq Touches(op[a])
  BY <1>1, <1>3 DEF Touches
<1>10. Placed(op'[a]) /\ GoesOn(a)
  BY <1>1, <1>3, <1>4, <1>5, TouchesStay DEF Placed, GoesOn
<1>11. file'[i] = Torn
  BY <1>2, <1>3, <1>6
<1>12. Found(op[a])'
  BY <1>1, <1>4, <1>5, <1>11 DEF Found
<1>13. StillFills(a, {i})
  BY <1>1 DEF StillFills
<1>14. \A n \in {i} \cap Names : ~Orphan(n)'
  BY <1>11, ContentFacts DEF Orphan
<1>15. \A d \in {i} \cap Daemons : Whole(d)'
  BY <1>4, <1>5 DEF Whole
<1>16. {i} \in SUBSET Items
  BY <1>3
<1>17. spoilt \subseteq spoilt' /\ copied \subseteq copied'
  BY <1>6
<1> DEFINE S == {i}
<1>18. /\ S \in SUBSET Items /\ \A j \in Items \ S : Kept(j)
       /\ S # {} => op[a].kind \notin {"none", "backup"} /\ S \subseteq Touches(op[a])
       /\ StillFills(a, S) /\ (\A n \in S \cap Names : ~Orphan(n)') /\ (\A d \in S \cap Daemons : Whole(d)')
  BY <1>8, <1>9, <1>13, <1>14, <1>15, <1>16
<1> HIDE DEF S
<1> QED BY <1>7, <1>10, <1>12, <1>17, <1>18, ActorKeeps

\* Written over, the file is whole, or has come from a torn copy.
LEMMA FillEntryStep == ASSUME TypeOK, Safe, NEW a \in Actors, FillEntry(a) PROVE Safe'
<1> DEFINE i == op[a].item
           c == op[a].arch[i]
           s == IF op[a].todo = {} THEN "load" ELSE "extract"
           t == IF op[a].todo = {} THEN DOMAIN op[a].arch \ {Panel} ELSE op[a].todo
           p == [op[a] EXCEPT !.fd = "none", !.at = s, !.todo = t]
<1>1. /\ op[a] \in Ops /\ i \in Items /\ Placed(op[a]) /\ Found(op[a])
      /\ op[a].at = "xfill" /\ op[a].at \in Acting /\ op[a].kind = "restore"
  BY Doing DEF FillEntry, At, Acting, Placed
<1>2. i \in DOMAIN op[a].arch /\ op[a].todo \subseteq DOMAIN op[a].arch
  BY <1>1 DEF Placed
<1>3. DOMAIN op[a].arch \subseteq Items /\ c \in Contents \cup {Torn}
  BY <1>1, <1>2, BackupFacts DEF Ops
<1>4. s \in Calls /\ "none" \in Places /\ t \in SUBSET Items /\ t \subseteq DOMAIN op[a].arch
  BY <1>2, <1>3 DEF Calls, Places
<1>5. p \in Ops /\ p.at = s /\ p.kind = op[a].kind /\ p.item = i /\ p.todo = t /\ p.arch = op[a].arch
  <2> HIDE DEF s, t
  <2> QED BY <1>1, <1>4 DEF Ops
<1>6. Only(a, op') /\ op'[a] = p
  <2>1. op \in [Actors -> Ops] /\ op' = [op EXCEPT ![a] = p]
    BY DEF FillEntry, Safe, Operations
  <2> HIDE DEF p
  <2> QED BY <1>5, <2>1 DEF Only
<1> HIDE DEF p
<1>7. UNCHANGED <<tmp, unit, proc, spoilt>> /\ file \in [Items -> OnDisk]
  <2>1. UNCHANGED <<tmp, system, proc, spoilt>>
    BY DEF FillEntry
  <2> QED BY <2>1 DEF system, TypeOK
<1>8. copied' = IF c = Torn THEN copied \cup {i} ELSE copied
  BY DEF FillEntry
<1>9. /\ \A j \in Items \ {i} : file'[j] = file[j]
      /\ i \notin spoilt => file'[i] # NoFile /\ (file'[i] = Torn => c = Torn)
  <2>1. CASE op[a].fd = "live"
    <3>1. PICK x \in (IF c = Torn THEN {Torn} ELSE Written(file[i], c)) : file' = [file EXCEPT ![i] = x]
      BY <2>1 DEF FillEntry
    <3>2. i \notin spoilt => file[i] = Torn
      BY <1>1 DEF Found
    <3>3. x # NoFile /\ (i \notin spoilt /\ x = Torn => c = Torn)
      <4>1. CASE c = Torn
        BY <3>1, <4>1, ContentFacts
      <4>2. CASE c # Torn
        <5>1. c \in Contents /\ x \in Written(file[i], c) /\ file[i] \in OnDisk
          BY <1>1, <1>3, <1>7, <3>1, <4>2
        <5> HIDE DEF c, i
        <5> QED BY <3>2, <4>2, <5>1, WrittenIsThere
      <4> QED BY <4>1, <4>2
    <3> QED BY <1>1, <1>7, <3>1, <3>3
  <2>2. CASE op[a].fd # "live"
    BY <1>1, <2>2 DEF FillEntry, Found
  <2> QED BY <2>1, <2>2
<1>10. \A j \in Items \ {i} : Kept(j)
  BY <1>7, <1>9 DEF Kept
<1>11. Placed(op'[a]) /\ GoesOn(a)
  BY <1>1, <1>2, <1>4, <1>5, <1>6, TouchesStay DEF Placed, GoesOn
<1>12. Found(op[a])'
  BY <1>1, <1>5, <1>6 DEF Found
<1>13. /\ i \in Names => i \in spoilt' \/ file'[i] # NoFile
       /\ file'[i] # Torn \/ i \in spoilt' \cup copied'
       /\ spoilt \subseteq spoilt' /\ copied \subseteq copied'
  BY <1>7, <1>8, <1>9
<1> HIDE DEF i, c, s, t
<1> QED BY <1>1, <1>6, <1>10, <1>11, <1>12, <1>13, OnlyStands, ItemStep DEF i

\* What a restore installs next is among what it has extracted.
LEMMA LoadNextStep == ASSUME TypeOK, Safe, NEW a \in Actors, LoadNext(a) PROVE Safe'
<1>1. op[a] \in Ops /\ Placed(op[a]) /\ op[a].at = "load" /\ op[a].kind = "restore"
  BY Doing DEF LoadNext, At, Placed
<1>2. PICK i \in op[a].todo :
        op' = [op EXCEPT ![a].item = i, ![a].todo = @ \ {i},
                   ![a].cfg = IF i = Bot THEN NoFile ELSE file[i],
                   ![a].at = IF i = Bot THEN "unit" ELSE IF file[i] \in Contents THEN "open" ELSE "load"]
  BY DEF LoadNext
<1> DEFINE c == IF i = Bot THEN NoFile ELSE file[i]
           s == IF i = Bot THEN "unit" ELSE IF file[i] \in Contents THEN "open" ELSE "load"
           t == op[a].todo \ {i}
           p == [op[a] EXCEPT !.item = i, !.todo = t, !.cfg = c, !.at = s]
<1>3. i \in Items /\ i \in DOMAIN op[a].arch /\ i # Panel /\ t \subseteq DOMAIN op[a].arch /\ Panel \notin t
  BY <1>1 DEF Ops, Placed
<1>4. s \in Calls /\ t \in SUBSET Items /\ c \in OnDisk
  BY <1>1, <1>3, ContentFacts DEF Calls, Ops, TypeOK
<1>5. p \in Ops /\ p.at = s /\ p.kind = op[a].kind /\ p.item = i /\ p.cfg = c /\ p.todo = t /\ p.arch = op[a].arch
  <2> HIDE DEF s, t, c
  <2> QED BY <1>1, <1>3, <1>4 DEF Ops
<1>6. Only(a, op') /\ op'[a] = p
  <2>1. op \in [Actors -> Ops] /\ op' = [op EXCEPT ![a] = p]
    BY <1>2 DEF Safe, Operations
  <2> HIDE DEF p
  <2> QED BY <1>5, <2>1 DEF Only
<1> HIDE DEF p
<1>7. UNCHANGED <<file, tmp, unit, proc, spoilt, copied>> /\ StillFills(a, {})
  BY <1>1 DEF LoadNext, disk, system, rest, StillFills
<1>8. s = "open" => i \in Names /\ c \in Contents
  BY <1>3 DEF Items, Daemons
<1>9. s = "unit" => i \notin Names
  BY ItemFacts
<1>10. s \in {"unit", "open", "load"}
  OBVIOUS
<1> HIDE DEF s, t, c
<1>11. Placed(op'[a]) /\ GoesOn(a)
  BY <1>1, <1>3, <1>5, <1>6, <1>8, <1>10, TouchesStay DEF Placed, GoesOn
<1>12. Found(op[a])'
  BY <1>1, <1>5, <1>6, <1>7, <1>9, <1>10 DEF Found
<1> QED BY <1>6, <1>7, <1>11, <1>12, QuietStep

\* An update that looks for a release changes nothing of the items.
LEMMA CheckLatestStep == ASSUME TypeOK, Safe, NEW a \in Actors, CheckLatest(a) PROVE Safe'
<1>1. op[a] \in Ops /\ Placed(op[a]) /\ op[a].at = "check" /\ op[a].kind = "update"
  BY Doing DEF CheckLatest, At, Placed
<1>2. UNCHANGED <<file, tmp, unit, proc, spoilt, copied>>
  BY DEF CheckLatest, disk, system, rest
<1>3. CASE op' = Ended(a, "current")
  <2>1. "current" \in Results /\ op[a].at # "xfill"
    BY <1>1 DEF Results
  <2> QED BY <1>2, <1>3, <2>1, EndStep
<1>4. CASE op' = [op EXCEPT ![a].ver = latest, ![a].at = "download"]
  <2> DEFINE p == [op[a] EXCEPT !.ver = latest, !.at = "download"]
  <2>1. latest \in Releases /\ "download" \in Calls
    BY DEF TypeOK, Releases, Calls
  <2>2. p \in Ops /\ p.at = "download" /\ p.kind = op[a].kind /\ p.item = op[a].item
    BY <1>1, <2>1 DEF Ops
  <2>3. Only(a, op') /\ op'[a] = p
    <3>1. op \in [Actors -> Ops] /\ op' = [op EXCEPT ![a] = p]
      BY <1>4 DEF Safe, Operations
    <3> HIDE DEF p
    <3> QED BY <2>2, <3>1 DEF Only
  <2> HIDE DEF p
  <2>4. Placed(op'[a])
    BY <1>1, <2>2, <2>3 DEF Placed
  <2> QED BY <1>1, <1>2, <2>2, <2>3, <2>4, LooksOnlyStep
<1> QED BY <1>3, <1>4 DEF CheckLatest

\* Nor does one that downloads it.
LEMMA DownloadStep == ASSUME TypeOK, Safe, NEW a \in Actors, NEW spoil \in BOOLEAN, Download(a, spoil) PROVE Safe'
<1>1. op[a] \in Ops /\ Placed(op[a]) /\ op[a].at = "download" /\ op[a].kind = "update"
  BY Doing DEF Download, At, Placed
<1>2. UNCHANGED <<file, tmp, unit, proc, spoilt, copied>>
  BY DEF Download, disk, system, rest
<1> DEFINE g == [ver |-> latest, whole |-> ~spoil]
           p == [op[a] EXCEPT !.got = g, !.at = "verify"]
<1>3. g \in Binaries /\ "verify" \in Calls
  BY DEF TypeOK, Binaries, Calls
<1>4. p \in Ops /\ p.at = "verify" /\ p.kind = op[a].kind /\ p.item = op[a].item
  <2> HIDE DEF g
  <2> QED BY <1>1, <1>3 DEF Ops
<1>5. Only(a, op') /\ op'[a] = p
  <2>1. op \in [Actors -> Ops] /\ op' = [op EXCEPT ![a] = p]
    BY DEF Download, Safe, Operations
  <2> HIDE DEF p
  <2> QED BY <1>4, <2>1 DEF Only
<1> HIDE DEF p
<1>6. Placed(op'[a])
  BY <1>1, <1>4, <1>5 DEF Placed
<1> QED BY <1>1, <1>2, <1>4, <1>5, <1>6, LooksOnlyStep

\* Nor does one that verifies it.
LEMMA VerifyStep == ASSUME TypeOK, Safe, NEW a \in Actors, Verify(a) PROVE Safe'
<1>1. op[a] \in Ops /\ Placed(op[a]) /\ op[a].at = "verify" /\ op[a].kind = "update"
  BY Doing DEF Verify, At, Placed
<1>2. UNCHANGED <<file, tmp, unit, proc, spoilt, copied>>
  BY DEF Verify, disk, system, rest
<1>3. CASE op' = Ended(a, "refused")
  <2>1. "refused" \in Results /\ op[a].at # "xfill"
    BY <1>1 DEF Results
  <2> QED BY <1>2, <1>3, <2>1, EndStep
<1>4. ASSUME NEW s \in {"trust", "replace"}, op' = Advance(a, s) PROVE Safe'
  <2>1. s \in Calls
    BY DEF Calls
  <2>2. Only(a, op') /\ op'[a].at = s /\ op'[a].kind = op[a].kind /\ op'[a].item = op[a].item
    BY <1>4, <2>1, Advances DEF Safe
  <2>3. Placed(op'[a])
    BY <1>1, <2>2 DEF Placed
  <2> QED BY <1>1, <1>2, <2>2, <2>3, LooksOnlyStep
<1> QED BY <1>3, <1>4 DEF Verify

-----------------------------------------------------------------------------
(* What goes wrong, and what goes on by itself                                 *)

\* A step of nobody, after which some have ended.
LEMMA AllStand ==
  ASSUME Safe, op' \in [Actors -> Ops], \A b \in Actors : Bystander(b),
         \A i \in Items : Kept(i), spoilt \subseteq spoilt', copied \subseteq copied'
  PROVE  Safe'
<1>1. Shared'
  BY BystanderGoesOn, SharedKept DEF Safe
<1>2. Operations' /\ AllFound' /\ (\A n \in Names : ~Orphan(n))' /\ (\A d \in Daemons : Whole(d))'
  <2> DEFINE A == {}
             S == {}
  <2>1. /\ A \in SUBSET Actors /\ S \in SUBSET Items /\ \A i \in Items \ S : Kept(i)
        /\ \A b \in Actors \ A : /\ Bystander(b)
                                 /\ op[b].kind \in {"none", "backup"} \/ S \cap Touches(op[b]) \subseteq spoilt'
        /\ \A a \in A : Placed(op'[a]) /\ Found(op[a])' /\ StillFills(a, S)
        /\ (\A n \in S \cap Names : ~Orphan(n)') /\ (\A d \in S \cap Daemons : Whole(d)')
    OBVIOUS
  <2> HIDE DEF A, S
  <2> QED BY <2>1, Keeps DEF Safe
<1> QED BY <1>1, <1>2 DEF Safe

\* Passing over a failure changes nothing but what the report is worth.
LEMMA UnsoundIs ==
  ASSUME NEW a \in Actors, NEW p, Only(a, p), op' = [p EXCEPT ![a].sound = FALSE]
  PROVE  /\ Only(a, op') /\ op'[a].kind = p[a].kind /\ op'[a].at = p[a].at
         /\ op'[a].item = p[a].item /\ op'[a].todo = p[a].todo /\ op'[a].arch = p[a].arch
         /\ Resting(p[a]) => Resting(op'[a])
<1> DEFINE o == [p[a] EXCEPT !.sound = FALSE]
<1>1. p \in [Actors -> Ops] /\ p[a] \in Ops
  BY DEF Only
<1>2. /\ o \in Ops /\ o.kind = p[a].kind /\ o.at = p[a].at /\ o.item = p[a].item
      /\ o.todo = p[a].todo /\ o.arch = p[a].arch /\ o.got = p[a].got
  BY <1>1 DEF Ops
<1>3. op' = [p EXCEPT ![a] = o]
  BY <1>1
<1> HIDE DEF o
<1>4. op' \in [Actors -> Ops] /\ op'[a] = o /\ \A b \in Actors \ {a} : op'[b] = p[b]
  BY <1>1, <1>2, <1>3
<1> QED BY <1>2, <1>4 DEF Only, Resting

\* A removal that passes over a failed stop or disable has spoilt the item.
LEMMA PassedOver ==
  ASSUME Safe, NEW a \in Actors, op[a].at \in {"stop", "disable"}, NEW s \in {"disable", "rmunit"},
         op' = [Advance(a, s) EXCEPT ![a].sound = FALSE],
         UNCHANGED <<file, tmp, unit, proc, copied>>, spoilt \cup {op[a].item} \subseteq spoilt'
  PROVE  Safe'
<1>1. /\ op[a] \in Ops /\ op[a].item \in Items /\ Placed(op[a]) /\ Found(op[a])
      /\ op[a].kind \in {"remove", "disable", "uninstall"}
  BY Doing DEF Placed
<1>2. s \in Calls
  BY DEF Calls
<1>3. Only(a, Advance(a, s)) /\ Advance(a, s)[a] = [op[a] EXCEPT !.at = s]
  BY <1>2, AdvanceIs DEF Safe
<1>4. /\ Only(a, op') /\ op'[a].at = s /\ op'[a].kind = op[a].kind /\ op'[a].item = op[a].item
      /\ op'[a].todo = op[a].todo /\ op'[a].arch = op[a].arch
  <2> DEFINE p == Advance(a, s)
  <2>1. Only(a, p) /\ p[a] = [op[a] EXCEPT !.at = s] /\ op' = [p EXCEPT ![a].sound = FALSE]
    BY <1>3
  <2> HIDE DEF p
  <2>2. /\ p[a].at = s /\ p[a].kind = op[a].kind /\ p[a].item = op[a].item
        /\ p[a].todo = op[a].todo /\ p[a].arch = op[a].arch
    BY <1>1, <1>2, <2>1, NextCall
  <2>3. /\ Only(a, op') /\ op'[a].at = p[a].at /\ op'[a].kind = p[a].kind /\ op'[a].item = p[a].item
        /\ op'[a].todo = p[a].todo /\ op'[a].arch = p[a].arch
    BY <2>1, UnsoundIs
  <2> QED BY <2>2, <2>3
<1>5. Placed(op'[a]) /\ GoesOn(a)
  BY <1>1, <1>4, TouchesStay DEF Placed, GoesOn
<1>6. op[a].kind = "uninstall" =>
        \A n \in Names \ spoilt' : n \in op'[a].todo \/ Clear(n)' \/ Removing(op'[a], n)
  <2>1. \A j \in Items : Kept(j)
    BY DEF Kept
  <2> QED BY <1>1, <1>4, <2>1, UninstallGoesOn
<1>7. Found(op[a])'
  BY <1>1, <1>4, <1>6 DEF Found, Removing
<1>8. StillFills(a, {})
  BY DEF StillFills
<1> QED BY <1>4, <1>5, <1>7, <1>8, QuietStep

\* Whatever call fails, what it has left half done is known.
LEMMA CallFailsStep == ASSUME TypeOK, Safe, NEW a \in Actors, CallFails(a) PROVE Safe'
<1> DEFINE o == op[a]
<1>1. a \in Busy /\ o \in Ops /\ Placed(o) /\ Found(o) /\ o.item \in Items
  BY Doing DEF CallFails
<1>2. /\ UNCHANGED <<file, tmp, unit, proc, copied>> /\ spoilt \cup Cut({a}) \subseteq spoilt'
      /\ o.at \in {"stop", "disable", "rmunit", "rmconf"} => o.item \in spoilt'
  BY DEF CallFails, disk, system, rest
<1>3. o.at = "xfill" => o.item \in spoilt'
  <2> DEFINE who == {a}
  <2>1. who \in SUBSET Busy /\ spoilt \cup Cut(who) \subseteq spoilt' /\ a \in who
    BY <1>1, <1>2
  <2> HIDE DEF who
  <2> QED BY <2>1, KilledFills DEF Safe
<1>4. StillFills(a, {})
  BY <1>3 DEF StillFills
<1>5. \A j \in Items : Kept(j)
  BY <1>2 DEF Kept
<1>6. CASE /\ o.at \in {"open", "fill", "tmp", "tmpfill", "rename", "unit", "enable", "restart"}
           /\ op' = Failed(a)
  <2>1. Only(a, op')
    BY <1>6, FailedIs DEF Safe
  <2>2. Placed(op'[a]) /\ Found(op[a])' /\ GoesOn(a)
    BY <1>6, GivesUp
  <2> QED BY <1>2, <1>4, <2>1, <2>2, QuietStep
<1>7. CASE op' = Ended(a, "failed")
  <2>1. Only(a, op') /\ Resting(op'[a])
    BY <1>7, EndedIs DEF Safe, Results
  <2> QED BY <1>2, <1>4, <2>1, Rests, QuietStep
<1>8. CASE o.at = "stop" /\ op' = [Advance(a, "disable") EXCEPT ![a].sound = FALSE]
  BY <1>2, <1>8, PassedOver
<1>9. CASE o.at = "disable" /\ op' = [Advance(a, "rmunit") EXCEPT ![a].sound = FALSE]
  BY <1>2, <1>9, PassedOver
<1>10. CASE o.at = "rmunit" /\ op' = [UnitRemoved(a, "ok") EXCEPT ![a].sound = FALSE]
  <2>0. "ok" \in Results
    BY DEF Results
  <2>1. Only(a, UnitRemoved(a, "ok"))
    BY <2>0, UnitRemovedIs DEF Safe
  <2>2. /\ Only(a, op') /\ op'[a].at = UnitRemoved(a, "ok")[a].at /\ op'[a].kind = UnitRemoved(a, "ok")[a].kind
        /\ op'[a].item = UnitRemoved(a, "ok")[a].item /\ op'[a].todo = UnitRemoved(a, "ok")[a].todo
        /\ Resting(UnitRemoved(a, "ok")[a]) => Resting(op'[a])
    BY <1>10, <2>1, UnsoundIs
  <2>3. Placed(op'[a]) /\ Found(op[a])' /\ GoesOn(a)
    BY <1>2, <1>5, <1>10, <2>0, <2>2, UnitIsRemoved
  <2> QED BY <1>2, <1>4, <2>2, <2>3, QuietStep
<1>11. CASE o.at \in {"rmconf", "nudge"} /\ op' = [Removed(a, "ok") EXCEPT ![a].sound = FALSE]
  <2>0. "ok" \in Results
    BY DEF Results
  <2>1. Only(a, Removed(a, "ok"))
    BY <2>0, RemovedIs DEF Safe
  <2>2. /\ Only(a, op') /\ op'[a].at = Removed(a, "ok")[a].at /\ op'[a].kind = Removed(a, "ok")[a].kind
        /\ op'[a].item = Removed(a, "ok")[a].item /\ op'[a].todo = Removed(a, "ok")[a].todo
        /\ Resting(Removed(a, "ok")[a]) => Resting(op'[a])
    BY <1>11, <2>1, UnsoundIs
  <2>3. o.item \in Names => o.item \in spoilt'
    BY <1>1, <1>2, <1>11, ItemFacts DEF Placed
  <2>4. Placed(op'[a]) /\ Found(op[a])' /\ GoesOn(a)
    BY <1>2, <1>5, <1>11, <2>0, <2>2, <2>3, ItemIsRemoved
  <2> QED BY <1>2, <1>4, <2>2, <2>4, QuietStep
<1>12. CASE /\ o.at = "read"
            /\ \E i \in FirstOf(o.todo) : op' = [[op EXCEPT ![a].todo = @ \ {i}] EXCEPT ![a].sound = FALSE]
  <2>1. PICK i : op' = [[op EXCEPT ![a].todo = @ \ {i}] EXCEPT ![a].sound = FALSE]
    BY <1>12
  <2> DEFINE q == [op EXCEPT ![a].todo = @ \ {i}]
             p == [o EXCEPT !.todo = @ \ {i}]
  <2>2. p \in Ops /\ p.at = o.at /\ p.kind = o.kind /\ p.item = o.item /\ p.arch = o.arch
    <3>1. o.todo \ {i} \in SUBSET Items
      BY <1>1 DEF Ops
    <3> QED BY <1>1, <3>1 DEF Ops
  <2>3. q = [op EXCEPT ![a] = p] /\ op \in [Actors -> Ops]
    BY DEF Safe, Operations
  <2> HIDE DEF p
  <2>4. Only(a, q) /\ q[a] = p
    <3> HIDE DEF q
    <3> QED BY <2>2, <2>3 DEF Only
  <2>5. op' = [q EXCEPT ![a].sound = FALSE]
    BY <2>1
  <2> HIDE DEF q
  <2>6. /\ Only(a, op') /\ op'[a].at = "read" /\ op'[a].kind = o.kind /\ op'[a].item = o.item
        /\ op'[a].arch = o.arch
    BY <1>12, <2>2, <2>4, <2>5, UnsoundIs
  <2>7. o.kind = "backup"
    BY <1>1, <1>12 DEF Placed
  <2>8. Placed(op'[a]) /\ GoesOn(a)
    BY <2>6, <2>7, TouchesStay DEF Placed, GoesOn
  <2>9. Found(op[a])'
    BY <2>6, <2>7 DEF Found
  <2> QED BY <1>2, <1>4, <2>6, <2>8, <2>9, QuietStep
<1>13. CASE o.at = "rmbin" /\ op' = [Ended(a, "ok") EXCEPT ![a].sound = FALSE]
  <2>1. Only(a, Ended(a, "ok")) /\ Resting(Ended(a, "ok")[a])
    BY EndedIs DEF Safe, Results
  <2>2. Only(a, op') /\ Resting(op'[a])
    BY <1>13, <2>1, UnsoundIs
  <2> QED BY <1>2, <1>4, <2>2, Rests, QuietStep
<1> HIDE DEF o
<1> QED BY <1>6, <1>7, <1>8, <1>9, <1>10, <1>11, <1>12, <1>13 DEF CallFails, o

\* What a purge that fails leaves is the files of some items, and only those
\* that are spoilt have more than files by then.
LEMMA PurgeFailsStep == ASSUME TypeOK, Safe, NEW a \in Actors, PurgeFails(a) PROVE Safe'
<1> DEFINE o == [Advance(a, "rmbin") EXCEPT ![a].sound = FALSE]
           p == [op[a] EXCEPT !.at = "rmbin", !.sound = FALSE]
<1>1. /\ op[a] \in Ops /\ Placed(op[a]) /\ Found(op[a]) /\ op[a].at = "purge"
      /\ op[a].kind = "uninstall" /\ op[a].todo = {}
  BY Doing DEF PurgeFails, At, Placed
<1>2. PICK S \in SUBSET Items :
        /\ file' = [i \in Items |-> IF i \in S THEN NoFile ELSE file[i]]
        /\ tmp' = [d \in Daemons |-> IF d \in S THEN NoFile ELSE tmp[d]]
        /\ op' = Unlinked(o, S)
  BY DEF PurgeFails
<1>3. UNCHANGED <<unit, proc, spoilt, copied>>
  BY DEF PurgeFails, system, rest
<1>4. p \in Ops /\ p.at = "rmbin" /\ p.kind = op[a].kind /\ p.item = op[a].item /\ p.todo = op[a].todo
  BY <1>1 DEF Ops, Calls
<1>5. op \in [Actors -> Ops] /\ o = [op EXCEPT ![a] = p]
  <2>1. op \in [Actors -> Ops]
    BY DEF Safe, Operations
  <2> QED BY <2>1 DEF Advance
<1>6. Only(a, o) /\ o[a] = p
  <2> HIDE DEF p, o
  <2> QED BY <1>4, <1>5 DEF Only
<1>7. Items \subseteq Touches(op[a]) /\ op[a].kind \notin {"none", "backup"}
  BY <1>1, Touched
<1>8. /\ op' \in [Actors -> Ops] /\ \A b \in Actors \ {a} : Bystander(b)
      /\ Same(op'[a], o[a])
  <2> HIDE DEF o
  <2> QED BY <1>2, <1>3, <1>6, <1>7, UnlinkedStands DEF Safe
<1>9. op'[a].at = "rmbin" /\ op'[a].kind = op[a].kind /\ op'[a].item = op[a].item /\ op'[a].todo = op[a].todo
  <2> HIDE DEF o, p
  <2> QED BY <1>4, <1>6, <1>8 DEF Same
<1>10. Placed(op'[a]) /\ GoesOn(a)
  BY <1>1, <1>9, TouchesStay DEF Placed, GoesOn
<1>11. \A n \in Names \ spoilt' : Clear(n)'
  BY <1>1, <1>3 DEF Found, Clear, Removing
<1>12. Found(op[a])'
  BY <1>1, <1>9, <1>11 DEF Found
<1>13. /\ \A n \in S \cap Names : ~Orphan(n)'
       /\ \A d \in S \cap Daemons : Whole(d)'
  BY <1>2, <1>11, ContentFacts DEF Orphan, Whole
<1>14. StillFills(a, S)
  BY <1>1 DEF StillFills
<1>15. \A i \in Items \ S : Kept(i)
  BY <1>2, <1>3 DEF Kept
<1> HIDE DEF o, p
<1> QED BY <1>3, <1>7, <1>8, <1>10, <1>12, <1>13, <1>14, <1>15, ActorKeeps

\* Whoever is cut short, and whatever runs of what is installed, nothing of an
\* item is made or undone.
LEMMA KilledStep ==
  ASSUME Safe, NEW who \in SUBSET Busy, op' = Killed(op, who), spoilt \cup Cut(who) \subseteq spoilt',
         \A i \in Items : Kept(i), UNCHANGED copied
  PROVE  Safe'
<1>1. op \in [Actors -> Ops]
  BY DEF Safe, Operations
<1>2. /\ op' \in [Actors -> Ops]
      /\ \A b \in Actors : IF b \in who THEN Resting(op'[b]) ELSE op'[b] = op[b]
  BY <1>1, KilledAre
<1>3. ASSUME NEW b \in Actors PROVE Bystander(b)
  <2>1. op'[b] \in Ops /\ IF b \in who THEN Resting(op'[b]) ELSE Same(op'[b], op[b]) /\ op'[b].fd = op[b].fd
    BY <1>2 DEF Same
  <2> QED BY <2>1, KilledIsBystander DEF Safe
<1> QED BY <1>2, <1>3, AllStand

\* Whoever is cut short, what it was writing is known to be torn.
LEMMA CutShortStep == ASSUME TypeOK, Safe, NEW a \in Actors, CutShort(a) PROVE Safe'
<1> DEFINE who == {a}
<1>1. /\ who \in SUBSET Busy /\ op' = Killed(op, who) /\ spoilt \cup Cut(who) \subseteq spoilt'
      /\ UNCHANGED <<file, tmp, unit, proc, copied>>
  BY DEF CutShort, disk, system, rest
<1> HIDE DEF who
<1>2. \A i \in Items : Kept(i)
  BY <1>1 DEF Kept
<1> QED BY <1>1, <1>2, KilledStep

\* A process that crashes is started again and ends the requests it served.
LEMMA CrashStep == ASSUME TypeOK, Safe, NEW i \in Items, Crash(i) PROVE Safe'
<1> DEFINE who == ServedBy(i)
<1>1. /\ who \in SUBSET Busy /\ op' = Killed(op, who) /\ spoilt \cup Cut(who) \subseteq spoilt'
      /\ UNCHANGED <<file, tmp, unit, copied>>
      /\ proc' = [proc EXCEPT ![i] = Start(i)] /\ proc[i].run = "up"
  BY DEF Crash, SetProc, ServedBy, disk, system, rest
<1> HIDE DEF who
<1>2. \A j \in Items : Kept(j)
  BY <1>1 DEF Kept, TypeOK
<1> QED BY <1>1, <1>2, KilledStep

\* Everyone is cut short, and only what has a unit starts.
LEMMA RebootStep == ASSUME TypeOK, Safe, Reboot PROVE Safe'
<1>1. /\ op' = Killed(op, Busy) /\ spoilt \cup Cut(Busy) \subseteq spoilt'
      /\ UNCHANGED <<file, tmp, unit, copied>>
      /\ \A i \in Items \ unit : proc'[i] = Off
  BY DEF Reboot, disk, system, rest
<1>2. /\ op \in [Actors -> Ops] /\ op' \in [Actors -> Ops]
      /\ \A b \in Actors : IF b \in Busy THEN Resting(op'[b]) ELSE op'[b] = op[b]
  <2>1. op \in [Actors -> Ops]
    BY DEF Safe, Operations
  <2> QED BY <1>1, <2>1, KilledAre
<1>3. ASSUME NEW b \in Actors PROVE Placed(op'[b]) /\ Found(op[b])' /\ GoesOn(b)
  <2>1. CASE b \in Busy
    BY <1>2, <2>1, Rests
  <2>2. CASE b \notin Busy
    <3>1. op'[b] = op[b] /\ op[b].kind = "none" /\ Placed(op[b]) /\ op[b].at = "end"
      BY <1>2, <2>2, Doing DEF Busy, Placed
    <3> QED BY <3>1, TouchesStay DEF Found, GoesOn
  <2> QED BY <2>1, <2>2
<1>4. Shared'
  BY <1>1, <1>3, SharedKept DEF Safe
<1>5. ASSUME NEW n \in Names PROVE ~Orphan(n)'
  <2>1. n \in Items /\ Off.run = "off"
    BY ItemFacts DEF Off
  <2> QED BY <1>1, <2>1 DEF Safe, Orphan, Clear
<1>6. ASSUME NEW d \in Daemons PROVE Whole(d)'
  <2>1. ASSUME NEW b \in Actors, op[b].at = "xfill", op[b].item = d PROVE d \in spoilt'
    <3>1. b \in Busy
      BY <2>1, Doing DEF Busy, Placed
    <3> QED BY <1>1, <2>1, <3>1, KilledFills DEF Safe
  <2> QED BY <1>1, <2>1 DEF Safe, Whole
<1> QED BY <1>2, <1>3, <1>4, <1>5, <1>6 DEF Safe, Operations, AllFound

\* Nobody's operation is at another call.
LEMMA NobodyStep ==
  ASSUME Safe, UNCHANGED <<op, file, tmp, unit, spoilt, copied>>, \A i \in Items : Kept(i)
  PROVE  Safe'
<1>1. op' \in [Actors -> Ops] /\ \A b \in Actors : Bystander(b)
  BY DEF Safe, Operations, Bystander, Same
<1> QED BY <1>1, AllStand

\* systemd only starts again what it has started before.
LEMMA RetryStep == ASSUME TypeOK, Safe, NEW i \in Items, Retry(i) PROVE Safe'
<1>1. UNCHANGED <<op, file, tmp, unit, spoilt, copied>>
  BY DEF Retry, disk, system, rest
<1>2. proc' = [proc EXCEPT ![i] = Start(i)] /\ proc[i].run = "failing"
  BY DEF Retry
<1>3. \A j \in Items : Kept(j)
  BY <1>1, <1>2 DEF Kept, TypeOK
<1> QED BY <1>1, <1>3, NobodyStep

\* A release changes nothing on the host, and of an update only what its report
\* is worth.
LEMMA ReleaseStep == ASSUME TypeOK, Safe, Release PROVE Safe'
<1>1. UNCHANGED <<file, tmp, unit, proc, spoilt, copied>>
  BY DEF Release, disk, system
<1>2. \A j \in Items : Kept(j)
  BY <1>1 DEF Kept
<1>3. \A b \in Actors : op'[b] = IF At(b, "download") THEN [op[b] EXCEPT !.sound = FALSE] ELSE op[b]
  BY DEF Release
<1>4. op \in [Actors -> Ops]
  BY DEF Safe, Operations
<1>5. ASSUME NEW b \in Actors PROVE op'[b] \in Ops /\ Same(op'[b], op[b]) /\ op'[b].fd = op[b].fd
  <2>1. op[b] \in Ops
    BY <1>4
  <2>2. CASE At(b, "download")
    <3>1. op'[b] = [op[b] EXCEPT !.sound = FALSE]
      BY <1>3, <2>2
    <3> QED BY <2>1, <3>1 DEF Ops, Same
  <2>3. CASE ~At(b, "download")
    <3>1. op'[b] = op[b]
      BY <1>3, <2>3
    <3> QED BY <2>1, <3>1 DEF Same
  <2> QED BY <2>2, <2>3
<1>6. op' \in [Actors -> Ops]
  BY <1>5 DEF Release
<1>7. \A b \in Actors : Bystander(b)
  BY <1>5 DEF Bystander
<1> QED BY <1>1, <1>2, <1>6, <1>7, AllStand

-----------------------------------------------------------------------------
(* Starting an operation                                                       *)

\* What an operation is when it begins.
Opens(a, o) ==
  /\ Begin(a, o) /\ Placed(o) /\ o.kind # "none" /\ o.got = NoBinary
  /\ o.at \in {"open", "tmp", "stop", "ask", "read", "extract", "check"}
  /\ o.kind = "uninstall" => List \subseteq o.todo

\* An operation that is started finds what it will work on in order.
LEMMA BeginStep ==
  ASSUME TypeOK, Safe, NEW a \in Actors, NEW o \in Ops, Opens(a, o)
  PROVE  Safe'
<1>0. /\ Begin(a, o) /\ Placed(o) /\ o.kind # "none"
      /\ o.at \in {"open", "tmp", "stop", "ask", "read", "extract", "check"}
      /\ o.kind = "uninstall" => List \subseteq o.todo
  BY DEF Opens
<1> DEFINE others == {b \in Busy : Clash(o, op[b]) # {}}
<1>1. a \notin Busy /\ op \in [Actors -> Ops] /\ op[a].kind = "none" /\ op[a].at = "end"
  BY <1>0, Doing DEF Begin, Busy, Placed, Safe, Operations
<1>2. /\ op' = [b \in Actors |->
                  IF b = a THEN [o EXCEPT !.sound = (others = {})]
                  ELSE [op[b] EXCEPT !.sound = @ /\ b \notin others]]
      /\ spoilt' = spoilt \cup UNION {Spoils(o, op[b]) : b \in others}
      /\ UNCHANGED <<file, tmp, unit, proc, copied>>
  BY <1>0 DEF Begin, disk, system, rest
<1>3. /\ op'[a] \in Ops /\ Same(op'[a], o)
  BY <1>2 DEF Ops, Same
<1>4. ASSUME NEW b \in Actors \ {a}
      PROVE  op'[b] \in Ops /\ Same(op'[b], op[b]) /\ op'[b].fd = op[b].fd
  <2>1. op[b] \in Ops /\ op'[b] = [op[b] EXCEPT !.sound = @ /\ b \notin others]
    BY <1>1, <1>2
  <2>2. (op[b].sound /\ b \notin others) \in BOOLEAN
    OBVIOUS
  <2> HIDE DEF others
  <2> QED BY <2>1, <2>2 DEF Ops, Same
<1>5. op' \in [Actors -> Ops]
  <2>1. \A b \in Actors : op'[b] \in Ops
    BY <1>3, <1>4
  <2> HIDE DEF others
  <2> QED BY <1>2, <2>1
<1>6. \A b \in Actors \ {a} : Bystander(b)
  BY <1>4 DEF Bystander
<1>7. \A i \in Items : Kept(i)
  BY <1>2 DEF Kept
<1>8. spoilt \subseteq spoilt' /\ copied \subseteq copied'
  BY <1>2
<1>9. Placed(op'[a])
  BY <1>0, <1>3 DEF Same, Placed
<1>10. Found(op[a])'
  <2>1. /\ op'[a].at \in {"open", "tmp", "stop", "ask", "read", "extract", "check"}
        /\ op'[a].kind = o.kind /\ op'[a].todo = o.todo
    BY <1>0, <1>3 DEF Same
  <2>2. ASSUME o.kind = "uninstall", NEW n \in Names \ spoilt'
        PROVE  n \in op'[a].todo \/ Clear(n)'
    <3>1. n \in List \/ Clear(n)
      BY <1>8 DEF Safe, Orphan, List
    <3> QED BY <1>0, <1>2, <2>1, <2>2, <3>1 DEF Clear
  <2> QED BY <2>1, <2>2 DEF Found
<1>11. ASSUME NEW b \in Busy, b # a, "backup" \notin {o.kind, op[b].kind}
       PROVE  Clash(o, op[b]) \subseteq spoilt'
  <2>1. CASE Clash(o, op[b]) = {}
    BY <2>1
  <2>2. CASE Clash(o, op[b]) # {}
    <3>1. b \in others /\ Spoils(o, op[b]) = Clash(o, op[b])
      BY <1>11, <2>2 DEF Spoils
    <3> HIDE DEF others
    <3> QED BY <1>2, <3>1
  <2> QED BY <2>1, <2>2
<1> HIDE DEF others
<1>12. Shared'
  <2> SUFFICES ASSUME NEW b \in Busy', NEW c \in Busy', b # c, "backup" \notin {op'[b].kind, op'[c].kind}
               PROVE  Clash(op'[b], op'[c]) \subseteq spoilt'
    BY DEF Shared
  <2>1. Touches(op'[a]) = Touches(o) /\ op'[a].kind = o.kind
    BY <1>3, SameTouches DEF Same
  <2>2. ASSUME NEW x \in Busy', x # a
        PROVE  x \in Busy /\ Touches(op'[x]) = Touches(op[x]) /\ op'[x].kind = op[x].kind
    BY <1>4, <2>2, SameTouches DEF Same, Busy
  <2>3. CASE b = a
    BY <1>11, <2>1, <2>2, <2>3 DEF Clash
  <2>4. CASE c = a
    BY <1>11, <2>1, <2>2, <2>4 DEF Clash
  <2>5. CASE b # a /\ c # a
    <3>1. Clash(op[b], op[c]) \subseteq spoilt
      BY <2>2, <2>5 DEF Safe, Shared
    <3> QED BY <1>8, <2>2, <2>5, <3>1 DEF Clash
  <2> QED BY <2>3, <2>4, <2>5
<1>13. Operations' /\ AllFound' /\ (\A n \in Names : ~Orphan(n))' /\ (\A d \in Daemons : Whole(d))'
  <2> DEFINE A == {a}
             S == {}
  <2>1. /\ A \in SUBSET Actors /\ S \in SUBSET Items /\ \A i \in Items \ S : Kept(i)
        /\ \A b \in Actors \ A : /\ Bystander(b)
                                 /\ op[b].kind \in {"none", "backup"} \/ S \cap Touches(op[b]) \subseteq spoilt'
        /\ (\A n \in S \cap Names : ~Orphan(n)') /\ (\A d \in S \cap Daemons : Whole(d)')
    BY <1>6, <1>7
  <2>2. \A x \in A : Placed(op'[x]) /\ Found(op[x])' /\ StillFills(x, S)
    BY <1>1, <1>9, <1>10 DEF StillFills
  <2> HIDE DEF A, S
  <2> QED BY <1>5, <1>8, <2>1, <2>2, Keeps DEF Safe
<1> QED BY <1>12, <1>13 DEF Safe

\* What a new operation is.
LEMMA NewIs ==
  ASSUME NEW k \in Kinds, NEW s \in Calls, NEW i \in Items, NEW c \in OnDisk
  PROVE  /\ New(k, s, i, c) \in Ops /\ New(k, s, i, c).kind = k /\ New(k, s, i, c).at = s
         /\ New(k, s, i, c).item = i /\ New(k, s, i, c).cfg = c /\ New(k, s, i, c).got = NoBinary
<1>1. 0 \in Releases
  BY ServicesAssumption DEF Releases
<1>2. Idle \in Ops
  BY <1>1, Blank, EmptyBackup, NoBinaryType DEF Idle
<1>3. Idle.got = NoBinary
  BY DEF Idle
<1> HIDE DEF Idle
<1> QED BY <1>2, <1>3 DEF New, Ops

\* Where a menu or a request runs.
LEMMA HostsAre ==
  ASSUME NEW a \in Actors, NEW k, NEW d \in Hosts(a, k)
  PROVE  d \in Daemons \cup {"menu"} /\ (d # "menu" => d \in Daemons /\ MayServe(d, k))
BY DEF Hosts

\* Whatever is started is so.
LEMMA StartsOpen ==
  ASSUME TypeOK, NEW a \in Actors, Starts(a),
         ~ \E verb \in {"start", "stop", "restart"}, i \in Items : Control(a, verb, i)
  PROVE  \E o \in Ops : Opens(a, o)
<1> USE ItemFacts, ContentFacts
<1>1. ASSUME NEW n \in Names, NEW c \in Contents, CreateTunnel(a, n, c) PROVE \E o \in Ops : Opens(a, o)
  <2> DEFINE o == New("create", "open", n, c)
  <2>1. "create" \in Kinds /\ "open" \in Calls
    BY DEF Kinds, Calls
  <2>2. o \in Ops /\ o.kind = "create" /\ o.at = "open" /\ o.item = n /\ o.cfg = c /\ o.got = NoBinary
    BY <2>1, NewIs
  <2>3. Begin(a, o)
    BY <1>1 DEF CreateTunnel
  <2> HIDE DEF o
  <2>4. Placed(o)
    BY <2>2 DEF Placed
  <2> QED BY <2>2, <2>3, <2>4 DEF Opens
<1>2. ASSUME NEW d \in Daemons, NEW c \in Contents, SetUp(a, d, c) PROVE \E o \in Ops : Opens(a, o)
  <2> DEFINE o == New("setup", "tmp", d, c)
  <2>1. "setup" \in Kinds /\ "tmp" \in Calls
    BY DEF Kinds, Calls
  <2>2. o \in Ops /\ o.kind = "setup" /\ o.at = "tmp" /\ o.item = d /\ o.cfg = c /\ o.got = NoBinary
    BY <2>1, NewIs
  <2>3. Begin(a, o)
    BY <1>2 DEF SetUp
  <2> HIDE DEF o
  <2>4. Placed(o)
    BY <2>2 DEF Placed
  <2> QED BY <2>2, <2>3, <2>4 DEF Opens
<1>3. ASSUME NEW c \in Contents, SetThresholds(a, c) PROVE \E o \in Ops : Opens(a, o)
  <2> DEFINE o == New("thresholds", "tmp", Bot, c)
  <2>1. "thresholds" \in Kinds /\ "tmp" \in Calls
    BY DEF Kinds, Calls
  <2>2. o \in Ops /\ o.kind = "thresholds" /\ o.at = "tmp" /\ o.item = Bot /\ o.cfg = c /\ o.got = NoBinary
    BY <2>1, NewIs
  <2>3. Begin(a, o)
    BY <1>3 DEF SetThresholds
  <2> HIDE DEF o
  <2>4. Placed(o)
    BY <2>2 DEF Placed
  <2> QED BY <2>2, <2>3, <2>4 DEF Opens
<1>4. ASSUME NEW n \in Names, RemoveTunnel(a, n) PROVE \E o \in Ops : Opens(a, o)
  <2> DEFINE o == New("remove", "stop", n, NoFile)
  <2>1. "remove" \in Kinds /\ "stop" \in Calls
    BY DEF Kinds, Calls
  <2>2. o \in Ops /\ o.kind = "remove" /\ o.at = "stop" /\ o.got = NoBinary
    BY <2>1, NewIs
  <2>3. Begin(a, o)
    BY <1>4 DEF RemoveTunnel
  <2> HIDE DEF o
  <2>4. Placed(o)
    BY <2>2 DEF Placed
  <2> QED BY <2>2, <2>3, <2>4 DEF Opens
<1>5. ASSUME NEW d \in Daemons, DisableDaemon(a, d) PROVE \E o \in Ops : Opens(a, o)
  <2> DEFINE o == New("disable", "stop", d, NoFile)
  <2>1. "disable" \in Kinds /\ "stop" \in Calls
    BY DEF Kinds, Calls
  <2>2. o \in Ops /\ o.kind = "disable" /\ o.at = "stop" /\ o.got = NoBinary
    BY <2>1, NewIs
  <2>3. Begin(a, o)
    BY <1>5 DEF DisableDaemon
  <2> HIDE DEF o
  <2>4. Placed(o)
    BY <2>2 DEF Placed
  <2> QED BY <2>2, <2>3, <2>4 DEF Opens
<1>6. CASE Uninstall(a)
  <2> DEFINE w == New("uninstall", "ask", Panel, NoFile)
             t == List \cup Daemons
             o == [w EXCEPT !.todo = t]
  <2>1. "uninstall" \in Kinds /\ "ask" \in Calls /\ t \in SUBSET Items
    BY DEF Kinds, Calls, List
  <2>2. w \in Ops /\ w.kind = "uninstall" /\ w.at = "ask" /\ w.got = NoBinary
    BY <2>1, NewIs
  <2>3. Begin(a, o) /\ List \subseteq t
    BY <1>6 DEF Uninstall
  <2> HIDE DEF w, t
  <2>4. o \in Ops /\ o.kind = "uninstall" /\ o.at = "ask" /\ o.got = NoBinary /\ o.todo = t
    BY <2>1, <2>2 DEF Ops
  <2> HIDE DEF o
  <2>5. Placed(o)
    BY <2>4 DEF Placed
  <2> QED BY <2>3, <2>4, <2>5 DEF Opens
<1>7. ASSUME NEW d, Backup(a, d) PROVE \E o \in Ops : Opens(a, o)
  <2> DEFINE w == New("backup", "read", Panel, NoFile)
             t == {i \in Items : file[i] # NoFile}
             o == [w EXCEPT !.by = d, !.todo = t]
  <2>1. "backup" \in Kinds /\ "read" \in Calls /\ t \in SUBSET Items /\ d \in Daemons \cup {"menu"}
    BY <1>7, HostsAre DEF Kinds, Calls, Backup
  <2>2. w \in Ops /\ w.kind = "backup" /\ w.at = "read" /\ w.got = NoBinary
    BY <2>1, NewIs
  <2>3. Begin(a, o)
    BY <1>7 DEF Backup
  <2> HIDE DEF w, t
  <2>4. o \in Ops /\ o.kind = "backup" /\ o.at = "read" /\ o.got = NoBinary
    BY <2>1, <2>2 DEF Ops
  <2> HIDE DEF o
  <2>5. Placed(o)
    BY <2>4 DEF Placed
  <2> QED BY <2>3, <2>4, <2>5 DEF Opens
<1>8. ASSUME NEW d, Restore(a, d) PROVE \E o \in Ops : Opens(a, o)
  <2> DEFINE w == New("restore", "extract", Panel, NoFile)
             t == DOMAIN archive
             o == [w EXCEPT !.by = d, !.arch = archive, !.todo = t]
  <2>1. /\ "restore" \in Kinds /\ "extract" \in Calls /\ t \in SUBSET Items
        /\ d \in Daemons \cup {"menu"} /\ archive \in Backups
    BY <1>8, HostsAre, BackupFacts DEF Kinds, Calls, Restore, TypeOK
  <2>2. w \in Ops /\ w.kind = "restore" /\ w.at = "extract" /\ w.got = NoBinary
    BY <2>1, NewIs
  <2>3. Begin(a, o)
    BY <1>8 DEF Restore
  <2> HIDE DEF w
  <2>4. o \in Ops /\ o.kind = "restore" /\ o.at = "extract" /\ o.got = NoBinary /\ o.arch = archive /\ o.todo = DOMAIN archive
    BY <2>1, <2>2 DEF Ops
  <2> HIDE DEF o, t
  <2>5. Placed(o)
    BY <2>4 DEF Placed
  <2> QED BY <2>3, <2>4, <2>5 DEF Opens
<1>9. ASSUME NEW d, Update(a, d) PROVE \E o \in Ops : Opens(a, o)
  <2>1. PICK v \in IF d = "menu" THEN 1 .. latest ELSE {proc[d].ver} :
          Begin(a, [New("update", "check", Panel, NoFile) EXCEPT !.by = d, !.ver = v])
    BY <1>9 DEF Update
  <2>2. /\ "update" \in Kinds /\ "check" \in Calls
        /\ d \in Daemons \cup {"menu"} /\ (d # "menu" => d \in Daemons /\ MayServe(d, "update"))
    BY <1>9, HostsAre DEF Kinds, Calls, Update
  <2>3. v \in Releases
    <3>1. CASE d = "menu"
      BY <2>1, <3>1, ServicesAssumption DEF TypeOK, Releases
    <3>2. CASE d # "menu"
      <4>1. proc[d] \in {Off, Failing} \cup {Up(c, r) : c \in Contents, r \in 1 .. MaxVersion}
        BY <2>2, <3>2 DEF TypeOK
      <4>2. proc[d].ver \in Releases
        BY <4>1, ServicesAssumption DEF Off, Failing, Up, Releases
      <4> QED BY <2>1, <3>2, <4>2
    <3> QED BY <3>1, <3>2
  <2> DEFINE w == New("update", "check", Panel, NoFile)
             o == [w EXCEPT !.by = d, !.ver = v]
  <2>4. w \in Ops /\ w.kind = "update" /\ w.at = "check" /\ w.got = NoBinary
    BY <2>2, NewIs
  <2>5. Begin(a, o)
    BY <2>1
  <2> HIDE DEF w
  <2>6. o \in Ops /\ o.kind = "update" /\ o.at = "check" /\ o.got = NoBinary
    BY <2>2, <2>3, <2>4 DEF Ops
  <2> HIDE DEF o
  <2>7. Placed(o)
    BY <2>6 DEF Placed
  <2> QED BY <2>5, <2>6, <2>7 DEF Opens
<1> QED BY <1>1, <1>2, <1>3, <1>4, <1>5, <1>6, <1>7, <1>8, <1>9 DEF Starts

\* What is controlled has a unit, and whoever works on it meets that.
LEMMA ControlStep ==
  ASSUME TypeOK, Safe, NEW a \in Actors, NEW verb \in {"start", "stop", "restart"}, NEW i \in Items,
         Control(a, verb, i)
  PROVE  Safe'
<1> DEFINE met == {b \in Busy : i \in Touches(op[b])}
           p == CASE verb = "restart" -> Start(i) [] verb = "stop" -> Off
                  [] verb = "start" -> IF proc[i].run = "up" THEN proc[i] ELSE Start(i)
           ends == IF p = proc[i] /\ verb = "start" THEN {} ELSE ServedBy(i)
           o == [b \in Actors |-> [op[b] EXCEPT !.sound = @ /\ b \notin met]]
<1>1. /\ proc' = [proc EXCEPT ![i] = p] /\ op' = Killed(o, ends)
      /\ spoilt' = spoilt \cup Cut(ends) \cup (IF met = {} THEN {} ELSE {i})
      /\ UNCHANGED <<file, tmp, unit, copied>> /\ i \in unit
  BY DEF Control, disk, system, rest
<1>2. ends \in SUBSET Busy
  BY DEF ServedBy
<1>3. /\ o \in [Actors -> Ops]
      /\ \A b \in Actors : Same(o[b], op[b]) /\ o[b].fd = op[b].fd
  <2>1. ASSUME NEW b \in Actors PROVE o[b] \in Ops /\ Same(o[b], op[b]) /\ o[b].fd = op[b].fd
    <3>1. op[b] \in Ops /\ (op[b].sound /\ b \notin met) \in BOOLEAN
      BY Doing
    <3>2. o[b] = [op[b] EXCEPT !.sound = @ /\ b \notin met]
      OBVIOUS
    <3> HIDE DEF met, o
    <3> QED BY <3>1, <3>2 DEF Ops, Same
  <2> HIDE DEF met
  <2> QED BY <2>1
<1>4. \A b \in Busy : i \in Touches(op[b]) => i \in spoilt'
  BY <1>1
<1> HIDE DEF o, ends, p, met
<1>5. /\ op' \in [Actors -> Ops]
      /\ \A b \in Actors : IF b \in ends THEN Resting(op'[b]) ELSE op'[b] = o[b]
  BY <1>1, <1>3, KilledAre
<1>6. spoilt \cup Cut(ends) \subseteq spoilt'
  BY <1>1
<1>7. ASSUME NEW b \in Actors PROVE Bystander(b)
  <2>1. op'[b] \in Ops /\ IF b \in ends THEN Resting(op'[b]) ELSE Same(op'[b], op[b]) /\ op'[b].fd = op[b].fd
    BY <1>3, <1>5
  <2> QED BY <1>2, <1>6, <2>1, KilledIsBystander DEF Safe
<1>8. \A j \in Items \ {i} : Kept(j)
  BY <1>1 DEF Kept, TypeOK
<1>9. Shared'
  BY <1>6, <1>7, BystanderGoesOn, SharedKept DEF Safe
<1>10. ASSUME i \in Names PROVE ~Orphan(i)'
  BY <1>1, <1>6, <1>10 DEF Safe, Orphan, Clear
<1>11. ASSUME i \in Daemons PROVE Whole(i)'
  <2>1. ASSUME NEW b \in Actors, op[b].at = "xfill", op[b].item = i
        PROVE  i \in spoilt' \/ (op'[b].at = "xfill" /\ op'[b].item = i)
    BY <1>7, <2>1 DEF Bystander, Same
  <2> QED BY <1>1, <1>6, <1>11, <2>1 DEF Safe, Whole
<1>12. Operations' /\ AllFound' /\ (\A n \in Names : ~Orphan(n))' /\ (\A d \in Daemons : Whole(d))'
  <2> DEFINE A == {}
             S == {i}
  <2>1. ASSUME NEW b \in Actors PROVE op[b].kind \in {"none", "backup"} \/ S \cap Touches(op[b]) \subseteq spoilt'
    BY <1>4 DEF Busy
  <2>2. A \in SUBSET Actors /\ S \in SUBSET Items /\ \A j \in Items \ S : Kept(j)
    BY <1>8
  <2>3. \A b \in Actors \ A : /\ Bystander(b)
                              /\ op[b].kind \in {"none", "backup"} \/ S \cap Touches(op[b]) \subseteq spoilt'
    BY <1>7, <2>1
  <2>4. \A x \in A : Placed(op'[x]) /\ Found(op[x])' /\ StillFills(x, S)
    OBVIOUS
  <2>5. (\A n \in S \cap Names : ~Orphan(n)') /\ (\A d \in S \cap Daemons : Whole(d)')
    BY <1>10, <1>11
  <2>6. spoilt \subseteq spoilt' /\ copied \subseteq copied'
    BY <1>1, <1>6
  <2> HIDE DEF A, S
  <2> QED BY <1>5, <2>2, <2>3, <2>4, <2>5, <2>6, Keeps DEF Safe
<1> QED BY <1>9, <1>12 DEF Safe

-----------------------------------------------------------------------------
(* The types                                                                   *)

Procs == {Off, Failing} \cup {Up(c, v) : c \in Contents, v \in 1 .. MaxVersion}

\* A process that starts runs a released binary.
LEMMA StartType ==
  ASSUME TypeOK, BinaryIsReleased, NEW i \in Items
  PROVE  Start(i) \in Procs
<1>1. ASSUME bin.whole PROVE bin.ver \in 1 .. MaxVersion
  BY <1>1, ServicesAssumption DEF TypeOK, BinaryIsReleased, Binaries
<1> QED BY <1>1 DEF Start, Procs

\* Operations touch items and the binary.
LEMMA TouchesType == \A o \in Ops : Touches(o) \subseteq Items \cup {"binary"}
<1> TAKE o \in Ops
<1>1. DOMAIN o.arch \subseteq Items /\ o.item \in Items
  BY BackupFacts DEF Ops
<1> QED BY <1>1 DEF Touches

\* What is torn by a write cut short is items.
LEMMA CutType == ASSUME Operations, NEW who \in SUBSET Busy PROVE Cut(who) \subseteq Items
BY DEF Operations, Ops, Busy, Cut

\* One process has changed.
LEMMA SetProcType ==
  ASSUME TypeOK, Operations, NEW i \in Items, NEW p \in Procs, NEW o, SetProc(i, p, o)
  PROVE  proc' \in [Items -> Procs] /\ spoilt' \subseteq Items \cup {"binary"}
<1>1. Cut(ServedBy(i)) \subseteq Items
  BY CutType DEF ServedBy
<1>2. proc \in [Items -> Procs] /\ spoilt \subseteq Items \cup {"binary"}
  BY DEF TypeOK, Procs
<1> QED BY <1>1, <1>2 DEF SetProc

\* A call leaves files as types of files.
LEMMA DiskType ==
  ASSUME TypeOK, file' \in [Items -> OnDisk], tmp' \in [Daemons -> OnDisk], copied' \subseteq Items,
         UNCHANGED <<system, proc, bin, latest, archive, bounds, spoilt>>
  PROVE  TypeOK'
BY DEF TypeOK, system, bounds

\* What a write leaves is the content of a file.
LEMMA WrittenType ==
  ASSUME NEW S, NEW f \in [S -> OnDisk], NEW i \in S, NEW c \in Contents, NEW x \in Written(f[i], c)
  PROVE  [f EXCEPT ![i] = x] \in [S -> OnDisk]
<1>1. f[i] \in OnDisk
  OBVIOUS
<1>2. x \in OnDisk
  BY <1>1, WrittenIsThere
<1> QED BY <1>2

\* The calls of an install and of a save keep the types.
LEMMA InstallType ==
  ASSUME TypeOK, Safe, BinaryIsReleased, NEW a \in Actors,
         \/ OpenConfig(a) \/ FillConfig(a) \/ OpenTmp(a) \/ FillTmp(a) \/ RenameTmp(a)
         \/ WriteUnit(a) \/ EnableUnit(a) \/ RestartUnit(a) \/ Nudge(a)
  PROVE  TypeOK'
<1> USE ContentFacts, ItemFacts
<1> DEFINE i == op[a].item
<1>1. op[a] \in Ops /\ i \in Items /\ Placed(op[a])
  BY Doing
<1>2. file \in [Items -> OnDisk] /\ tmp \in [Daemons -> OnDisk] /\ copied \subseteq Items
  BY DEF TypeOK
<1>3. CASE OpenConfig(a)
  <2>1. file' \in [Items -> OnDisk] /\ UNCHANGED <<tmp, system, proc, bin, rest, bounds, spoilt>>
    BY <1>1, <1>2, <1>3 DEF OpenConfig
  <2> QED BY <1>2, <2>1, DiskType DEF rest
<1>4. CASE FillConfig(a)
  <2>1. op[a].cfg \in Contents /\ UNCHANGED <<tmp, system, proc, bin, rest, bounds, spoilt>>
    BY <1>1, <1>4 DEF FillConfig, At, Placed
  <2>2. file' \in [Items -> OnDisk]
    <3>1. CASE op[a].fd = "live"
      BY <1>1, <1>2, <1>4, <2>1, <3>1, WrittenType DEF FillConfig
    <3>2. CASE op[a].fd # "live"
      BY <1>2, <1>4, <3>2 DEF FillConfig
    <3> QED BY <3>1, <3>2
  <2> QED BY <1>2, <2>1, <2>2, DiskType DEF rest
<1>5. CASE OpenTmp(a)
  <2>1. tmp' \in [Daemons -> OnDisk] /\ UNCHANGED <<file, system, proc, bin, rest, bounds, spoilt>>
    BY <1>1, <1>2, <1>5 DEF OpenTmp
  <2> QED BY <1>2, <2>1, DiskType DEF rest
<1>6. CASE FillTmp(a)
  <2>1. /\ op[a].cfg \in Contents /\ i \in Daemons
        /\ UNCHANGED <<system, proc, bin, rest, bounds, spoilt>>
    BY <1>1, <1>6 DEF FillTmp, At, Placed
  <2>2. \/ file' = file /\ \E x \in Written(tmp[i], op[a].cfg) : tmp' = [tmp EXCEPT ![i] = x]
        \/ tmp' = tmp /\ \E x \in Written(file[i], op[a].cfg) : file' = [file EXCEPT ![i] = x]
        \/ UNCHANGED <<file, tmp>>
    BY <1>6 DEF FillTmp, disk
  <2>3. file' \in [Items -> OnDisk] /\ tmp' \in [Daemons -> OnDisk]
    <3> HIDE DEF i
    <3> QED BY <1>1, <1>2, <2>1, <2>2, WrittenType
  <2> QED BY <1>2, <2>1, <2>3, DiskType DEF rest
<1>7. CASE RenameTmp(a)
  <2>1. i \in Daemons /\ UNCHANGED <<system, proc, bin, rest, bounds, spoilt>>
    BY <1>1, <1>7 DEF RenameTmp, At, Placed
  <2>2. \/ UNCHANGED <<file, tmp>>
        \/ file' = [file EXCEPT ![i] = tmp[i]] /\ tmp' = [tmp EXCEPT ![i] = NoFile]
    BY <1>7 DEF RenameTmp, disk
  <2>3. file' \in [Items -> OnDisk] /\ tmp' \in [Daemons -> OnDisk]
    <3> HIDE DEF i
    <3> QED BY <1>1, <1>2, <2>1, <2>2
  <2> QED BY <1>2, <2>1, <2>3, DiskType DEF rest
<1>8. CASE WriteUnit(a)
  <2>1. unit' = unit \cup {i} /\ UNCHANGED <<disk, enabled, proc, bin, rest, bounds, spoilt>>
    BY <1>8 DEF WriteUnit
  <2> HIDE DEF i
  <2> QED BY <1>1, <2>1 DEF TypeOK, disk, rest, bounds
<1>9. CASE EnableUnit(a)
  <2>1. enabled' \in {enabled, enabled \cup {i}} /\ UNCHANGED <<disk, unit, proc, bin, rest, bounds, spoilt>>
    BY <1>9 DEF EnableUnit
  <2> HIDE DEF i
  <2> QED BY <1>1, <2>1 DEF TypeOK, disk, rest, bounds
<1>10. ASSUME NEW j \in Items, NEW o, SetProc(j, Start(j), o) \/ UNCHANGED <<proc, spoilt>>,
              UNCHANGED <<disk, system, bin, rest, bounds>>
       PROVE  TypeOK'
  <2>1. proc' \in [Items -> Procs] /\ spoilt' \subseteq Items \cup {"binary"}
    <3>1. CASE SetProc(j, Start(j), o)
      BY <1>10, <3>1, StartType, SetProcType DEF Safe
    <3>2. CASE UNCHANGED <<proc, spoilt>>
      BY <3>2 DEF TypeOK, Procs
    <3> QED BY <1>10, <3>1, <3>2
  <2> QED BY <1>10, <2>1 DEF TypeOK, Procs, disk, system, rest, bounds
<1>11. CASE RestartUnit(a)
  BY <1>1, <1>10, <1>11 DEF RestartUnit
<1>12. CASE Nudge(a)
  BY <1>10, <1>12 DEF Nudge
<1> QED BY <1>3, <1>4, <1>5, <1>6, <1>7, <1>8, <1>9, <1>11, <1>12

\* Those of a removal keep them.
LEMMA RemoveType ==
  ASSUME TypeOK, Safe, BinaryIsReleased, NEW a \in Actors,
         \/ StopUnit(a) \/ DisableUnit(a) \/ RemoveUnit(a) \/ RemoveConf(a)
         \/ PickNext(a) \/ SaveFirst(a) \/ Answer(a) \/ Purge(a) \/ RemoveBinary(a)
  PROVE  TypeOK'
<1> USE ContentFacts, ItemFacts
<1> DEFINE i == op[a].item
<1>1. op[a] \in Ops /\ i \in Items /\ Placed(op[a])
  BY Doing
<1>2. file \in [Items -> OnDisk] /\ tmp \in [Daemons -> OnDisk] /\ copied \subseteq Items
  BY DEF TypeOK
<1>3. CASE StopUnit(a)
  <2>1. SetProc(i, Off, Advance(a, "disable")) /\ UNCHANGED <<disk, system, bin, rest, bounds>> /\ Off \in Procs
    BY <1>3 DEF StopUnit, Procs
  <2>2. proc' \in [Items -> Procs] /\ spoilt' \subseteq Items \cup {"binary"}
    <3> HIDE DEF i
    <3> QED BY <1>1, <2>1, SetProcType DEF Safe
  <2> QED BY <2>1, <2>2 DEF TypeOK, Procs, disk, system, rest, bounds
<1>4. CASE DisableUnit(a)
  <2>1. enabled' \subseteq enabled /\ UNCHANGED <<disk, unit, proc, bin, rest, bounds, spoilt>>
    BY <1>4 DEF DisableUnit
  <2> QED BY <2>1 DEF TypeOK, disk, rest, bounds
<1>5. CASE RemoveUnit(a)
  <2>1. unit' \subseteq unit /\ UNCHANGED <<disk, enabled, proc, bin, rest, bounds, spoilt>>
    BY <1>5 DEF RemoveUnit
  <2> QED BY <2>1 DEF TypeOK, disk, rest, bounds
<1>6. CASE RemoveConf(a)
  <2>1. file' \in [Items -> OnDisk] /\ UNCHANGED <<tmp, system, proc, bin, rest, bounds, spoilt>>
    BY <1>2, <1>6 DEF RemoveConf
  <2> QED BY <1>2, <2>1, DiskType DEF rest
<1>7. CASE PickNext(a) \/ Answer(a)
  <2>1. UNCHANGED <<disk, system, proc, bin, rest, bounds, spoilt>>
    BY <1>7 DEF PickNext, Answer
  <2> QED BY <1>2, <2>1, DiskType DEF disk, rest
<1>8. CASE SaveFirst(a)
  <2>1. archive' \in Backups
    <3> DEFINE T == {j \in Items : file[j] # NoFile}
    <3>1. T \in SUBSET Items /\ \A j \in T : file[j] \in Contents \cup {Torn}
      BY <1>2 DEF OnDisk
    <3>2. archive' = [j \in T |-> file[j]]
      BY <1>8 DEF SaveFirst
    <3> HIDE DEF T
    <3>3. archive' \in [T -> Contents \cup {Torn}]
      BY <3>1, <3>2
    <3> QED BY <3>1, <3>3 DEF Backups
  <2>2. UNCHANGED <<disk, system, proc, bin, latest, copied, bounds, spoilt>>
    BY <1>8 DEF SaveFirst
  <2> QED BY <2>1, <2>2 DEF TypeOK, disk, system, bounds
<1>9. CASE Purge(a)
  <2>1. /\ file' \in [Items -> OnDisk] /\ tmp' \in [Daemons -> OnDisk]
        /\ UNCHANGED <<system, proc, bin, rest, bounds, spoilt>>
    BY <1>9 DEF Purge
  <2> QED BY <1>2, <2>1, DiskType DEF rest
<1>10. CASE RemoveBinary(a)
  <2>1. bin' \in Binaries /\ UNCHANGED <<disk, system, proc, rest, bounds, spoilt>>
    BY <1>10, NoBinaryType DEF RemoveBinary
  <2> QED BY <2>1 DEF TypeOK, disk, system, rest, bounds
<1> QED BY <1>3, <1>4, <1>5, <1>6, <1>7, <1>8, <1>9, <1>10

\* Those of a backup, a restore and an update keep them.
LEMMA RestoreType ==
  ASSUME TypeOK, Safe, BinaryIsReleased, NEW a \in Actors,
         \/ ReadEntry(a) \/ SaveArchive(a) \/ OpenEntry(a) \/ FillEntry(a) \/ LoadNext(a) \/ Restored(a)
         \/ CheckLatest(a) \/ (\E spoil \in BOOLEAN : Download(a, spoil)) \/ Verify(a) \/ ReplaceBinary(a)
  PROVE  TypeOK'
<1> USE ContentFacts, ItemFacts
<1> DEFINE i == op[a].item
           c == op[a].arch[i]
<1>1. op[a] \in Ops /\ i \in Items /\ Placed(op[a])
  BY Doing
<1>2. file \in [Items -> OnDisk] /\ tmp \in [Daemons -> OnDisk] /\ copied \subseteq Items
  BY DEF TypeOK
<1>3. CASE ReadEntry(a) \/ LoadNext(a) \/ Restored(a) \/ CheckLatest(a) \/ Verify(a)
  <2>1. UNCHANGED <<disk, system, proc, bin, rest, bounds, spoilt>>
    BY <1>3 DEF ReadEntry, LoadNext, Restored, CheckLatest, Verify
  <2> QED BY <1>2, <2>1, DiskType DEF disk, rest
<1>4. CASE SaveArchive(a)
  <2>1. archive' \in Backups /\ UNCHANGED <<disk, system, proc, bin, latest, copied, bounds, spoilt>>
    BY <1>1, <1>4 DEF SaveArchive, Ops
  <2> QED BY <2>1 DEF TypeOK, disk, system, bounds
<1>5. CASE OpenEntry(a)
  <2>1. file' \in [Items -> OnDisk]
    BY <1>2, <1>5 DEF OpenEntry
  <2>2. UNCHANGED <<tmp, system, proc, bin, rest, bounds, spoilt>>
    BY <1>5 DEF OpenEntry
  <2> QED BY <1>2, <2>1, <2>2, DiskType DEF rest
<1>6. CASE FillEntry(a)
  <2>1. UNCHANGED <<tmp, system, proc, bin, latest, archive, bounds, spoilt>> /\ copied' \subseteq copied \cup {i}
    BY <1>6 DEF FillEntry
  <2>2. c \in Contents \cup {Torn}
    <3>1. i \in DOMAIN op[a].arch /\ op[a].arch \in Backups
      BY <1>1, <1>6 DEF FillEntry, At, Placed, Ops
    <3> QED BY <3>1, BackupFacts
  <2>3. file' \in [Items -> OnDisk]
    <3>1. CASE op[a].fd = "live"
      <4>1. \E x \in (IF c = Torn THEN {Torn} ELSE Written(file[i], c)) : file' = [file EXCEPT ![i] = x]
        BY <1>6, <3>1 DEF FillEntry
      <4> HIDE DEF i, c
      <4> QED BY <1>1, <1>2, <2>2, <4>1, WrittenType
    <3>2. CASE op[a].fd # "live"
      BY <1>2, <1>6, <3>2 DEF FillEntry
    <3> QED BY <3>1, <3>2
  <2> QED BY <1>1, <1>2, <2>1, <2>3, DiskType
<1>7. ASSUME NEW spoil \in BOOLEAN, Download(a, spoil) PROVE TypeOK'
  <2>1. /\ UNCHANGED <<disk, system, proc, bin, rest, started, spoilt>>
        /\ (spoil => faults < MaxFaults) /\ faults' = IF spoil THEN faults + 1 ELSE faults
    BY <1>7 DEF Download
  <2>2. faults \in 0 .. MaxFaults /\ MaxFaults \in Nat
    BY ServicesAssumption DEF TypeOK
  <2>3. faults' \in 0 .. MaxFaults
    BY <2>1, <2>2
  <2> QED BY <2>1, <2>3 DEF TypeOK, disk, system, rest
<1>8. CASE ReplaceBinary(a)
  <2>1. bin' \in Binaries /\ UNCHANGED <<disk, system, proc, rest, bounds, spoilt>>
    BY <1>1, <1>8 DEF ReplaceBinary, Ops
  <2> QED BY <2>1 DEF TypeOK, disk, system, rest, bounds
<1> QED BY <1>3, <1>4, <1>5, <1>6, <1>7, <1>8

\* One more fault is within the bound.
LEMMA FaultType == TypeOK /\ Fault => faults' \in 0 .. MaxFaults
BY ServicesAssumption DEF TypeOK, Fault

\* Faults keep them.
LEMMA FaultsType ==
  ASSUME TypeOK, Safe, BinaryIsReleased,
         \/ \E a \in Actors : CallFails(a) \/ PurgeFails(a) \/ CutShort(a)
         \/ \E i \in Items : Crash(i) \/ Retry(i)
         \/ Reboot \/ Release
  PROVE  TypeOK'
<1>1. ASSUME NEW a \in Actors, CallFails(a) \/ CutShort(a) PROVE TypeOK'
  <2>1. Fault /\ a \in Busy /\ UNCHANGED <<disk, system, proc, bin, rest, started>>
    BY <1>1 DEF CallFails, CutShort
  <2>2. spoilt' \subseteq spoilt \cup Cut({a}) \cup {op[a].item}
    BY <1>1 DEF CallFails, CutShort
  <2>3. Cut({a}) \subseteq Items /\ op[a].item \in Items
    BY <2>1, CutType, Doing DEF Safe
  <2>4. spoilt \subseteq Items \cup {"binary"}
    BY DEF TypeOK
  <2>5. spoilt' \subseteq Items \cup {"binary"}
    BY <2>2, <2>3, <2>4
  <2> QED BY <2>1, <2>5, FaultType DEF TypeOK, disk, system, rest
<1>6. ASSUME NEW a \in Actors, PurgeFails(a) PROVE TypeOK'
  <2>1. file \in [Items -> OnDisk] /\ tmp \in [Daemons -> OnDisk] /\ NoFile \in OnDisk
    BY ContentFacts DEF TypeOK
  <2>2. PICK S \in SUBSET Items :
          /\ file' = [i \in Items |-> IF i \in S THEN NoFile ELSE file[i]]
          /\ tmp' = [d \in Daemons |-> IF d \in S THEN NoFile ELSE tmp[d]]
    BY <1>6 DEF PurgeFails
  <2>3. file' \in [Items -> OnDisk] /\ tmp' \in [Daemons -> OnDisk]
    BY <2>1, <2>2
  <2>4. Fault /\ UNCHANGED <<system, proc, bin, rest, started, spoilt>>
    BY <1>6 DEF PurgeFails
  <2> QED BY <2>3, <2>4, FaultType DEF TypeOK, system, rest
<1>2. ASSUME NEW i \in Items, Crash(i) PROVE TypeOK'
  <2>1. Fault /\ SetProc(i, Start(i), op) /\ UNCHANGED <<disk, system, bin, rest, started>>
    BY <1>2 DEF Crash
  <2>2. proc' \in [Items -> Procs] /\ spoilt' \subseteq Items \cup {"binary"}
    BY <2>1, StartType, SetProcType DEF Safe
  <2> QED BY <2>1, <2>2, FaultType DEF TypeOK, Procs, disk, system, rest
<1>3. ASSUME NEW i \in Items, Retry(i) PROVE TypeOK'
  <2>1. proc' = [proc EXCEPT ![i] = Start(i)] /\ UNCHANGED <<disk, system, bin, rest, bounds, spoilt>>
    BY <1>3 DEF Retry
  <2>2. proc' \in [Items -> Procs]
    <3>1. proc \in [Items -> Procs]
      BY DEF TypeOK, Procs
    <3> QED BY <2>1, <3>1, StartType
  <2> QED BY <2>1, <2>2 DEF TypeOK, Procs, disk, system, rest, bounds
<1>4. CASE Reboot
  <2>1. /\ Fault /\ UNCHANGED <<disk, system, bin, rest, started>> /\ spoilt' = spoilt \cup Cut(Busy)
        /\ proc' = [i \in Items |-> IF i \in enabled \cap unit THEN Start(i) ELSE Off]
    BY <1>4 DEF Reboot
  <2>2. proc' \in [Items -> Procs]
    <3>1. Off \in Procs
      BY DEF Procs
    <3> QED BY <2>1, <3>1, StartType
  <2>3. spoilt' \subseteq Items \cup {"binary"}
    BY <2>1, CutType DEF Safe, TypeOK
  <2> QED BY <2>1, <2>2, <2>3, FaultType DEF TypeOK, Procs, disk, system, rest
<1>5. CASE Release
  <2>1. latest' \in 1 .. MaxVersion
    BY <1>5, ServicesAssumption DEF Release, TypeOK
  <2>2. UNCHANGED <<disk, system, proc, bin, archive, copied, bounds, spoilt>>
    BY <1>5 DEF Release
  <2> QED BY <2>1, <2>2 DEF TypeOK, disk, system, bounds
<1> QED BY <1>1, <1>2, <1>3, <1>4, <1>5, <1>6

\* Operations that start keep them.
LEMMA StartsType ==
  ASSUME TypeOK, Safe, BinaryIsReleased, NEW a \in Actors, Starts(a)
  PROVE  TypeOK'
<1>1. ASSUME NEW n \in {started + 1}, started < MaxOps PROVE n \in 0 .. MaxOps
  BY <1>1, ServicesAssumption DEF TypeOK
<1>2. ASSUME NEW o \in Ops, Begin(a, o) PROVE TypeOK'
  <2> DEFINE others == {b \in Busy : Clash(o, op[b]) # {}}
  <2>1. /\ started' = started + 1 /\ started < MaxOps
        /\ spoilt' = spoilt \cup UNION {Spoils(o, op[b]) : b \in others}
        /\ UNCHANGED <<disk, system, proc, bin, rest, faults>>
    BY <1>2 DEF Begin
  <2>2. \A b : Spoils(o, op[b]) \subseteq Items \cup {"binary"}
    BY TouchesType DEF Spoils, Clash
  <2>3. spoilt \subseteq Items \cup {"binary"}
    BY DEF TypeOK
  <2> HIDE DEF others
  <2>4. spoilt' \subseteq Items \cup {"binary"}
    BY <2>1, <2>2, <2>3
  <2> QED BY <1>1, <2>1, <2>4 DEF TypeOK, disk, system, rest
<1>3. ASSUME NEW verb \in {"start", "stop", "restart"}, NEW i \in Items, Control(a, verb, i) PROVE TypeOK'
  <2> DEFINE met == {b \in Busy : i \in Touches(op[b])}
             p == CASE verb = "restart" -> Start(i) [] verb = "stop" -> Off
                    [] verb = "start" -> IF proc[i].run = "up" THEN proc[i] ELSE Start(i)
             ends == IF p = proc[i] /\ verb = "start" THEN {} ELSE ServedBy(i)
  <2>1. /\ started' = started + 1 /\ started < MaxOps
        /\ proc' = [proc EXCEPT ![i] = p]
        /\ spoilt' = spoilt \cup Cut(ends) \cup (IF met = {} THEN {} ELSE {i})
        /\ UNCHANGED <<disk, system, bin, rest, faults>>
    BY <1>3 DEF Control
  <2>2. proc \in [Items -> Procs] /\ Off \in Procs /\ Start(i) \in Procs
    BY StartType DEF TypeOK, Procs
  <2>3. p \in Procs
    BY <2>2
  <2>4. Cut(ends) \subseteq Items
    <3>1. ends \in SUBSET Busy
      BY DEF ServedBy
    <3> HIDE DEF ends
    <3> QED BY <3>1, CutType DEF Safe
  <2>5. spoilt \subseteq Items \cup {"binary"}
    BY DEF TypeOK
  <2> HIDE DEF p, ends, met
  <2>6. spoilt' \subseteq Items \cup {"binary"} /\ proc' \in [Items -> Procs]
    BY <2>1, <2>2, <2>3, <2>4, <2>5
  <2> QED BY <1>1, <2>1, <2>6 DEF TypeOK, Procs, disk, system, rest
<1>4. CASE \E verb \in {"start", "stop", "restart"}, i \in Items : Control(a, verb, i)
  BY <1>3, <1>4
<1>5. CASE ~ \E verb \in {"start", "stop", "restart"}, i \in Items : Control(a, verb, i)
  BY <1>2, <1>5, StartsOpen DEF Opens
<1> QED BY <1>4, <1>5

-----------------------------------------------------------------------------
(* The binary                                                                  *)

\* Nobody has downloaded anything or come closer to installing it.
Updating == {"verify", "replace", "trust"}
Carries(o) ==
  \A b \in Actors : \/ o[b].got = op[b].got /\ (o[b].at \in Updating => o[b].at = op[b].at)
                    \/ o[b].got = NoBinary /\ o[b].at \notin Updating

\* Nothing but a download, a verdict and a replacement bears on the binary.
LEMMA BinaryStays ==
  ASSUME TypeOK, BinaryIsReleased, op \in [Actors -> Ops], UNCHANGED bin,
         latest' = latest \/ (latest' = latest + 1), spoilt \subseteq spoilt', Carries(op')
  PROVE  BinaryIsReleased'
<1>1. bin.ver \in Nat /\ latest \in Nat /\ latest' \in Nat /\ latest <= latest'
  BY ServicesAssumption DEF TypeOK, Binaries
<1>2. ASSUME NEW b \in Actors PROVE Released(op[b])'
  <2>1. op[b].got.ver \in Nat /\ Released(op[b])
    BY ServicesAssumption DEF Ops, Binaries, BinaryIsReleased
  <2>2. CASE op'[b].got = op[b].got /\ (op'[b].at \in Updating => op'[b].at = op[b].at)
    BY <1>1, <2>1, <2>2 DEF Released, Updating
  <2>3. CASE op'[b].got = NoBinary /\ op'[b].at \notin Updating
    BY <2>3, NoBinaryType DEF Released, Updating
  <2> QED BY <2>2, <2>3 DEF Carries
<1> QED BY <1>1, <1>2 DEF BinaryIsReleased

\* An operation that ends or moves to another call carries what it had.
LEMMA MovesCarry ==
  ASSUME Operations, NEW a \in Actors, NEW o, Only(a, o),
         \/ o[a].got = op[a].got /\ (o[a].at \in Updating => o[a].at = op[a].at)
         \/ Resting(o[a])
  PROVE  Carries(o)
<1>1. ASSUME Resting(o[a]) PROVE o[a].got = NoBinary /\ o[a].at \notin Updating
  BY <1>1 DEF Resting, Updating
<1> QED BY <1>1 DEF Only, Carries

\* A call that comes before the download, or belongs to another operation.
LEMMA AdvanceCarries ==
  ASSUME Operations, NEW a \in Actors, NEW s \in Calls \ Updating
  PROVE  Carries(Advance(a, s))
<1>1. op[a] \in Ops /\ Only(a, Advance(a, s)) /\ Advance(a, s)[a] = [op[a] EXCEPT !.at = s]
  BY AdvanceIs DEF Operations
<1> DEFINE o == Advance(a, s)
<1>2. Only(a, o) /\ o[a].got = op[a].got /\ o[a].at = s
  BY <1>1, NextCall
<1> HIDE DEF o
<1>3. Carries(o)
  BY <1>2, MovesCarry
<1> QED BY <1>3 DEF o

\* What has ended carries nothing.
LEMMA EndedCarries ==
  ASSUME Operations, NEW a \in Actors, NEW r \in Results
  PROVE  Carries(Ended(a, r))
BY EndedIs, MovesCarry

\* Nor do those that give up or go on with their next item carry more.
LEMMA MovesOnCarry ==
  ASSUME Operations, NEW a \in Actors
  PROVE  /\ Carries(Failed(a)) /\ Carries(Installed(a))
         /\ \A r \in Results : Carries(Removed(a, r)) /\ Carries(UnitRemoved(a, r))
<1> USE DEF Calls, Updating, Results
<1>1. Carries(Failed(a))
  BY AdvanceCarries, EndedCarries DEF Failed
<1>2. \A r \in Results : Carries(Removed(a, r))
  BY AdvanceCarries, EndedCarries DEF Removed
<1>3. \A r \in Results : Carries(UnitRemoved(a, r))
  BY <1>2, AdvanceCarries DEF UnitRemoved
<1>4. Carries(Installed(a))
  <2>1. CASE op[a].kind = "restore"
    <3> DEFINE o == Installed(a)
               p == [op[a] EXCEPT !.at = "load", !.done = @ \cup {op[a].item}]
    <3>1. op[a] \in Ops /\ Only(a, o) /\ o[a] = p
      BY <2>1, InstalledIs DEF Operations
    <3>2. p.got = op[a].got /\ p.at = "load"
      BY <3>1 DEF Ops
    <3> HIDE DEF o, p
    <3>3. o[a].got = op[a].got /\ o[a].at \notin Updating
      BY <3>1, <3>2
    <3>4. Carries(o)
      BY <3>1, <3>3, MovesCarry
    <3> QED BY <3>4 DEF o
  <2>2. CASE op[a].kind # "restore"
    BY <2>2, EndedCarries DEF Installed
  <2> QED BY <2>1, <2>2
<1> QED BY <1>1, <1>2, <1>3, <1>4

\* Those that are killed carry nothing.
LEMMA KilledCarries ==
  ASSUME NEW o \in [Actors -> Ops], Carries(o), NEW who
  PROVE  Carries(Killed(o, who))
<1> DEFINE k == Killed(o, who)
<1>1. \A b \in Actors : IF b \in who THEN Resting(k[b]) ELSE k[b] = o[b]
  BY KilledAre
<1> HIDE DEF k
<1>2. Carries(k)
  BY <1>1 DEF Carries, Resting, Updating
<1> QED BY <1>2 DEF k

\* As Carries, of functions that differ from o in what does not matter here.
LEMMA AlikeCarries ==
  ASSUME NEW o, Carries(o), NEW p, \A b \in Actors : p[b].got = o[b].got /\ p[b].at = o[b].at
  PROVE  Carries(p)
BY DEF Carries

\* What is open of a file has no bearing on the download.
LEMMA UnlinkedCarries ==
  ASSUME NEW o \in [Actors -> Ops], Carries(o), NEW S, NEW d
  PROVE  Carries(Unlinked(o, S)) /\ Carries(Renamed(o, d))
<1>1. ASSUME NEW b \in Actors PROVE Unlinked(o, S)[b].got = o[b].got /\ Unlinked(o, S)[b].at = o[b].at
  BY DEF Unlinked, Ops
<1>2. ASSUME NEW b \in Actors PROVE Renamed(o, d)[b].got = o[b].got /\ Renamed(o, d)[b].at = o[b].at
  BY DEF Renamed, Ops
<1> QED BY <1>1, <1>2, AlikeCarries

\* One operation has moved on and carries what it had.
LEMMA EditedCarries ==
  ASSUME Operations, NEW a \in Actors, NEW p, op' = [op EXCEPT ![a] = p],
         p.got = op[a].got, p.at \in Updating => p.at = op[a].at
  PROVE  Carries(op')
BY DEF Operations, Carries

\* No call of an install or of a save touches a download.
LEMMA InstallCarries ==
  ASSUME Operations, NEW a \in Actors,
         \/ OpenConfig(a) \/ FillConfig(a) \/ OpenTmp(a) \/ FillTmp(a) \/ RenameTmp(a)
         \/ WriteUnit(a) \/ EnableUnit(a) \/ RestartUnit(a) \/ Nudge(a)
  PROVE  Carries(op')
<1> DEFINE o == op[a]
<1>1. o \in Ops /\ op \in [Actors -> Ops]
  BY DEF Operations
<1>2. \A s \in {"enable", "restart", "nudge", "unit"} : s \in Calls \ Updating
  BY DEF Calls, Updating
<1>3. CASE OpenConfig(a)
  <2> DEFINE p == [o EXCEPT !.at = "fill", !.fd = "live"]
  <2>1. op' = [op EXCEPT ![a] = p] /\ p.got = op[a].got /\ p.at \notin Updating
    BY <1>1, <1>3 DEF OpenConfig, Ops, Updating
  <2> HIDE DEF p
  <2> QED BY <2>1, EditedCarries
<1>4. CASE FillConfig(a)
  <2>1. CASE op' = Failed(a)
    BY <2>1, MovesOnCarry
  <2>2. CASE op' = [op EXCEPT ![a].at = "unit", ![a].fd = "none"]
    <3> DEFINE p == [o EXCEPT !.at = "unit", !.fd = "none"]
    <3>1. op' = [op EXCEPT ![a] = p] /\ p.got = op[a].got /\ p.at \notin Updating
      BY <1>1, <2>2 DEF Ops, Updating
    <3> HIDE DEF p
    <3> QED BY <3>1, EditedCarries
  <2> QED BY <1>4, <2>1, <2>2 DEF FillConfig
<1>5. CASE OpenTmp(a)
  <2> DEFINE p == [o EXCEPT !.at = "tmpfill", !.fd = "tmp"]
  <2>1. op' = [op EXCEPT ![a] = p] /\ p.got = op[a].got /\ p.at \notin Updating
    BY <1>1, <1>5 DEF OpenTmp, Ops, Updating
  <2> HIDE DEF p
  <2> QED BY <2>1, EditedCarries
<1>6. CASE FillTmp(a)
  <2> DEFINE p == [o EXCEPT !.at = "rename", !.fd = "none"]
  <2>1. op' = [op EXCEPT ![a] = p]
    BY <1>1, <1>6 DEF FillTmp
  <2>2. p.got = op[a].got /\ p.at \notin Updating
    BY <1>1 DEF Ops, Updating
  <2> HIDE DEF p
  <2> QED BY <2>1, <2>2, EditedCarries
<1>7. CASE RenameTmp(a)
  <2>1. ASSUME NEW s \in {"nudge", "unit"}, op' = Renamed(Advance(a, s), o.item) PROVE Carries(op')
    <3>1. Carries(Advance(a, s)) /\ Advance(a, s) \in [Actors -> Ops]
      BY <1>2, AdvanceCarries, AdvanceIs DEF Only
    <3> QED BY <2>1, <3>1, UnlinkedCarries
  <2> QED BY <1>7, <2>1, MovesOnCarry DEF RenameTmp
<1>8. CASE WriteUnit(a)
  BY <1>2, <1>8, AdvanceCarries DEF WriteUnit
<1>9. CASE EnableUnit(a)
  BY <1>2, <1>9, AdvanceCarries, MovesOnCarry DEF EnableUnit
<1>10. CASE RestartUnit(a)
  <2>1. Installed(a) \in [Actors -> Ops] /\ Carries(Installed(a)) /\ Carries(Failed(a))
    BY InstalledIs, MovesOnCarry DEF Only
  <2> QED BY <1>10, <2>1, KilledCarries DEF RestartUnit, SetProc
<1>11. CASE Nudge(a)
  <2>1. "ok" \in Results
    BY DEF Results
  <2>2. Ended(a, "ok") \in [Actors -> Ops] /\ Carries(Ended(a, "ok"))
    BY <2>1, EndedIs, EndedCarries DEF Only
  <2> QED BY <1>11, <2>2, KilledCarries DEF Nudge, SetProc
<1> QED BY <1>3, <1>4, <1>5, <1>6, <1>7, <1>8, <1>9, <1>10, <1>11

\* No call of a removal does.
LEMMA RemoveCarries ==
  ASSUME Operations, NEW a \in Actors,
         \/ StopUnit(a) \/ DisableUnit(a) \/ RemoveUnit(a) \/ RemoveConf(a)
         \/ PickNext(a) \/ SaveFirst(a) \/ Answer(a) \/ Purge(a) \/ RemoveBinary(a)
  PROVE  Carries(op')
<1>1. op[a] \in Ops /\ op \in [Actors -> Ops]
  BY DEF Operations
<1>2. \A s \in {"disable", "rmunit", "purge", "confirm", "pick", "rmbin"} : s \in Calls \ Updating
  BY DEF Calls, Updating
<1>3. \A r \in {"ok", "cancelled"} : r \in Results
  BY DEF Results
<1>4. \A s \in {"disable", "rmunit", "purge", "confirm", "pick", "rmbin"} :
         Carries(Advance(a, s)) /\ Advance(a, s) \in [Actors -> Ops]
  BY <1>2, AdvanceCarries, AdvanceIs DEF Only
<1>5. CASE StopUnit(a)
  BY <1>4, <1>5, KilledCarries DEF StopUnit, SetProc
<1>6. CASE DisableUnit(a)
  BY <1>4, <1>6 DEF DisableUnit
<1>7. CASE RemoveUnit(a)
  BY <1>7, MovesOnCarry DEF RemoveUnit, Reloaded, Results
<1>8. CASE RemoveConf(a)
  <2>1. PICK r \in Reloaded : op' = Unlinked(Removed(a, r), {op[a].item})
    BY <1>8 DEF RemoveConf
  <2>2. r \in Results
    BY DEF Reloaded, Results
  <2>3. Removed(a, r) \in [Actors -> Ops] /\ Carries(Removed(a, r))
    BY <2>2, RemovedIs, MovesOnCarry DEF Only
  <2> QED BY <2>1, <2>3, UnlinkedCarries
<1>9. CASE PickNext(a)
  <2>1. ASSUME NEW i, op' = [op EXCEPT ![a].at = "stop", ![a].item = i, ![a].todo = @ \ {i}]
        PROVE  Carries(op')
    <3> DEFINE p == [op[a] EXCEPT !.at = "stop", !.item = i, !.todo = @ \ {i}]
    <3>1. op' = [op EXCEPT ![a] = p]
      BY <1>1, <2>1
    <3>2. p.got = op[a].got /\ p.at \notin Updating
      BY <1>1 DEF Ops, Updating
    <3> HIDE DEF p
    <3> QED BY <3>1, <3>2, EditedCarries
  <2> QED BY <1>4, <1>9, <2>1 DEF PickNext
<1>10. CASE SaveFirst(a)
  BY <1>4, <1>10 DEF SaveFirst
<1>11. CASE Answer(a)
  BY <1>3, <1>4, <1>11, EndedCarries DEF Answer
<1>12. CASE Purge(a)
  BY <1>4, <1>12, UnlinkedCarries DEF Purge
<1>13. CASE RemoveBinary(a)
  BY <1>3, <1>13, EndedCarries DEF RemoveBinary
<1> QED BY <1>5, <1>6, <1>7, <1>8, <1>9, <1>10, <1>11, <1>12, <1>13

\* No call of a backup or a restore does, nor does an update that only looks.
LEMMA RestoreCarries ==
  ASSUME Operations, NEW a \in Actors,
         \/ ReadEntry(a) \/ SaveArchive(a) \/ OpenEntry(a) \/ FillEntry(a) \/ LoadNext(a) \/ Restored(a)
         \/ CheckLatest(a)
  PROVE  Carries(op')
<1>1. op[a] \in Ops /\ op \in [Actors -> Ops]
  BY DEF Operations
<1>2. \A r \in {"ok", "current"} : r \in Results
  BY DEF Results
<1>3. CASE ReadEntry(a)
  <2>1. PICK i : op' = [op EXCEPT ![a].todo = @ \ {i}, ![a].arch = IF file[i] = NoFile THEN @ ELSE Entered(@, i)]
    BY <1>3 DEF ReadEntry
  <2> DEFINE p == [op[a] EXCEPT !.todo = @ \ {i}, !.arch = IF file[i] = NoFile THEN @ ELSE Entered(@, i)]
  <2>2. op' = [op EXCEPT ![a] = p]
    BY <1>1, <2>1
  <2>3. p.got = op[a].got /\ p.at = op[a].at
    BY <1>1 DEF Ops
  <2> HIDE DEF p
  <2> QED BY <2>2, <2>3, EditedCarries
<1>4. CASE SaveArchive(a) \/ Restored(a)
  BY <1>2, <1>4, EndedCarries DEF SaveArchive, Restored
<1>5. CASE OpenEntry(a)
  <2>1. PICK i : op' = [op EXCEPT ![a].at = "xfill", ![a].item = i, ![a].fd = "live", ![a].todo = @ \ {i}]
    BY <1>5 DEF OpenEntry
  <2> DEFINE p == [op[a] EXCEPT !.at = "xfill", !.item = i, !.fd = "live", !.todo = @ \ {i}]
  <2>2. op' = [op EXCEPT ![a] = p]
    BY <1>1, <2>1
  <2>3. p.got = op[a].got /\ p.at \notin Updating
    BY <1>1 DEF Ops, Updating
  <2> HIDE DEF p
  <2> QED BY <2>2, <2>3, EditedCarries
<1>6. CASE FillEntry(a)
  <2> DEFINE s == IF op[a].todo = {} THEN "load" ELSE "extract"
             t == IF op[a].todo = {} THEN DOMAIN op[a].arch \ {Panel} ELSE op[a].todo
             p == [op[a] EXCEPT !.fd = "none", !.at = s, !.todo = t]
  <2>1. op' = [op EXCEPT ![a] = p]
    BY <1>1, <1>6 DEF FillEntry
  <2>2. s \notin Updating
    BY DEF Updating
  <2> HIDE DEF s, t
  <2>3. p.got = op[a].got /\ p.at = s
    BY <1>1 DEF Ops
  <2> HIDE DEF p
  <2> QED BY <2>1, <2>2, <2>3, EditedCarries
<1>7. CASE LoadNext(a)
  <2>1. PICK i :
          op' = [op EXCEPT ![a].item = i, ![a].todo = @ \ {i},
                   ![a].cfg = IF i = Bot THEN NoFile ELSE file[i],
                   ![a].at = IF i = Bot THEN "unit" ELSE IF file[i] \in Contents THEN "open" ELSE "load"]
    BY <1>7 DEF LoadNext
  <2> DEFINE s == IF i = Bot THEN "unit" ELSE IF file[i] \in Contents THEN "open" ELSE "load"
             c == IF i = Bot THEN NoFile ELSE file[i]
             p == [op[a] EXCEPT !.item = i, !.todo = @ \ {i}, !.cfg = c, !.at = s]
  <2>2. op' = [op EXCEPT ![a] = p]
    BY <1>1, <2>1
  <2>3. s \notin Updating
    BY DEF Updating
  <2> HIDE DEF s, c
  <2>4. p.got = op[a].got /\ p.at = s
    BY <1>1 DEF Ops
  <2> HIDE DEF p
  <2> QED BY <2>2, <2>3, <2>4, EditedCarries
<1>8. CASE CheckLatest(a)
  <2>1. CASE op' = [op EXCEPT ![a].ver = latest, ![a].at = "download"]
    <3> DEFINE p == [op[a] EXCEPT !.ver = latest, !.at = "download"]
    <3>1. op' = [op EXCEPT ![a] = p]
      BY <1>1, <2>1
    <3>2. p.got = op[a].got /\ p.at \notin Updating
      BY <1>1 DEF Ops, Updating
    <3> HIDE DEF p
    <3> QED BY <3>1, <3>2, EditedCarries
  <2> QED BY <1>2, <1>8, <2>1, EndedCarries DEF CheckLatest
<1> QED BY <1>3, <1>4, <1>5, <1>6, <1>7, <1>8

\* No fault does.
LEMMA FaultCarries ==
  ASSUME Operations,
         \/ \E a \in Actors : CallFails(a) \/ PurgeFails(a) \/ CutShort(a)
         \/ \E i \in Items : Crash(i) \/ Retry(i)
         \/ Reboot \/ Release
  PROVE  Carries(op')
<1>1. op \in [Actors -> Ops] /\ Carries(op)
  BY DEF Operations, Carries
<1>2. ASSUME NEW a \in Actors, NEW o, Only(a, o), Carries(o), op' = [o EXCEPT ![a].sound = FALSE]
      PROVE  Carries(op')
  <2>1. /\ op'[a].at = o[a].at /\ op'[a].got = o[a].got
        /\ \A b \in Actors \ {a} : op'[b] = o[b]
    BY <1>2 DEF Only, Ops
  <2> QED BY <1>2, <2>1, AlikeCarries
<1>3. ASSUME NEW a \in Actors, CallFails(a) PROVE Carries(op')
  <2>1. "failed" \in Results /\ "ok" \in Results /\ "disable" \in Calls \ Updating /\ "rmunit" \in Calls \ Updating
    BY DEF Results, Calls, Updating
  <2>2. /\ Carries(Failed(a)) /\ Carries(Ended(a, "failed"))
        /\ \A o \in {Advance(a, "disable"), Advance(a, "rmunit"), UnitRemoved(a, "ok"), Removed(a, "ok"), Ended(a, "ok")} :
             Only(a, o) /\ Carries(o)
    <3>1. /\ Carries(Failed(a)) /\ Carries(Ended(a, "failed")) /\ Carries(Ended(a, "ok"))
          /\ Carries(UnitRemoved(a, "ok")) /\ Carries(Removed(a, "ok"))
      BY <2>1, EndedCarries, MovesOnCarry
    <3>2. Carries(Advance(a, "disable")) /\ Carries(Advance(a, "rmunit"))
      BY <2>1, AdvanceCarries
    <3>3. /\ Only(a, Advance(a, "disable")) /\ Only(a, Advance(a, "rmunit"))
          /\ Only(a, UnitRemoved(a, "ok")) /\ Only(a, Removed(a, "ok")) /\ Only(a, Ended(a, "ok"))
      BY <2>1, AdvanceIs, UnitRemovedIs, RemovedIs, EndedIs
    <3> QED BY <3>1, <3>2, <3>3
  <2>3. ASSUME NEW i, op' = [[op EXCEPT ![a].todo = @ \ {i}] EXCEPT ![a].sound = FALSE]
        PROVE  Carries(op')
    <3> DEFINE p == [op[a] EXCEPT !.todo = @ \ {i}, !.sound = FALSE]
    <3>1. op' = [op EXCEPT ![a] = p]
      BY <1>1, <2>3
    <3>2. p.got = op[a].got /\ p.at = op[a].at
      BY <1>1 DEF Ops
    <3> HIDE DEF p
    <3> QED BY <3>1, <3>2, EditedCarries
  <2> QED BY <1>2, <1>3, <2>2, <2>3 DEF CallFails
<1>4. ASSUME NEW a \in Actors, CutShort(a) PROVE Carries(op')
  BY <1>1, <1>4, KilledCarries DEF CutShort
<1>5. ASSUME NEW i \in Items, Crash(i) \/ Retry(i) PROVE Carries(op')
  BY <1>1, <1>5, KilledCarries DEF Crash, Retry, SetProc
<1>6. CASE Reboot
  BY <1>1, <1>6, KilledCarries DEF Reboot
<1>7. CASE Release
  <2>1. \A b \in Actors : op'[b].got = op[b].got /\ op'[b].at = op[b].at
    BY <1>1, <1>7 DEF Release, Ops
  <2> QED BY <1>1, <2>1, AlikeCarries
<1>8. ASSUME NEW a \in Actors, PurgeFails(a) PROVE Carries(op')
  <2> DEFINE p == [op[a] EXCEPT !.at = "rmbin", !.sound = FALSE]
             o == [op EXCEPT ![a] = p]
  <2>1. PICK S : op' = Unlinked([Advance(a, "rmbin") EXCEPT ![a].sound = FALSE], S)
    BY <1>8 DEF PurgeFails
  <2>2. [Advance(a, "rmbin") EXCEPT ![a].sound = FALSE] = o
    BY <1>1 DEF Advance
  <2>3. op[a] \in Ops /\ "rmbin" \in Calls \ Updating
    BY <1>1 DEF Calls, Updating
  <2>4. p \in Ops /\ p.got = op[a].got /\ p.at = "rmbin"
    BY <2>3 DEF Ops
  <2>5. o \in [Actors -> Ops] /\ o[a] = p /\ \A b \in Actors \ {a} : o[b] = op[b]
    <3> HIDE DEF p
    <3> QED BY <1>1, <2>4
  <2>6. Carries(o)
    <3> HIDE DEF p, o
    <3> QED BY <2>3, <2>4, <2>5 DEF Carries
  <2> HIDE DEF o
  <2> QED BY <2>1, <2>2, <2>5, <2>6, UnlinkedCarries
<1> QED BY <1>3, <1>4, <1>5, <1>6, <1>7, <1>8

\* No operation that starts does.
LEMMA StartsCarries ==
  ASSUME TypeOK, Operations, NEW a \in Actors, Starts(a)
  PROVE  Carries(op')
<1>1. op \in [Actors -> Ops]
  BY DEF Operations
<1>2. ASSUME NEW o \in Ops, Opens(a, o) PROVE Carries(op')
  <2> DEFINE others == {b \in Busy : Clash(o, op[b]) # {}}
  <2>1. op' = [b \in Actors |->
                  IF b = a THEN [o EXCEPT !.sound = (others = {})]
                  ELSE [op[b] EXCEPT !.sound = @ /\ b \notin others]]
    BY <1>2 DEF Opens, Begin
  <2> HIDE DEF others
  <2>2. op'[a].got = NoBinary /\ op'[a].at \notin Updating
    BY <1>2, <2>1 DEF Opens, Ops, Updating
  <2>3. \A b \in Actors \ {a} : op'[b].got = op[b].got /\ op'[b].at = op[b].at
    BY <1>1, <2>1 DEF Ops
  <2> QED BY <2>2, <2>3 DEF Carries
<1>3. ASSUME NEW verb \in {"start", "stop", "restart"}, NEW i \in Items, Control(a, verb, i) PROVE Carries(op')
  <2> DEFINE met == {b \in Busy : i \in Touches(op[b])}
             o == [b \in Actors |-> [op[b] EXCEPT !.sound = @ /\ b \notin met]]
  <2>1. PICK ends : op' = Killed(o, ends)
    BY <1>3 DEF Control
  <2>2. o \in [Actors -> Ops] /\ \A b \in Actors : o[b].got = op[b].got /\ o[b].at = op[b].at
    <3>1. \A b \in Actors : op[b] \in Ops /\ (op[b].sound /\ b \notin met) \in BOOLEAN
      BY <1>1
    <3>2. \A p \in Ops, s \in BOOLEAN :
            LET q == [p EXCEPT !.sound = s] IN q \in Ops /\ q.got = p.got /\ q.at = p.at
      BY DEF Ops
    <3> HIDE DEF met
    <3> QED BY <3>1, <3>2
  <2>3. Carries(op)
    BY DEF Carries
  <2> HIDE DEF o
  <2>4. Carries(o)
    BY <2>2, <2>3, AlikeCarries
  <2> QED BY <2>1, <2>2, <2>4, KilledCarries
<1>4. CASE \E verb \in {"start", "stop", "restart"}, i \in Items : Control(a, verb, i)
  BY <1>3, <1>4
<1>5. CASE ~ \E verb \in {"start", "stop", "restart"}, i \in Items : Control(a, verb, i)
  BY <1>2, <1>5, StartsOpen
<1> QED BY <1>4, <1>5

\* What a step of an operation leaves of the binary, and what stays spoilt.
LEMMA InstallLeaves ==
  ASSUME NEW a \in Actors,
         \/ OpenConfig(a) \/ FillConfig(a) \/ OpenTmp(a) \/ FillTmp(a) \/ RenameTmp(a)
         \/ WriteUnit(a) \/ EnableUnit(a) \/ RestartUnit(a) \/ Nudge(a)
  PROVE  UNCHANGED <<bin, latest>> /\ spoilt \subseteq spoilt'
<1>1. UNCHANGED <<bin, rest>>
  BY DEF OpenConfig, FillConfig, OpenTmp, FillTmp, RenameTmp, WriteUnit, EnableUnit, RestartUnit, Nudge
<1>2. spoilt \subseteq spoilt'
  BY DEF OpenConfig, FillConfig, OpenTmp, FillTmp, RenameTmp, WriteUnit, EnableUnit, RestartUnit, Nudge, SetProc
<1> QED BY <1>1, <1>2 DEF rest

\* The calls of a removal, the same.
LEMMA RemoveLeaves ==
  ASSUME NEW a \in Actors,
         \/ StopUnit(a) \/ DisableUnit(a) \/ RemoveUnit(a) \/ RemoveConf(a)
         \/ PickNext(a) \/ SaveFirst(a) \/ Answer(a) \/ Purge(a)
  PROVE  UNCHANGED <<bin, latest>> /\ spoilt \subseteq spoilt'
<1>1. UNCHANGED <<bin, latest>>
  BY DEF StopUnit, DisableUnit, RemoveUnit, RemoveConf, PickNext, SaveFirst, Answer, Purge, rest
<1>2. spoilt \subseteq spoilt'
  BY DEF StopUnit, DisableUnit, RemoveUnit, RemoveConf, PickNext, SaveFirst, Answer, Purge, SetProc
<1> QED BY <1>1, <1>2

\* Those of a backup and a restore, the same.
LEMMA RestoreLeaves ==
  ASSUME NEW a \in Actors,
         \/ ReadEntry(a) \/ SaveArchive(a) \/ OpenEntry(a) \/ FillEntry(a) \/ LoadNext(a) \/ Restored(a)
         \/ CheckLatest(a)
  PROVE  UNCHANGED <<bin, latest>> /\ spoilt \subseteq spoilt'
BY DEF ReadEntry, SaveArchive, OpenEntry, FillEntry, LoadNext, Restored, CheckLatest, rest

\* Faults leave the binary, and there may be one more release.
LEMMA FaultLeaves ==
  ASSUME TypeOK,
         \/ \E a \in Actors : CallFails(a) \/ PurgeFails(a) \/ CutShort(a)
         \/ \E i \in Items : Crash(i) \/ Retry(i)
         \/ Reboot \/ Release
  PROVE  UNCHANGED bin /\ latest' \in {latest, latest + 1} /\ spoilt \subseteq spoilt'
BY DEF CallFails, PurgeFails, CutShort, Crash, Retry, Reboot, Release, SetProc, rest

\* Operations that start leave it.
LEMMA StartsLeave ==
  ASSUME TypeOK, NEW a \in Actors, Starts(a)
  PROVE  UNCHANGED <<bin, latest>> /\ spoilt \subseteq spoilt'
<1>1. ASSUME NEW o \in Ops, Opens(a, o) PROVE UNCHANGED <<bin, rest>> /\ spoilt \subseteq spoilt'
  BY <1>1 DEF Opens, Begin
<1>2. ASSUME NEW verb \in {"start", "stop", "restart"}, NEW i \in Items, Control(a, verb, i)
      PROVE  UNCHANGED <<bin, rest>> /\ spoilt \subseteq spoilt'
  BY <1>2 DEF Control
<1>3. UNCHANGED <<bin, rest>> /\ spoilt \subseteq spoilt'
  BY <1>1, <1>2, StartsOpen
<1> QED BY <1>3 DEF rest

\* The download is of the newest release there is.
LEMMA DownloadIsReleased ==
  ASSUME TypeOK, Safe, BinaryIsReleased, NEW a \in Actors, NEW spoil \in BOOLEAN, Download(a, spoil)
  PROVE  BinaryIsReleased'
<1> DEFINE g == [ver |-> latest, whole |-> ~spoil]
           p == [op[a] EXCEPT !.got = g, !.at = "verify"]
<1>1. op[a] \in Ops /\ op \in [Actors -> Ops]
  BY Doing DEF Safe, Operations
<1>2. op' = [op EXCEPT ![a] = p] /\ UNCHANGED <<bin, latest, spoilt>>
  BY <1>1 DEF Download, rest
<1>3. p.got = g /\ p.at = "verify"
  BY <1>1 DEF Ops
<1>4. g.ver = latest
  OBVIOUS
<1> HIDE DEF p, g
<1>5. op'[a].got = g /\ op'[a].at = "verify" /\ \A b \in Actors \ {a} : op'[b] = op[b]
  BY <1>1, <1>2, <1>3
<1>6. latest \in Nat /\ latest > 0 /\ bin.ver \in Nat /\ bin.ver <= latest
  BY ServicesAssumption DEF TypeOK, Binaries, BinaryIsReleased
<1>7. Released(op[a])'
  BY <1>2, <1>4, <1>5, <1>6 DEF Released
<1>8. \A b \in Actors \ {a} : Released(op[b])'
  BY <1>2, <1>5 DEF Released, BinaryIsReleased
<1> QED BY <1>2, <1>7, <1>8 DEF BinaryIsReleased

\* Only the released file is let through as verified.
LEMMA VerifyIsReleased ==
  ASSUME TypeOK, Safe, BinaryIsReleased, NEW a \in Actors, Verify(a)
  PROVE  BinaryIsReleased'
<1>1. op[a] \in Ops /\ op \in [Actors -> Ops] /\ Released(op[a]) /\ op[a].at = "verify"
  BY Doing DEF Safe, Operations, BinaryIsReleased, Verify, At
<1>2. UNCHANGED <<bin, latest, spoilt>>
  BY DEF Verify, rest
<1>3. ASSUME NEW s \in {"trust", "replace"}, s = "replace" => op[a].got.whole, op' = Advance(a, s)
      PROVE  BinaryIsReleased'
  <2>1. s \in Calls
    BY DEF Calls
  <2>2. Only(a, op') /\ op'[a].at = s /\ op'[a].got = op[a].got
    <3>1. Only(a, op') /\ op'[a] = [op[a] EXCEPT !.at = s]
      BY <1>3, <2>1, AdvanceIs DEF Safe
    <3> QED BY <1>1, <2>1, <3>1, NextCall
  <2>3. Released(op[a])'
    BY <1>1, <1>2, <1>3, <2>2 DEF Released
  <2>4. \A b \in Actors \ {a} : Released(op[b])'
    BY <1>2, <2>2 DEF Only, Released, BinaryIsReleased
  <2> QED BY <1>2, <2>3, <2>4 DEF BinaryIsReleased
<1>4. CASE op' = Ended(a, "refused")
  <2>1. "refused" \in Results
    BY DEF Results
  <2>2. Carries(op')
    BY <1>4, <2>1, EndedCarries DEF Safe
  <2> QED BY <1>1, <1>2, <2>2, BinaryStays
<1>5. op[a].got = [ver |-> latest, whole |-> TRUE] => op[a].got.whole
  OBVIOUS
<1> QED BY <1>3, <1>4, <1>5 DEF Verify

\* Two that install at once have spoilt the binary.
LEMMA ReplaceIsReleased ==
  ASSUME TypeOK, Safe, BinaryIsReleased, NEW a \in Actors, ReplaceBinary(a)
  PROVE  BinaryIsReleased'
<1>1. op[a] \in Ops /\ Released(op[a]) /\ op[a].at \in {"replace", "trust"} /\ op[a].kind = "update"
  BY Doing DEF ReplaceBinary, BinaryIsReleased, Placed
<1>2. bin' = op[a].got /\ UNCHANGED <<latest, spoilt>> /\ op' = Ended(a, "ok") /\ "ok" \in Results
  BY DEF ReplaceBinary, rest, Results
<1>3. Only(a, op') /\ Resting(op'[a])
  BY <1>2, EndedIs DEF Safe
<1>4. ASSUME NEW b \in Actors \ {a} PROVE Released(op[b])'
  <2>1. op'[b] = op[b] /\ Released(op[b]) /\ Placed(op[b])
    BY <1>3, Doing DEF Only, BinaryIsReleased
  <2>2. ASSUME op[b].at \in {"verify", "replace", "trust"} PROVE "binary" \in spoilt
    <3>1. op[b].kind = "update"
      BY <2>1, <2>2 DEF Placed
    <3>2. "binary" \in Clash(op[a], op[b])
      BY <1>1, <3>1 DEF Clash, Touches
    <3> QED BY <1>1, <3>1, <3>2 DEF Safe, Shared, Busy
  <2> QED BY <1>2, <2>1, <2>2 DEF Released
<1>5. Released(op[a])'
  BY <1>3, RestingIsPlaced, NoBinaryType DEF Resting, Released
<1> QED BY <1>1, <1>2, <1>4, <1>5 DEF BinaryIsReleased, Released

\* No binary is older than any download.
LEMMA RemoveBinaryIsReleased ==
  ASSUME TypeOK, Safe, BinaryIsReleased, NEW a \in Actors, RemoveBinary(a)
  PROVE  BinaryIsReleased'
<1>1. bin' = NoBinary /\ UNCHANGED <<latest, spoilt>> /\ op' = Ended(a, "ok") /\ "ok" \in Results
  BY DEF RemoveBinary, rest, Results
<1>2. Only(a, op') /\ Resting(op'[a]) /\ op \in [Actors -> Ops]
  BY <1>1, EndedIs DEF Safe, Operations
<1>3. NoBinary.ver = 0 /\ ~NoBinary.whole /\ latest \in Nat
  BY NoBinaryType, ServicesAssumption DEF TypeOK
<1>4. ASSUME NEW b \in Actors \ {a} PROVE Released(op[b])'
  <2>1. op'[b] = op[b] /\ Released(op[b]) /\ op[b].got.ver \in Nat
    BY <1>2, ServicesAssumption DEF Only, BinaryIsReleased, Ops, Binaries
  <2> QED BY <1>1, <1>3, <2>1 DEF Released
<1>5. Released(op[a])'
  BY <1>2, <1>3 DEF Resting, Released
<1> QED BY <1>1, <1>3, <1>4, <1>5 DEF BinaryIsReleased

-----------------------------------------------------------------------------
(* The invariant                                                               *)

\* The invariant, in the parts the steps are proved by.
LEMMA InvIsSafe == IInv <=> TypeOK /\ Safe /\ BinaryIsReleased
BY DEF IInv, Safe

\* The hosts an operator may begin with meet the invariant.
LEMMA InvInit == Init => IInv
<1> SUFFICES ASSUME Init PROVE IInv
  OBVIOUS
<1> USE ContentFacts, ItemFacts
<1>1. op = [a \in Actors |-> Idle] /\ spoilt = {} /\ copied = {} /\ bin = [ver |-> 1, whole |-> TRUE] /\ latest = 1
  BY DEF Init
<1>2. \A a \in Actors : op[a] = Idle
  BY <1>1
<1>3. Resting(Idle)
  <2>1. 0 \in Releases
    BY ServicesAssumption DEF Releases
  <2>2. Idle \in Ops
    BY <2>1, Blank, EmptyBackup, NoBinaryType DEF Idle
  <2> QED BY <2>2 DEF Idle, Resting
<1> HIDE DEF Idle
<1>4. PICK S \in {{}, {Panel}, Items} :
        /\ file = [i \in Items |-> IF i \in S THEN Default ELSE NoFile]
        /\ unit = S /\ enabled = S
        /\ proc = [i \in Items |-> IF i \in S THEN Up(Default, 1) ELSE Off]
  BY DEF Init
<1>5. TypeOK
  <2>1. Default \in Contents /\ 1 \in 1 .. MaxVersion /\ S \subseteq Items
    BY ServicesAssumption
  <2>2. Up(Default, 1) \in Procs /\ Off \in Procs
    BY <2>1 DEF Procs
  <2>3. proc \in [Items -> Procs]
    BY <1>4, <2>2
  <2>4. archive \in Backups
    <3>1. PICK c \in Contents \ {Default} : archive = [i \in Items |-> c]
      BY DEF Init
    <3>2. archive \in [Items -> Contents \cup {Torn}]
      BY <3>1
    <3> QED BY <3>2 DEF Backups
  <2>5. file \in [Items -> OnDisk] /\ tmp \in [Daemons -> OnDisk]
    BY <1>4, <2>1 DEF Init
  <2>6. bin \in Binaries /\ started \in 0 .. MaxOps /\ faults \in 0 .. MaxFaults
    BY <1>1, <2>1, ServicesAssumption DEF Init, Binaries
  <2> QED BY <1>1, <1>4, <2>1, <2>3, <2>4, <2>5, <2>6 DEF TypeOK, Procs
<1>6. Operations /\ AllFound
  <2>1. Placed(Idle) /\ Idle \in Ops
    BY <1>3, RestingIsPlaced DEF Resting
  <2>2. \A a \in Actors : Found(op[a])
    BY <1>2, <1>3, RestingIsPlaced
  <2> QED BY <1>1, <1>2, <2>1, <2>2 DEF Operations, AllFound
<1>7. Shared
  BY <1>2, <1>3 DEF Shared, Busy, Resting
<1>8. BinaryIsReleased
  BY <1>1, <1>2, <1>3, RestingIsPlaced DEF BinaryIsReleased
<1>9. (\A n \in Names : ~Orphan(n)) /\ (\A d \in Daemons : Whole(d))
  <2>1. Default # NoFile /\ Default # Torn /\ Off.run = "off"
    BY ServicesAssumption DEF Off
  <2>2. \A i \in Items : /\ file[i] # Torn
                         /\ file[i] = NoFile => i \notin unit /\ proc[i].run = "off"
    BY <1>4, <2>1
  <2> QED BY <2>2 DEF Orphan, Clear, Whole
<1> QED BY <1>5, <1>6, <1>7, <1>8, <1>9 DEF IInv

\* Every step keeps it.
LEMMA InvStep == IInv /\ [Next]_vars => IInv'
<1> SUFFICES ASSUME TypeOK, Safe, BinaryIsReleased, [Next]_vars
             PROVE  TypeOK' /\ Safe' /\ BinaryIsReleased'
  BY InvIsSafe DEF IInv, Safe
<1>1. op \in [Actors -> Ops] /\ Operations
  BY DEF Safe, Operations
<1>2. ASSUME NEW a \in Actors,
             \/ OpenConfig(a) \/ FillConfig(a) \/ OpenTmp(a) \/ FillTmp(a) \/ RenameTmp(a)
             \/ WriteUnit(a) \/ EnableUnit(a) \/ RestartUnit(a) \/ Nudge(a)
      PROVE  TypeOK' /\ Safe' /\ BinaryIsReleased'
  <2>1. Safe'
    BY <1>2, OpenConfigStep, FillConfigStep, OpenTmpStep, FillTmpStep, RenameTmpStep,
       WriteUnitStep, EnableUnitStep, RestartUnitStep, NudgeStep
  <2> QED BY <1>1, <1>2, <2>1, InstallType, InstallCarries, InstallLeaves, BinaryStays
<1>3. ASSUME NEW a \in Actors,
             \/ StopUnit(a) \/ DisableUnit(a) \/ RemoveUnit(a) \/ RemoveConf(a)
             \/ PickNext(a) \/ SaveFirst(a) \/ Answer(a) \/ Purge(a)
      PROVE  TypeOK' /\ Safe' /\ BinaryIsReleased'
  <2>1. Safe'
    BY <1>3, StopUnitStep, DisableUnitStep, RemoveUnitStep, RemoveConfStep,
       PickNextStep, SaveFirstStep, AnswerStep, PurgeStep
  <2> QED BY <1>1, <1>3, <2>1, RemoveType, RemoveCarries, RemoveLeaves, BinaryStays
<1>4. ASSUME NEW a \in Actors, RemoveBinary(a)
      PROVE  TypeOK' /\ Safe' /\ BinaryIsReleased'
  BY <1>4, RemoveType, RemoveBinaryStep, RemoveBinaryIsReleased
<1>5. ASSUME NEW a \in Actors,
             \/ ReadEntry(a) \/ SaveArchive(a) \/ OpenEntry(a) \/ FillEntry(a) \/ LoadNext(a) \/ Restored(a)
             \/ CheckLatest(a)
      PROVE  TypeOK' /\ Safe' /\ BinaryIsReleased'
  <2>1. Safe'
    BY <1>5, ReadEntryStep, SaveArchiveStep, OpenEntryStep, FillEntryStep, LoadNextStep, RestoredStep, CheckLatestStep
  <2> QED BY <1>1, <1>5, <2>1, RestoreType, RestoreCarries, RestoreLeaves, BinaryStays
<1>6. ASSUME NEW a \in Actors, (\E spoil \in BOOLEAN : Download(a, spoil)) \/ Verify(a) \/ ReplaceBinary(a)
      PROVE  TypeOK' /\ Safe' /\ BinaryIsReleased'
  <2>1. Safe'
    BY <1>6, DownloadStep, VerifyStep, ReplaceBinaryStep
  <2>2. BinaryIsReleased'
    BY <1>6, DownloadIsReleased, VerifyIsReleased, ReplaceIsReleased
  <2> QED BY <1>6, <2>1, <2>2, RestoreType
<1>7. ASSUME \/ \E a \in Actors : CallFails(a) \/ PurgeFails(a) \/ CutShort(a)
             \/ \E i \in Items : Crash(i) \/ Retry(i)
             \/ Reboot \/ Release
      PROVE  TypeOK' /\ Safe' /\ BinaryIsReleased'
  <2>1. Safe'
    BY <1>7, CallFailsStep, PurgeFailsStep, CutShortStep, CrashStep, RetryStep, RebootStep, ReleaseStep
  <2> QED BY <1>1, <1>7, <2>1, FaultsType, FaultCarries, FaultLeaves, BinaryStays
<1>8. ASSUME NEW a \in Actors, Starts(a) PROVE TypeOK' /\ Safe' /\ BinaryIsReleased'
  <2>1. Safe'
    BY <1>8, StartsOpen, BeginStep, ControlStep
  <2> QED BY <1>1, <1>8, <2>1, StartsType, StartsCarries, StartsLeave, BinaryStays
<1>9. CASE UNCHANGED vars
  <2>1. UNCHANGED <<file, tmp, unit, enabled, proc, bin, latest, archive, copied, op, started, faults, spoilt>>
    BY <1>9 DEF vars, disk, system, rest, bounds
  <2>2. TypeOK'
    BY <2>1 DEF TypeOK
  <2>3. Safe'
    <3>1. \A i \in Items : Kept(i)
      BY <2>1 DEF Kept
    <3> QED BY <2>1, <3>1, NobodyStep
  <2>4. BinaryIsReleased'
    BY <2>1 DEF BinaryIsReleased, Released
  <2> QED BY <2>2, <2>3, <2>4
<1> QED BY <1>2, <1>3, <1>4, <1>5, <1>6, <1>7, <1>8, <1>9 DEF Next, Step

\* What two operations at once are changing is known to be spoilt, what one has
\* done to anything else still holds when it makes its next call, and every
\* binary there is has been released.
THEOREM Invariant == Spec => []IInv
<1>1. Init => IInv
  BY InvInit
<1>2. IInv /\ [Next]_vars => IInv'
  BY InvStep
<1> QED BY <1>1, <1>2, PTL DEF Spec

\* The variables keep their types (systemd.go, settings.go, backup.go, update.go).
THEOREM TypeCorrect == Spec => []TypeOK
<1>1. IInv => TypeOK
  BY DEF IInv
<1> QED BY <1>1, Invariant, PTL

\* A settings file is whole at every moment but while a restore writes over it,
\* or two saves at once, a restore cut short or a torn copy have been at it
\* (saveJSON, settings.go).
THEOREM SettingsAreWhole == Spec => []SettingsWhole
<1>1. IInv => SettingsWhole
  <2> SUFFICES ASSUME IInv, NEW d \in Daemons, file[d] = Torn, d \notin spoilt \cup copied
               PROVE  \E a \in Busy : op[a].at = "xfill" /\ op[a].item = d
    BY DEF SettingsWhole
  <2>1. PICK a \in Actors : op[a].at = "xfill" /\ op[a].item = d
    BY DEF IInv, Whole
  <2>2. a \in Busy
    BY <2>1 DEF IInv, Operations, Placed, Busy
  <2> QED BY <2>1, <2>2
<1> QED BY <1>1, Invariant, PTL

\* A unit or a process belongs to a tunnel that is listed, wherever the
\* operations on it stopped (Install and Remove, systemd.go).
THEOREM NothingIsOrphaned == Spec => []NoOrphans
<1>1. IInv => NoOrphans
  BY DEF IInv, Orphan, Clear, NoOrphans, List
<1> QED BY <1>1, Invariant, PTL

\* The installed binary is replaced by a newer one only, by a damaged one only
\* when there was no checksum, and what runs is left alone (Update, update.go).
THEOREM BinaryOnlyAdvances == Spec => BinaryAdvances
<1> DEFINE Advances1 == bin' # bin /\ bin' # NoBinary =>
             /\ bin'.ver >= bin.ver \/ "binary" \in spoilt
             /\ bin'.whole \/ \E a \in Busy : op[a].at = "trust"
             /\ proc' = proc
<1>1. IInv /\ [Next]_vars => [Advances1]_vars
  <2> SUFFICES ASSUME IInv, Next, bin' # bin, bin' # NoBinary
               PROVE  /\ bin'.ver >= bin.ver \/ "binary" \in spoilt
                      /\ bin'.whole \/ \E a \in Busy : op[a].at = "trust"
                      /\ proc' = proc
    OBVIOUS
  <2>1. PICK a \in Actors : ReplaceBinary(a)
    <3>1. TypeOK
      BY DEF IInv
    <3>2. \A a \in Actors : RemoveBinary(a) => bin' = NoBinary
      BY DEF RemoveBinary
    <3>3. \A a \in Actors : (\E spoil \in BOOLEAN : Download(a, spoil)) \/ Verify(a) => bin' = bin
      BY DEF Download, Verify
    <3> QED BY <3>1, <3>2, <3>3, StartsLeave, InstallLeaves, RemoveLeaves, RestoreLeaves, FaultLeaves DEF Next, Step
  <2>2. Released(op[a]) /\ op[a].at \in {"replace", "trust"} /\ a \in Busy /\ bin' = op[a].got /\ proc' = proc
    BY <2>1 DEF ReplaceBinary, IInv, BinaryIsReleased
  <2> QED BY <2>2 DEF Released
<1>2. Spec => [][Advances1]_vars
  BY <1>1, Invariant, PTL DEF Spec
<1> QED BY <1>2 DEF BinaryAdvances

-----------------------------------------------------------------------------
(* Versions                                                                    *)

\* The parts of a version.
LEMMA Fields ==
  ASSUME NEW a \in Version
  PROVE  a.known \in BOOLEAN /\ a.major \in Nat /\ a.minor \in Nat /\ a.patch \in Nat
BY DEF Version

\* A release is newer than those that are older.
LEMMA NewerIsOlder == ASSUME NEW a, NEW b PROVE Newer(a, b) <=> Older(a, b)
BY DEF Newer, Compare

\* What a string says is a version, whatever its parts are.
THEOREM ParseType == ASSUME NEW s \in Seq(Nat \cup {Word}) PROVE Parse(s) \in Version
<1>1. \A i \in Nat \ {0} : Part(s, i) \in Nat \cup {Word}
  BY DEF Part
<1>2. CASE s = <<>> \/ Word \in {Part(s, 1), Part(s, 2), Part(s, 3)}
  BY <1>2 DEF Parse, Unknown, Version
<1>3. CASE ~(s = <<>> \/ Word \in {Part(s, 1), Part(s, 2), Part(s, 3)})
  BY <1>1, <1>3 DEF Parse, Version
<1> QED BY <1>2, <1>3

\* The updater's three answers exclude each other, and exchanging the two
\* versions reverses the answer.
THEOREM CompareAntisymmetric ==
  ASSUME NEW a \in Version, NEW b \in Version
  PROVE  Compare(a, b) = -Compare(b, a)
<1>1. ~(Older(a, b) /\ Older(b, a))
  BY Fields DEF Older
<1> QED BY <1>1 DEF Compare

\* Being newer is transitive: an update from release to release, whatever the
\* releases are, never comes back to an older one.
THEOREM NewerTransitive ==
  ASSUME NEW a \in Version, NEW b \in Version, NEW c \in Version, Newer(a, b), Newer(b, c)
  PROVE  Newer(a, c)
<1>1. Older(a, b) /\ Older(b, c)
  BY NewerIsOlder
<1>2. Older(a, c)
  BY <1>1, Fields DEF Older
<1> QED BY <1>2, NewerIsOlder

\* No version is offered as an update of itself, nor one that only differs in
\* what Parse cuts off.
THEOREM EqualIsNotNewer ==
  ASSUME NEW a \in Version, NEW b \in Version, Compare(a, b) = 0, a.known
  PROVE  a = b
<1>1. ~Older(a, b) /\ ~Older(b, a)
  BY DEF Compare
<1>2. a.known = b.known
  BY <1>1, Fields DEF Older
<1>3. a.major = b.major /\ a.minor = b.minor /\ a.patch = b.patch
  <2>1. ~(a.major < b.major) /\ ~(b.major < a.major)
    BY <1>1, <1>2 DEF Older
  <2>2. a.major = b.major
    BY <2>1, Fields
  <2>3. ~(a.minor < b.minor) /\ ~(b.minor < a.minor)
    BY <1>1, <1>2, <2>2 DEF Older
  <2>4. a.minor = b.minor
    BY <2>3, Fields
  <2>5. ~(a.patch < b.patch) /\ ~(b.patch < a.patch)
    BY <1>1, <1>2, <2>2, <2>4 DEF Older
  <2> QED BY <2>2, <2>4, <2>5, Fields
<1>4. /\ a = [known |-> a.known, major |-> a.major, minor |-> a.minor, patch |-> a.patch]
      /\ b = [known |-> b.known, major |-> b.major, minor |-> b.minor, patch |-> b.patch]
  BY DEF Version
<1> QED BY <1>2, <1>3, <1>4

\* Only peers that really are behind are warned about.
THEOREM MuchOlderIsOlder ==
  ASSUME NEW p \in Version, NEW s \in Version, MuchOlder(p, s), p.known => s.known
  PROVE  Newer(p, s)
<1>1. Older(p, s)
  BY Fields DEF MuchOlder, Older
<1> QED BY <1>1, NewerIsOlder

\* A peer that is too old for a release is too old for all later ones: a
\* warning does not go away by waiting for the next release.
THEOREM MuchOlderStays ==
  ASSUME NEW p \in Version, NEW s \in Version, NEW t \in Version,
         s.known, MuchOlder(p, s), ~Newer(t, s)
  PROVE  MuchOlder(p, t)
<1>1. ~Older(t, s)
  BY NewerIsOlder
<1>2. t.known
  BY <1>1 DEF Older
<1>3. CASE ~p.known
  BY <1>2, <1>3 DEF MuchOlder
<1>4. CASE p.known
  <2>1. s.major < t.major \/ (s.major = t.major /\ s.minor <= t.minor)
    BY <1>1, <1>2, Fields DEF Older
  <2>2. p.major < s.major \/ (p.major = s.major /\ s.minor - p.minor >= 2)
    BY <1>4, Fields DEF MuchOlder
  <2>3. p.major < t.major \/ (p.major = t.major /\ t.minor - p.minor >= 2)
    BY <2>1, <2>2, Fields
  <2> QED BY <1>4, <2>3, Fields DEF MuchOlder
<1> QED BY <1>3, <1>4

\* The warning grows with the release and only names linked peers.
THEOREM StalePeersGrow ==
  ASSUME NEW states, \A st \in states : st.version \in Seq(Nat \cup {Word}),
         NEW s \in Version, NEW t \in Version, s.known, ~Newer(t, s)
  PROVE  stalePeers(states, s) \subseteq stalePeers(states, t)
<1> SUFFICES ASSUME NEW st \in states, st.linked, st.version # <<>>, MuchOlder(Parse(st.version), s)
             PROVE  MuchOlder(Parse(st.version), t)
  BY DEF stalePeers
<1> QED BY ParseType, MuchOlderStays
=============================================================================
