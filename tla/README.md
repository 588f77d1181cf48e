# BackFire, specified

TLA+ modules for BackFire's tunnel engines and for what surrounds them, TLC runs
that check them on small instances, and TLAPS proofs for every size. Paths below are those of the
repository.

BackFire is a reverse tunnel. An exposed *server* publishes ports; a *client*
behind a NAT dials out to it; every end user that connects to a published port
is carried over the client's link to a target on the client's side. In *mux*
mode one link carries all users as streams of a smux session, in *pool* mode
every user takes one of the links the client has parked at the server
beforehand. A second engine, *backhaul*, carries IP packets between two TUN
devices. Around the engines there are a menu, a web panel, a Telegram bot, a
service manager, backups and an updater, which talk to the engines through
files and systemd.

## The system

| component | state | operations | interacts through |
|---|---|---|---|
| warm pool (`internal/pool`) | parked links with their time, the wait channel, closed | Put, Get, Close, ReapStale, role byte | called by the server's goroutines under a mutex |
| server (`internal/server`) | current mux session, ready queue, forwards | accept a link, authenticate, install or park it, forward a user, reap | links to the client, user connections, linked flag and gauges |
| client (`internal/client`) | backoff, useV1, one mux link or N pool workers | dial, handshake, announce, serve a target, retry | links to the server, local targets |
| handshake (`internal/protocol`) | none beyond one connection | magic, challenge, proof, status, versions; target frames | the bytes of a link |
| transports (`internal/transport`) | per connection: salts, keys, sequence numbers | listen, dial, record layer, websocket and KCP adapters | wrap a connection |
| multiplexer (`internal/mux`) | smux, external | open and accept streams, keepalive | one link |
| pipe (`internal/utils`) | two copying goroutines | copy until either ends, close both | the meter |
| backhaul (`internal/backhaul`) | lastRecv, linked, carrier sockets, a kernel setting | two pumps, keepalive, watchdog | TUN, carrier, metrics |
| metrics (`internal/metrics`) | counters, history, the state file | count, sample, publish, read all | atomics; files read by panel, bot and menu |
| engine process (`main.go`, `internal/app`) | none | load a file, register what will be shown, run one engine | the config file, the state file |
| configuration (`config`) | the config file | load with defaults and validation, save, parse forwards | written by menu, restore and editor, read by engines |
| settings (`internal/app/settings.go`) | two JSON files | load, save over a temporary file | written by menu and restore, read by panel and bot |
| services (`internal/manage`) | unit files, what systemd runs and enables | install, remove, control, list, restore | menu, panel; systemd |
| backup (`internal/backup`) | an archive | build, extract | reads and writes configs and settings |
| updater (`internal/updater`) | the installed binary | check, download, verify, replace; compare versions | GitHub; menu, panel, bot |
| bot (`internal/telegram`) | offset, last linked flags, crossed thresholds | poll, handle, check, broadcast | Telegram, state files |
| panel (`internal/webui`) | sessions | show, control, back up, restore, update | state files, services |
| menu (`internal/menu`) | a dialogue | create, set up, manage, remove, update, uninstall | all of the above |

What is hard here: many goroutines per link that take a lock for a moment and
act on what they saw after releasing it; links whose two ends die apart;
restarts and reconnects that overlap with the taking down of what they replace;
two protocol versions and a fallback by failure; deadlines set by one layer and
cleared by another; shutdown while something blocks; files that several
processes write in steps, and operations of a dozen calls of which any may fail;
state read from files that outlive their writers; alerts that must neither
repeat nor stay wrong. `PROJECT.json` lists every such place as a hazard, with
the property that watches over it or the reason why none does.

What makes each component right:

* pool: a parked link goes to one user at most, is closed exactly once and not
  while it is used, nobody sleeps next to a parked link, shutdown is final;
* server and client in pool mode: a link carries one user, at both ends the
  same one; the pool refills; no user hangs on a dead link; gauges are exact;
* in mux mode: one live session, a dead one is never left in place, the tunnel
  heals, users of a replaced session are let go;
* handshake: the server takes no link without the token, both ends agree about
  the version, the stream is clean for what comes next, any two versions link up,
  no peer pins a goroutine;
* backhaul: the link state follows what was received; the host gets back the
  setting its servers have changed; shutdown ends;
* metrics and their readers: what is shown is true once it has lasted; an
  update is handled once; an alert per transition, and the last one is right;
* configuration: what passes validation every part can work with, two ends that
  run on what the menus wrote can link, what is shown as published is;
* services, settings, backups, updates: what is reported as done is done,
  nothing runs that cannot be found, no file is half-written for a reader, the
  binary never gets older.

## The modules

### LinkPool: what the pool promises

A link is `gone`, `offered`, `parked`, `handed` or `dropped`; a handed link has
one user; users are served from an open pool only. No lock, channel, order or
clock. It is the abstract specification of `pool.Ready`, and the part of the
server that `PoolTunnel` is built on.

### ReadyQueue: pool.Ready

`links`, `closed`, `wait` are the fields of `Ready`. Each critical section of
`r.mu` is one action: `Put`, the three outcomes of a round of Get's loop
(`LookClosed`, `LookTake`, `LookWait`), `Close`, `ReapStale`. What happens after
the unlock is an action of its own: waking up or giving up in Get's select
(`Wake`, `GiveUp`), closing the links a section removed (`CloseDead`). Channels
are values: `make` returns one that nobody refers to, closing a closed one sets
`panicked`. Goroutines are `Getters` (forward), the links in `fresh` (onLink up
to Put) and three closers. `open` is the truth about connections, which the
queue itself never looks at. Time is the age of each parked link, up to one
unit past the timeout.

### PoolTunnel: a tunnel in pool mode

Composes `LinkPool` with the client. A worker (`pc`) goes through dialing,
announcing (WriteRole), parked (ReadTarget), connecting (local dial), serving
(pipe) as `poolWorker` and `serveLink` do; the server's goroutines of a link and
of a user are the actions on the pool's state. The two ends of a link close on
their own; what was written before can still be read; a broken link may deliver
it or not, and neither side need notice at once. The client may be told to stop
(`Cancel`), the server too (`Stop`); a stopped server's pipes last until their
users hang up, as the end of its process is not modelled.

### MuxTunnel: a tunnel in mux mode

`runMux` and `serveMuxOnce` on one side, `onMuxLink` with `setCurrent` and
`clearCurrent` on the other, one action per critical section and per change of
state between two. More than one client may be configured with the token; the
later one supersedes. smux is external: a session has an endpoint at either side
that goes down when closed, or when it notices that the other one or the path is
gone. A failure of mux.Client or mux.Server to accept its configuration is left
out.

### Handshake

Both directions of a connection are queues of messages. The client follows
`ClientHandshake` and `dialAuthenticated`, including the redial in version 1;
the server's goroutines follow `onLink` and `ServerHandshake`. Something that is
not a client may connect and send junk or nothing. The server may be a
version-1-only build, known only from what the client does about it, and may be
updated. On the stealth transport the first read runs the salt exchange, which
ends by clearing the deadline. A proof is good exactly if the tokens are equal:
the challenge is fresh and answered on its own connection.

`ClientHandshake` asks the other end for no proof of anything. So the address
the client dials may also lead elsewhere (`Elsewhere`, then `astray`): what
answers there may say whatever the client waits for, and the client links to it.
`TokenDecides` therefore holds of the server without a condition, and of the
client as far as it has reached the server.

### Backhaul

The two ends of a layer-3 tunnel. `eng[e]` is an engine's state with the two
tickers that have fired (`due`); the watchdog's reading of the time
(`WatchdogLooks`) and its verdict (`WatchdogDrops`) are two steps, as nothing
protects what comes between. `Hear` is a round of `carrierToTun` with the
carrier's Receive, which learns an address before anything is authenticated.
A frame is known by the key that sealed it, an address by whether the client has
it now. Frames get lost, the client moves, unrelated traffic arrives, ends stop,
fail, restart and are killed, until the network is stable. The kernel of the
server's host answers echo requests unless told not to. An ICMP server tells it
when it starts (`Silenced`), or cannot and runs all the same (`Refused`); it may
give up after that without putting the setting back (`GivesUp`); its Close writes
the old value back, and passes over a failure (`GivesBack`). The host may have
the server of another ICMP tunnel (`Neighbour`), which does the same to the one
setting they share. The TCP carrier, which
ends the engine with its stream, the TUN device, headers and spoofing are left
out.

### Services: files, units and the operations on them

A host's tunnels and its two daemons (`Items`), each with its config or settings
file, its unit file, whether systemd starts it at boot (`enabled`), and what runs
(`proc`: from which content, of which binary); the binary, the newest release,
the operator's backup. Menus and requests (served by the panel or the bot, and
ending with it) carry out `op[a]`, one action per call that changes the disk or
systemd: `Install` is `OpenConfig` (config.Save truncates the live file),
`FillConfig`, `WriteUnit`, `EnableUnit`, `RestartUnit`; a save is `OpenTmp`,
`FillTmp`, `RenameTmp` on the one temporary name all writers share; `Remove` is
`StopUnit`, `DisableUnit`, `RemoveUnit`, `RemoveConf`, each of which passes over
a failure and goes on with the next, a daemon-reload that fails is reported
(`Reloaded`); a daemon keeps its settings (`UnitRemoved`).
Uninstall lists what it will remove before it asks, and goes on when the configs
(`PurgeFails`) or the binary cannot be removed; Build and Extract go
file by file; Restore re-installs each tunnel that loads and then the bot; an
update checks, downloads, verifies and renames with releases in between. Any
call may fail (`CallFails`, with what the caller does then), any operation may
be cut short, processes crash, the host reboots. An open file is followed
through unlink and rename (`fd`), and a write over what another has written
meanwhile may leave a mixture (`Torn`). Two history variables say what may be
wrong without a defect of one operation: `spoilt`, what two of them have worked on
at once, a passed-over failure has left or a write cut short has torn, and `copied`,
what a restore has written from a copy that was torn when it was taken.
`ReportsAreTrue` holds an operation to exactly what it reports, an update to the
version it names; an operation is no longer `sound`, and not held to it, once it has
passed over a failure, shared something with another, or was overtaken by a release
between its look-up and its download. What the requests of the panel may do
depends on its monitoring-only mode. An update ends with the binary in place:
the restarts the menu offers afterwards are `Control`'s.

### Monitor: what the operator is shown and told

Engines publish their flag on every sampling interval and take the file away when they
stop, unless the process is gone first; an engine that has started publishes when its
goroutine gets to it, so for a while its file may be an old engine's; `ReadAll` believes recent files;
`Shown` is the dot of panel, menu and bot. The bot's alert loop is one check
after the other: thresholds (`CheckThresholds`, with the hysteresis as a load
that is near), tunnels (`CheckTunnels`, which reads the files after the messages
about thresholds have gone out), each message to each admin a step that may fail
(`Send`). Its poller takes up batches (`Poll`, `Handle`) and acknowledges with
the next poll. Start-up drops the pending updates or fails to. `heard` is
history: what an admin has been told last, by whichever bot, or may take from
silence; the end of a bot does not change it. `missed` says of which admin and
subject it is no longer what the bot believes: a message about it was lost, or
a new bot, which knows nothing of what an old one said, believes otherwise.

### TunnelConfig: from the dialogue to the engine

Two hosts: on one the menu creates a server and prints what the other side has
to enter, on the other the menu creates the client accordingly; or an operator
writes a file, here a working one with a value changed. `stage` says how far an
engine has come: `Load` is applyDefaults and Validate and may refuse the file;
from then on `PublishLoop` may write the state file, with the ports `app.Run` has
registered, at any moment, while Run goes on: `Listen` for the tunnel itself,
`publish` for one forward after the other, until all are listened for or one
fails and the process ends with its listeners and, perhaps, its state file
(`Fails`). A forward of the tunnel's own port fails on the transports that listen
on TCP. `Run` is a client's start or a backhaul's. Strings are the kinds the code
treats alike: a bare port, host:port, nothing, neither. Numbers are numbers: every
default and limit of config.go is there, and what is made of them afterwards,
the limits smux checks at every link (`MuxAccepts`) and the shards kcp gives its
encoder (`Shards`).

### Versions: what the updater compares

Pure functions, with theorems in `ServicesProofs` instead of a run: parsing,
comparing, much older, the list of peers that are left behind.

## The runs

| run | instance | what it shows |
|---|---|---|
| ReadyQueue | 2 links, 2 users, 4 channels, timeout 1 | custody of links, channels and wakeups; implements LinkPool; freshest link first; Close releases everybody, the reaper empties, Get returns |
| PoolTunnel | 2 workers, 3 links, 2 users | a link serves one user and the right one; gauges |
| PoolTunnelLive | 1 worker, 2 links, 2 users | the pool refills, nobody is stranded |
| MuxTunnel | 1 client, 2 sessions, 1 user | sessions are accounted for; the tunnel heals; users and the client are let go |
| MuxTunnelLinked | 1 client, 2 sessions, 1 user | *violation*: linked is false on a linked tunnel |
| Handshake | 2 connections, every pair of builds and tokens, both kinds of transport | the token decides at the server, clean agreement, mixed versions link, goroutines freed |
| HandshakeStealth | 2 connections | *violation*: a goroutine is pinned on stealth |
| Backhaul | 2 ends, UDP and ICMP, a second ICMP server on the host, timeout of 1 interval | link state, echo setting, links come up and go down |
| Services | 1 tunnel and 2 daemons, 2 menus and 1 request, 2 operations, 1 fault, 2 releases | reports are true, settings whole, no orphans, the binary advances |
| Monitor | 1 tunnel, 2 admins, one of them hard to reach, files believed for 2 intervals | what is shown is true; updates once; alerts once per transition and converging, restarts of the bot aside |
| TunnelConfig | 2 hosts, ports 0, 443 and 70000, counts 0, 1 and 70000 | what loads is usable, pairs can link, what is published is shown |
| TunnelConfigCreated | the same | *violation*: a client created from the menu does not load |

Several properties are conjunctions that share a subject, each part under a name
of its own in the module: Custody (one holder, open if and only if held, ordered by age,
empty when closed), Channels (no lost wakeup, no second close), UsedOnce,
SessionsAccounted, LetsGo, CleanAgreement, LinkedIsHonest, LinkFollowsPeer.

**Bounds.** Links, sessions, connections and channels are taken up again once
nothing refers to them, so behaviours are unbounded although the sets are
finite; the sets bound how many exist at once. Two links let one be parked
while the other is handed, closed or on its way in, and let both be parked in
either order of age; four channels are one per user, the current one and a new
one. What needs more links than two is proved for any number. Two workers and three links let a worker redial while the
server still holds the other end of its last link. Two sessions let a client's
old session be taken down while its new one comes up, and the goroutine of the
one act on the server's state between any two steps of the other's; several
clients at once, and any number of sessions, are covered by the proof. Two
connections let the client use one while the server still
talks on the other, to the client's last attempt or to a stray peer; connections
share nothing else at the server. The backoff is a number of doublings up to
MaxDelay (0 or 1): what follows from it is the same for any maximum. Stray
peers leave one connection free, as a listener always does. Ages stop counting
one unit past the timeout. In Backhaul one frame is under way to each end, the
latest, as frames carry nothing but who has sent them; the timeout is one
interval instead of the code's four, the least that a live link survives; a raw
carrier other than ICMP behaves as ICMP on a host that answers no pings, which
the run includes. The neighbour shares nothing with the ends but the setting, so
it is there in one of their configurations only, on a host that answers pings.

In Services two operations of any kind run at once and, as the first may end
before the second begins, one after the other; a third that is a single call
(`Control`) counts as one of them. One tunnel is enough for what an operation
does to its item, and uninstall, backup and restore take the daemons as further
items. Two contents tell old from new, one of them puts the panel in
monitoring-only mode. One fault at any call is what each error path answers to;
two failures in one operation are not covered. A release
comes while someone updates, which is when it is noticed. The host starts with
nothing, with the panel or with everything, and a backup that says something else. In Monitor a file is believed for
two intervals instead of three and a publication is late by one at most; one of
two admins may miss messages (`Flaky`), the other gets all of them, which tells
their histories apart; a bot
either sends alerts or receives updates (`alertsOn`), which share nothing but
the process, so their product is left out; two updates are a batch that a
restart can fall into. In TunnelConfig the ports are the special one, a usable
one and one that is out of range, the counts the zero that asks for the default,
the least, and one above the pool's limit and smux's for a frame. A file written
by hand is looked at for itself: only the menu's files come in pairs. Forwards are
at most two, which is how many it takes to collide; a port the system picks is
taken not to be one the file names.

**Symmetry** is used in PoolTunnel and Services, which have no liveness property,
over sets whose members are alike. **Deadlock** is checked except in MuxTunnel,
where all clients may have stopped, in Handshake, where a linked tunnel on a
faultless network rests, in Services, where the bounds end, and in TunnelConfig,
where both engines run.

**Fairness.** Goroutines that can run do. Where a wait has a deadline it
passes: the reaper's ticker, linkFor's five seconds, dials, the keepalive of
smux and of TCP on a dead path, the backhaul's tickers. Dials succeed only when the network has become
stable. Nothing makes a user come or hang up, a local service close, or
anybody stop a side. In Monitor time passes, running engines publish, the bot's
two loops go on and a message is sent or fails; nothing makes an engine start,
a link come or a bot run: what converges does so while the bot stays up and the
thing it is about stays as it is. `GetReturns` alone needs strong fairness, which its
statement carries as a hypothesis: when both cases of Get's select are ready Go
picks at random, so a getter that comes back to it again and again will draw the
deadline some time.

## What is proved

TLAPS proves, for every value of the constants, every safety invariant and action
property that the runs check, with one exception (below). The assumptions are that the
"nil" constants are not members of the sets, that bounds and typed numbers are
numbers, that a pool's workers and links and the ports of a host are finitely
many (gauges count them), and that "no config" is not a config.
Each module of proofs states the inductive invariant `IInv`, why it holds at
first and after each action, one lemma or step per action, and what follows.

* `ReadyQueueProofs`: every safety property of the run ReadyQueue. `IInv` adds to
  the properties that a user who asks holds no link and that only a waiting user
  has captured a channel; type, wakeups, order and ownership are then preserved one
  by one. `HandsOutFreshest` follows from the order of ages. The reaper's filter
  `Keep` is a recursive function: that it yields an order-preserving selection of
  the fresh entries is proved by induction, with sets of naturals in place of the
  library's induction theorem. `ImplementsPool` is the refinement: each critical
  section is a step of LinkPool or a stutter, as a link's abstract state follows
  from which of the queue's sets it is in (`StateOf`), which exclude each other
  (`Apart`).
* `MuxTunnelProofs`: `SessionsAccounted` and the types. Not inductive by
  itself: what is added is that a remembered session is still to be closed
  (`OldIsPending`) and that a session is down once its goroutine has stopped
  draining it (`UpIsServed`).
* `PoolTunnelProofs`: `UsedOnce` and `GaugesExact`. `Ends` says where the two ends of a
  link stand: a worker's link is its own, a link nobody holds is blank, a link is
  handed out only once announced, and the user a worker serves is the one the
  server wrote to that link. The gauges are the cardinalities of what is
  piped and served.
* `HandshakeProofs`: `TokenDecides` and `CleanAgreement`, for any number of connections.
  The invariant relates, for each connection, where either goroutine is to what is
  under way in both directions: what the server's side has written and will read
  (`ServerSide`), the same for the client's attempt (`ClientSide`), and that an end knows of
  the other only what it has read (`NotedWhenRead`). Where the client has gone astray
  nothing of the server is on its connection (`Outside`), so nothing is claimed of it.
* `BackhaulProofs`: every safety property of the run Backhaul, for every timeout
  and the raw carriers too. What an end shows follows from what is under way to
  it (`WireIsHonest`); that no end gets its own frames, but an ICMP client from a
  host that answered pings at first, follows from the echo setting (`FoundStays`).
  `EchoIsGivenBack` rests on who will write the setting back: at most one server,
  which is running (`RestorersRun`), and if none will, the kernel is silent only
  because it was at first or because one has failed to (`SilenceHasReason`). Two
  servers on a host cannot both have changed it, as the second one finds it changed.
* `TunnelConfigProofs`: `LoadedIsUsable`, `PairMatches` and `ShowsWhatItPublishes`, for every
  set of ports and counts. What Validate lets through every part can dispatch on
  (`ValidIsDispatched`); whatever integers a file holds, applyDefaults returns numbers in
  range (`NumbersInRange`), smux takes them unless the file itself set a mux size
  (`SmuxTakes`), and the encoder gets a whole ratio or none (`RatioMade`). A config is only
  ever what its file loads as (`ConfigsAreLoaded`), a client's file what the printout asks
  for, and both menus leave to the defaults what the ends must have alike but are not
  asked for (`PrintedIsFollowed`): from that two running engines can link. `Serving` relates
  the engine's stage to what it listens for and shows: nothing before it has
  loaded, never more than its config's, all of it once it runs.
* `MonitorProofs`: `ShownIsTrue`, `UpdatesHandledOnce` and `OncePerTransition`, for every delay of
  publication and timeout of files that the assumptions allow. A file is as old as the
  engine's last publication and right if the flag has not changed since
  (`FilesInStep`); a message that waits to be sent says what the bot believes, to an
  admin who has heard otherwise, unless the two have come apart over its subject, and who is not about
  to be told has heard it (`MailIsNews`); what was taken up was handled or dropped, and what was
  handled is acknowledged or behind the bot's offset (`UpdatesInOrder`).
* `ServicesProofs`: `SettingsWhole`, `NoOrphans` and `BinaryAdvances`, for any number of tunnels,
  menus, requests, operations and faults. `IInv` says which operation may be
  at which call (`Placed`), that what two operations are changing at once is spoilt
  (`Shared`), and that what an operation has done to a thing that is not spoilt is
  still so (`Found`): what it has stopped is stopped, what it has written to the temporary
  file is there. A step of one operation changes only what that operation touches, which
  is spoilt for any other that touches it: `ActorKeeps` says so once for all
  actions, and leaves each action's lemma its own item. What a process's death
  does to the requests it serves, and an unlink or rename to files others have
  open, is `Bystander`. The download carries a released version through to the
  rename (`Carries`, `Released`).
  Of `Versions`: the comparison is antisymmetric and transitive, equal means equal,
  being far behind implies being older and does not go away with a later release.

Three things came to light only through the proofs. An older statement of `SettingsWhole`
was false from four operations on, beyond the run's bound: a backup of a torn
settings file can be restored, which is what `copied` is for. Remove after a unit
file that could not be deleted was modelled as ending there; `systemd.go:75-78`
goes on to the config. And three definitions used CASE with guards that overlap, which
TLC resolves by order and the logic does not.

Model-checked only: liveness, which is beyond the prover (`CloseReleasesAll`,
`ParkedLinkLeaves`, `GetReturns`, `PoolRefills`, `NobodyStranded`, `TunnelHeals`, `LetsGo`,
`GoroutineFreed`, `MixedVersionsLink`, `LinkFollowsPeer`, `AlertsConverge`); and `ReportsAreTrue` of Services, which
needs a second invariant: what each kind of operation has achieved so far, for
as long as it is sound.

## What the code does otherwise than it says

Each has a run with a counterexample, and an entry in PROJECT.json with the
quotation:

* HandshakeStealth: the salt exchange clears the deadline of the handshake it
  runs in, so a silent peer pins a goroutine (`transport/stealth.go:140`).
* MuxTunnelLinked: the goroutine of a replaced session resets the linked flag of
  its successor (`server/server.go:189`).
* TunnelConfigCreated: a client created with an IPv6 address is said to run, and
  its engine never loads the file (`menu/menu.go:231`); the check that would
  catch it is not called (`menu/backhaul.go:48`).

Seen on the way, without a run.

Tunnels:

* the client verifies nothing of what it has reached (`protocol.go:152-183`): it
  links to whatever sends 32 bytes and the status of success, although
  `protocol.go:2-3` calls this "a mutual-auth handshake proving both peers hold
  the shared token";
* in pool mode nothing resets the server's linked flag (`server.go:207`),
  although `metrics.go:47` has it set "while a peer is connected";
* a taken link is replaced only when its connection ends (`client.go:182`),
  although `pool.go:15-16` has the client dial a replacement;
* a pool worker that is parked or serving does not notice the end of the context
  (`client.go:146`), so Run does not return as `client.go:73` says; the process
  ends with main all the same;
* a frame that opens counts as the peer's, and an ICMP client's own frames come
  back from a host without a running server (`backhaul/engine.go:223`), although
  `engine.go:98-100` has it never show a peer that was not reachable;
* a raw server that hears anything of its protocol before its client keeps that
  sender as its peer (`carrier_raw.go:129`), although `engine.go:206` calls
  unrelated traffic dropped; the watchdog may take down a link that was heard
  from after it looked, until the next frame;
* an ICMP server leaves the host without echo replies for good when it is killed,
  when it fails at IP_HDRINCL after it has changed the setting
  (`carrier_raw.go:71-75`), or when Close cannot write (`carrier_raw.go:240`); one
  that cannot change the setting runs with the kernel answering in its place; of
  two ICMP servers on one host the first to start takes the silence away from the
  other when it stops;
* runMux never resets its backoff although `config.go:286` calls MinBackoff the
  first wait after a link drops; each reconnect leaves the goroutine of
  `client.go:117` behind until the process ends;
* two goroutines that have both authenticated a client may install their
  sessions in either order although `server.go:48` calls the current one the
  newest; any failed read of a challenge, not only a version-1 build, switches a
  client to version 1 for good (`client.go:41`).

Configuration:

* what Validate passes and the engine then cannot open: IPv6 tunnel addresses
  (setAddr is IPv4 only), ports out of range in `bind` and forwards, two forwards
  of one port, a forward of the tunnel's own port on a transport that listens on TCP,
  a client's UDP or TCP backhaul without a peer; a backhaul's role is not looked at;
* Validate passes a max_receive_buffer below the stream buffer, also the default
  one, and a max_frame_size above 65535: smux refuses every session (`mux.go:21-36`),
  so the engines run and no link ever comes up;
* `config.go:222` and `config.go:248` say that without a pair of shards FEC is
  disabled; on kcp the encoder then gets 10 to 3 (`kcp.go:52-57`);
* a server told to listen on port 0 listens where the system likes, and its
  client is told to dial port 0; the port of a forward on 0 is shown nowhere;
* the two ends must agree on the shard ratio (`README.md:171-172`); both menus ask
  for it, and the server's does not print it for the other end to repeat;
* the state file may list ports before anything listens, and after a start that
  failed; a backhaul's forwards are listed and nothing listens for them, although
  `config.go:499` says they are published.

Services:

* two saves of one settings file at once share its `.tmp`, and may leave a mixture;
* Remove and uninstall go on after a stop or disable that failed: what ran runs
  on, and no menu lists it; uninstall says that nothing remains
  (`uninstall.go:115`), also when the configs or the binary could not be removed
  (`uninstall.go:97-108`) or a tunnel was created after it listed them, and a menu
  that is still open can create a tunnel without a binary;
* a release between check and download installs another version than the one
  reported (`maintenance.go:110`), and one between binary and checksum refuses
  a good download; a checksum that cannot be fetched is passed over; two updates
  at once can end with the older release; the 30 seconds of `maintenance.go:69`
  include the operator's answer and the download;
* a file that cannot be read is missing from a backup without a word; restore
  writes the panel's settings and restarts everything but the panel;
* a tunnel may be called `webui` or `bot`, whose unit is then a daemon's.

Bot: a message without text makes the index of `bot.go:135` panic; after a restart
an alert whose cause still holds is repeated, although `bot.go:407` says once per
transition, and what has changed while no bot ran is never told; an engine
that stops, or flaps between two checks, sends no alert, and one that failed to
be delivered is not sent again, although `bot.go:360` says such changes are
always reported.

## What is not modelled

Within the modules: the control role, which no client sends; the measuring of
pings, rates and their history; lengths and texts; the record layer, websocket
and KCP, which pass bytes; the bytes a pipe may lose when one direction ends; the
TCP carrier of a backhaul, the TUN device, headers and spoofing; logins to the
panel and their expiry; who is an admin of the bot; the order in which two
menus' prompts appear. A backup, a restore's loading and a removal are steps per
file and per call, not per system call: a directory is read at once, and the
backup that uninstall offers is taken in one step.

Left out for good: `sysstat` reads counters and formats them, `tlsutil`
generates a certificate, `optimize` writes two fixed files nothing else reads,
and prompts, logs and the diagnosis of the menu change nothing.

## Plan

1. Done: ReadyQueue with LinkPool, PoolTunnel, MuxTunnel, Handshake, Backhaul
   without TCP, Services, Monitor, TunnelConfig, Versions; the proofs above.
2. Done: the refinement of LinkPool, and the safety properties of PoolTunnel, Handshake,
   Monitor, TunnelConfig and Services, but for ReportsAreTrue.
3. Next: ReportsAreTrue. A sound operation shares nothing with another (`Shared`, with
   `sound` in place of `spoilt`), and for each kind there is an invariant of what is
   done so far: what an install has written, enabled and started, what a removal
   has stopped, disabled and deleted, which entries a backup holds, which files a
   restore has written and which tunnels it counts.
