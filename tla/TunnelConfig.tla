----------------------------- MODULE TunnelConfig -----------------------------
(* How a tunnel comes to be configured.  On one host the menu asks for a       *)
(* server tunnel, writes its file and prints what the other side has to enter; *)
(* on the other host the menu asks for the client.  A file may also be written *)
(* by hand.  Each engine loads its file, fills in defaults, validates, and     *)
(* opens what the file says.  What an operator types is a value of a few kinds *)
(* the code treats alike.                                                      *)
EXTENDS Integers, FiniteSets

CONSTANTS
  Ports,     \* numbers typed where a port is asked for
  Counts,    \* numbers typed where another number is asked for
  Unset      \* nothing: no config, no printout, not a forward

ASSUME ConfigAssumption ==
  Ports \subseteq Int /\ IsFiniteSet(Ports) /\ Counts \subseteq Int /\ 0 \in Counts

VARIABLES
  file,      \* the config file of either host
  byMenu,    \* the menu has written it, and reported the tunnel as running
  printed,   \* what the server's menu told the operator to enter
  stage,     \* how far the engine has come
  config,    \* the config it has loaded
  publishes, \* the forwards it listens for so far
  shows      \* the ports its state file lists, once there is one

vars == <<file, byMenu, printed, stage, config, publishes, shows>>

Roles == {"server", "client"}

-----------------------------------------------------------------------------
(* Transports and carriers                                                   *)

Split == [t \in {"tcp", "tcpmux", "stealth", "udp", "kcp", "ws", "wsmux", "wss", "wssmux"} |->
  CASE t = "tcpmux" -> <<"tcp", "mux">> [] t = "wsmux" -> <<"ws", "mux">>
    [] t = "wssmux" -> <<"wss", "mux">> [] t \in {"tcp", "ws", "wss"} -> <<t, "pool">>
    [] OTHER -> <<t, "mux">>]
KnownTransports == DOMAIN Split
Base(t) == Split[t][1]
Mode(t) == Split[t][2]
OverUDP(t) == Base(t) \in {"udp", "kcp"}

RawCarriers == {"icmp", "ipip", "gre", "vrrp", "bip"}
IsRaw(c) == c \in RawCarriers
NeedsPort(c) == c \in {"udp", "tcp"}
KnownCarriers == {"udp", "tcp"} \cup RawCarriers

-----------------------------------------------------------------------------
(* Addresses and forwards                                                    *)

NoPort == -9
Addr(h, p) == [host |-> h, port |-> p]
Bare(p)  == Addr("bare", p)        \* a port without a host
Blank    == Addr("blank", NoPort)
Mess     == Addr("mess", NoPort)   \* neither a number nor host:port
MaxWord == 65535
Usable(p) == p \in 1 .. MaxWord
Bindable(p) == p \in 0 .. MaxWord   \* 0: the system picks one

\* normalizeListen and normalizeTarget
Normalize(a, host) ==
  IF a.port = NoPort THEN Mess
  ELSE IF a.host \in {"bare", ""} THEN Addr(host, a.port) ELSE a

ParseForward(raw) ==
  LET listen == Normalize(raw.listen, "any")
      target == IF raw.target = Blank THEN Addr("loopback", listen.port)
                                      ELSE Normalize(raw.target, "loopback")
  IN IF Mess \in {listen, target} THEN Unset ELSE [listen |-> listen, target |-> target]

\* What can be typed for a forward.
Forward(l, t) == [listen |-> l, target |-> t]
Https == 443
Listens == {Bare(p) : p \in Ports \cup {Https}} \cup {Addr("", Https), Mess}
Targets == {Blank, Bare(Https), Mess}
Entries == [listen : Listens, target : Targets]
Forwards == {F \in SUBSET {e \in Entries : ParseForward(e) # Unset} : Cardinality(F) < 3}

ListenPort(e) == ParseForward(e).listen.port

-----------------------------------------------------------------------------
(* Defaults and validation                                                   *)

Defaults ==
  [muxKeepAlive |-> 10, maxFrameSize |-> 32768, maxReceiveBuffer |-> 4194304, maxStreamBuffer |-> 262144,
   kcpMTU |-> 1350, interval |-> 20, sndWnd |-> 1024, rcvWnd |-> 1024, socketBuf |-> 4194304,
   size |-> 8, idleTimeout |-> 120, minBackoff |-> 1, maxBackoff |-> 30, keepAlive |-> 30, mtu |-> 1400]
Numbers == DOMAIN Defaults \cup {"muxVersion", "resend", "dataShards", "parityShards"}
Upper(a, b) == IF a > b THEN a ELSE b
Lower(a, b) == IF a < b THEN a ELSE b

\* The session's buffer has no default.
SlipNumberDefaults(n) ==
  LET set(f) == IF n[f] <= 0 /\ f # "maxReceiveBuffer" THEN Defaults[f] ELSE n[f]
  IN [f \in Numbers |->
       IF f = "muxVersion" THEN IF n[f] \in {1, 2} THEN n[f] ELSE 2
       ELSE IF f = "resend" THEN IF n[f] < 0 THEN 2 ELSE n[f]
       ELSE IF f \in {"dataShards", "parityShards"} THEN
              IF n["dataShards"] <= 0 \/ n["parityShards"] <= 0 THEN 0 ELSE n[f]
       ELSE IF f = "size" THEN Lower(set(f), 512)
       ELSE IF f = "maxBackoff" THEN Upper(set(f), set("minBackoff"))
       ELSE set(f)]

NumberDefaults(n) ==
  LET set(f) == IF n[f] <= 0 THEN Defaults[f] ELSE n[f]
  IN [f \in Numbers |->
       IF f = "muxVersion" THEN IF n[f] \in {1, 2} THEN n[f] ELSE 2
       ELSE IF f = "resend" THEN IF n[f] < 0 THEN 2 ELSE n[f]
       ELSE IF f \in {"dataShards", "parityShards"} THEN
              IF n["dataShards"] <= 0 \/ n["parityShards"] <= 0 THEN 0 ELSE n[f]
       ELSE IF f = "size" THEN Lower(set(f), 512)
       ELSE IF f = "maxBackoff" THEN Upper(set(f), set("minBackoff"))
       ELSE set(f)]

\* What smux takes: it refuses every session with other numbers.
MuxAccepts(n) ==
  /\ n["muxVersion"] \in {1, 2} /\ n["muxKeepAlive"] > 0
  /\ n["maxFrameSize"] \in 1 .. MaxWord
  /\ n["maxStreamBuffer"] > 0 /\ n["maxStreamBuffer"] <= n["maxReceiveBuffer"]

\* The ratio the encoder is given: on kcp a pair without effect becomes 10 to 3.
Shards(t, n) ==
  IF t # "kcp" THEN <<0, 0>>
  ELSE IF n["dataShards"] > 0 /\ n["parityShards"] > 0 THEN <<n["dataShards"], n["parityShards"]>>
  ELSE <<10, 3>>

\* What a file can hold, and what an engine has once it has loaded it.
Hosts == {"any", "loopback", "", "bare", "blank", "mess", "ip4", "ip6", "name"}
Addrs == [host : Hosts, port : Int]
IPs == {"ip4", "ip6", "10.200.0.1", "10.200.0.2"}
Configs ==
  [family : {"", "backpack", "backhaul", "other"}, role : Roles \cup {"other"},
   transport : KnownTransports \cup {"other"}, addr : Addrs, token : {"", "secret"},
   forwards : SUBSET Entries, num : [Numbers -> Int],
   carrier : KnownCarriers \cup {"", "other"}, port : Int,
   local : IPs \cup {"", "name"}, remote : IPs \cup {"", "name"}, peer : IPs \cup {"", "name"},
   spoof : BOOLEAN, spoofSource : IPs \cup {""}]

ASSUME UnsetAssumption == Unset \notin Configs

applyDefaults(c) ==
  [c EXCEPT !.family  = IF @ = "" THEN "backpack" ELSE @,
            !.carrier = IF @ = "" THEN "icmp" ELSE @,
            !.num     = NumberDefaults(@)]

ValidBackhaul(c) ==
  /\ c.carrier \in KnownCarriers /\ c.token # ""
  /\ c.local \in IPs /\ c.remote \in IPs /\ c.peer \in IPs \cup {""}
  /\ NeedsPort(c.carrier) => Usable(c.port)
  /\ c.spoof => IsRaw(c.carrier) /\ c.spoofSource \in IPs \cup {""}

ValidBackpack(c) ==
  /\ c.role \in Roles
  /\ c.addr \notin {Blank, Mess} /\ c.addr.host # "bare"
  /\ c.transport \in KnownTransports /\ c.token # ""
  /\ c.role = "server" => c.forwards # {}

\* The client's config has no forwards to look at.
Validate(c) ==
  /\ IF c.family = "backhaul" THEN ValidBackhaul(c) ELSE ValidBackpack(c)
  /\ c.family = "backhaul" \/ c.role = "server" => \A e \in c.forwards : ParseForward(e) # Unset

-----------------------------------------------------------------------------
(* The menu                                                                  *)

Zero == [f \in Numbers |-> 0]
BackpackConfig(r) ==
  [family |-> "", role |-> r, transport |-> "tcp",
   addr |-> Addr(IF r = "server" THEN "any" ELSE "ip4", 6060), token |-> "secret",
   forwards |-> {}, num |-> [Zero EXCEPT !["keepAlive"] = 30], carrier |-> "", port |-> 0, peer |-> "",
   local |-> "", remote |-> "", spoof |-> FALSE, spoofSource |-> ""]
BackhaulConfig(r) ==
  [BackpackConfig(r) EXCEPT !.family = "backhaul", !.carrier = "icmp", !.port = 2000,
     !.local  = IF r = "server" THEN "10.200.0.1" ELSE "10.200.0.2",
     !.remote = IF r = "server" THEN "10.200.0.2" ELSE "10.200.0.1",
     !.num    = [Zero EXCEPT !["mtu"] = 1400]]

\* tuneTransport asks for what the transport uses.
Tunings(t, n) ==
  IF Mode(t) = "pool" THEN {[n EXCEPT !["size"] = k] : k \in Counts}
  ELSE IF t = "kcp" THEN {[n EXCEPT !["dataShards"] = k, !["parityShards"] = l] : k, l \in Counts}
  ELSE {n}

Fresh == \A h \in Roles : file[h] = Unset

\* Save, then the service is started: the menu says that the tunnel is running.
Install(h, c, told) ==
  /\ file' = [file EXCEPT ![h] = c] /\ byMenu' = byMenu \cup {h}
  /\ printed' = IF h = "server" THEN told ELSE printed
  /\ UNCHANGED <<stage, config, publishes, shows>>

createServer ==
  /\ Fresh
  /\ \E t \in KnownTransports, p \in Ports, F \in Forwards \ {{}} :
       \E n \in Tunings(t, BackpackConfig("server").num) :
         LET c == [BackpackConfig("server") EXCEPT !.addr = Addr("any", p), !.transport = t,
                                                   !.num = n, !.forwards = F]
         IN Install("server", c, c)

\* An IPv6 address in front of ":port" is no host:port.
createClient ==
  /\ file["client"] = Unset /\ printed # Unset /\ printed.family = ""
  /\ \E host \in {"ip4", "ip6", "name"} :
       \E n \in Tunings(printed.transport, BackpackConfig("client").num) :
         LET addr == IF host = "ip6" THEN Mess ELSE Addr(host, printed.addr.port)
             c == [BackpackConfig("client") EXCEPT !.addr = addr, !.transport = printed.transport,
                                                   !.token = printed.token, !.num = n]
         IN Install("client", c, Unset)

\* What spoofing is asked for on a raw carrier only.
Spoofs(c) == IF IsRaw(c) THEN {<<FALSE, "">>, <<TRUE, "">>, <<TRUE, "ip4">>} ELSE {<<FALSE, "">>}

createBackhaulServer ==
  /\ Fresh
  /\ \E c \in KnownCarriers, p \in Ports, peer \in {"", "ip4", "name"}, F \in Forwards,
        ips \in {<<"10.200.0.1", "10.200.0.2">>, <<"10.200.0.1", "ip6">>} : \E s \in Spoofs(c) :
       /\ Cardinality(F) < 2
       /\ LET b == [BackhaulConfig("server") EXCEPT !.carrier = c, !.port = p, !.peer = peer, !.forwards = F,
                      !.local = ips[1], !.remote = ips[2], !.spoof = s[1], !.spoofSource = s[2]]
          IN Install("server", b, b)

\* This end is told its own address first.
SlipCreateBackhaulClient ==
  /\ file["client"] = Unset /\ printed # Unset /\ printed.family = "backhaul"
  /\ \E peer \in {"ip4", "name"}, s \in Spoofs(printed.carrier) :
       Install("client",
         [BackhaulConfig("client") EXCEPT !.carrier = printed.carrier, !.port = printed.port,
            !.peer = peer, !.local = printed.local, !.remote = printed.remote,
            !.token = printed.token, !.spoof = s[1], !.spoofSource = s[2]],
         Unset)

createBackhaulClient ==
  /\ file["client"] = Unset /\ printed # Unset /\ printed.family = "backhaul"
  /\ \E peer \in {"ip4", "name"}, s \in Spoofs(printed.carrier) :
       Install("client",
         [BackhaulConfig("client") EXCEPT !.carrier = printed.carrier, !.port = printed.port,
            !.peer = peer, !.local = printed.remote, !.remote = printed.local,
            !.token = printed.token, !.spoof = s[1], !.spoofSource = s[2]],
         Unset)

\* Working files, and one value of them changed.
Templates(h) ==
  {[BackpackConfig(h) EXCEPT !.forwards = {Forward(Bare(Https), Blank)}], BackhaulConfig(h)}
NumberEdits(c)  == {[c EXCEPT !.num = [@ EXCEPT ![f] = k]] : f \in Numbers, k \in Counts}
ForwardEdits(c) == {[c EXCEPT !.forwards = F] : F \in {{e} : e \in Entries} \cup {{}}}
CarrierEdits(c) == {[c EXCEPT !.carrier = k, !.spoof = TRUE] : k \in KnownCarriers}
NameEdits(c) ==
  {[c EXCEPT ![e[1]] = e[2]] : e \in
     {<<"role", "other">>, <<"family", "other">>, <<"token", "">>, <<"transport", "other">>,
      <<"carrier", "other">>, <<"carrier", "">>, <<"addr", Mess>>, <<"addr", Bare(Https)>>,
      <<"spoof", TRUE>>, <<"peer", "name">>, <<"local", "name">>, <<"remote", "">>}}
Edits(c) == NumberEdits(c) \cup ForwardEdits(c) \cup CarrierEdits(c) \cup NameEdits(c)

\* An operator writes a file.  Bound: such a tunnel is looked at for itself,
\* without another end.
Write(h) ==
  /\ Fresh
  /\ \E c \in Templates(h) : \E d \in Edits(c) : file' = [file EXCEPT ![h] = d]
  /\ UNCHANGED <<byMenu, printed, stage, config, publishes, shows>>

-----------------------------------------------------------------------------
(* The engine                                                                *)

\* Load returns what it has read along with the error.
SlipLoad(h) ==
  /\ file[h] # Unset /\ stage[h] = "off"
  /\ LET c == applyDefaults(file[h]) IN
       /\ config' = [config EXCEPT ![h] = c]
       /\ stage' = [stage EXCEPT ![h] = IF Validate(c) THEN "loaded" ELSE "refused"]
  /\ UNCHANGED <<file, byMenu, printed, publishes, shows>>

\* runEngine: Load, and the process ends if it fails.
Load(h) ==
  /\ file[h] # Unset /\ stage[h] = "off"
  /\ LET c == applyDefaults(file[h]) IN
       IF Validate(c) THEN /\ config' = [config EXCEPT ![h] = c]
                           /\ stage' = [stage EXCEPT ![h] = "loaded"]
                      ELSE /\ stage' = [stage EXCEPT ![h] = "refused"]
                           /\ UNCHANGED config
  /\ UNCHANGED <<file, byMenu, printed, publishes, shows>>

\* What Run registers for the state file: a server's ports, and a backhaul's.
PortsOf(c) ==
  IF c.family # "backhaul" /\ c.role = "client" THEN {}
  ELSE {ListenPort(e) : e \in c.forwards} \ {0}

\* The publishing goroutine writes the state file some time after that, while
\* Run goes on.
PublishLoop(h) ==
  /\ stage[h] \in {"loaded", "listening", "running"} /\ shows[h] = Unset
  /\ shows' = [shows EXCEPT ![h] = PortsOf(config[h])]
  /\ UNCHANGED <<file, byMenu, printed, stage, config, publishes>>

\* The process ends, and its listeners with it; whether the goroutine gets to
\* remove the state file is open.
Fails(h) ==
  /\ stage' = [stage EXCEPT ![h] = "failed"] /\ publishes' = [publishes EXCEPT ![h] = {}]
  /\ shows' \in {shows, [shows EXCEPT ![h] = Unset]}

IsServer(c) == c.family # "backhaul" /\ c.role = "server"

\* The tunnel's own listener, on a host where nothing is in the way.
Listen(h) ==
  /\ stage[h] = "loaded" /\ IsServer(config[h])
  /\ IF Bindable(config[h].addr.port)
       THEN stage' = [stage EXCEPT ![h] = "listening"] /\ UNCHANGED <<publishes, shows>>
       ELSE Fails(h)
  /\ UNCHANGED <<file, byMenu, printed, config>>

\* A forward is listened for on TCP: the tunnel's own port is in its way unless
\* the tunnel is on UDP.  Bound: a port the system picks is not one the file names.
Vacant(h, p) ==
  /\ Bindable(p)
  /\ p # 0 => /\ OverUDP(config[h].transport) \/ p # config[h].addr.port
              /\ \A g \in publishes[h] : ListenPort(g) # p

\* A forward that cannot be listened for is passed over.
SlipPublish(h) ==
  /\ stage[h] = "listening"
  /\ \E e \in config[h].forwards \ publishes[h] :
       LET now == publishes[h] \cup {e} IN
         /\ publishes' = IF Vacant(h, ListenPort(e)) THEN [publishes EXCEPT ![h] = now] ELSE publishes
         /\ stage' = [stage EXCEPT ![h] = IF ~Vacant(h, ListenPort(e)) \/ now = config[h].forwards
                                            THEN "running" ELSE @]
         /\ UNCHANGED shows
  /\ UNCHANGED <<file, byMenu, printed, config>>

\* Run publishes one forward after the other, and gives up at the first that fails.
publish(h) ==
  /\ stage[h] = "listening"
  /\ \E e \in config[h].forwards \ publishes[h] :
       LET now == publishes[h] \cup {e} IN
         IF Vacant(h, ListenPort(e))
           THEN /\ publishes' = [publishes EXCEPT ![h] = now]
                /\ stage' = [stage EXCEPT ![h] = IF now = config[h].forwards THEN "running" ELSE @]
                /\ UNCHANGED shows
           ELSE Fails(h)
  /\ UNCHANGED <<file, byMenu, printed, config>>

\* A client dials, and a backhaul opens its device and carrier: openTUN takes
\* IPv4 only, a client's carrier has a peer.  Nothing listens for its forwards.
Opens(c) ==
  c.family = "backhaul" => /\ {c.local, c.remote} \cap {"ip6"} = {}
                           /\ c.role # "server" /\ NeedsPort(c.carrier) => c.peer # ""
Run(h) ==
  /\ stage[h] = "loaded" /\ ~IsServer(config[h])
  /\ IF Opens(config[h])
       THEN stage' = [stage EXCEPT ![h] = "running"] /\ UNCHANGED <<publishes, shows>>
       ELSE Fails(h)
  /\ UNCHANGED <<file, byMenu, printed, config>>

Init ==
  /\ file = [h \in Roles |-> Unset] /\ config = [h \in Roles |-> Unset]
  /\ byMenu = {} /\ printed = Unset
  /\ stage = [h \in Roles |-> "off"]
  /\ publishes = [h \in Roles |-> {}] /\ shows = [h \in Roles |-> Unset]

Next ==
  \/ createServer \/ createClient \/ createBackhaulServer \/ createBackhaulClient
  \/ \E h \in Roles : \/ Write(h) \/ Load(h) \/ PublishLoop(h)
                      \/ Listen(h) \/ publish(h) \/ Run(h)

Spec == Init /\ [][Next]_vars

-----------------------------------------------------------------------------
(* Properties                                                                *)

Loaded(h) == stage[h] \in {"loaded", "listening", "running", "failed"}

\* The variables keep their types.
TypeOK ==
  /\ file \in [Roles -> Configs \cup {Unset}] /\ config \in [Roles -> Configs \cup {Unset}]
  /\ byMenu \subseteq Roles /\ printed \in Configs \cup {Unset}
  /\ stage \in [Roles -> {"off", "refused", "loaded", "listening", "failed", "running"}]
  /\ publishes \in [Roles -> SUBSET Entries]
  /\ shows \in [Roles -> (SUBSET Int) \cup {Unset}]
  /\ \A h \in Roles : /\ stage[h] # "off" => file[h] # Unset
                      /\ Loaded(h) <=> config[h] # Unset

\* What the engine dispatches on is known to every part it dispatches to.
Dispatched(c) ==
  IF c.family = "backhaul"
    THEN IF NeedsPort(c.carrier) THEN Usable(c.port) /\ ~c.spoof ELSE c.carrier \in RawCarriers
    ELSE /\ c.role \in Roles /\ c.transport \in KnownTransports
         /\ c.role = "server" => c.forwards # {} /\ Unset \notin {ParseForward(e) : e \in c.forwards}

\* The file itself sets a size smux may refuse, which Validate lets pass.
SetsMux(c) ==
  c.num["maxFrameSize"] > MaxWord \/ c.num["maxReceiveBuffer"] > 0 \/ c.num["maxStreamBuffer"] > 0

\* An engine that has loaded its file can work with it, whatever the menu or an
\* operator put there: its parts know what they are dispatched on, smux takes its
\* sessions (mux.go:21), the encoder gets a whole ratio on kcp and none elsewhere
\* (kcp.go:48), the pool and the redialling have something to count on.  Except
\* that a file which itself sets a mux size may ask for one smux refuses.
LoadedIsUsable ==
  \A h \in Roles : Loaded(h) =>
    LET c == config[h]
        n == config[h].num
    IN /\ Dispatched(c)
       /\ MuxAccepts(n) \/ SetsMux(file[h])
       /\ \A i \in {1, 2} : (Shards(c.transport, n)[i] > 0) <=> (c.transport = "kcp")
       /\ n["size"] \in 1 .. 512 /\ 0 < n["minBackoff"] /\ n["minBackoff"] <= n["maxBackoff"]

\* What the ends of a link have to agree on: where one listens the other dials,
\* by the same protocol, with the same token, in sessions smux takes at both ends
\* and with the same datagrams (README.md:171, "agree on mtu and the shard ratio").
CanLink(s, c) ==
  /\ s.family = c.family /\ s.role = "server" /\ c.role = "client" /\ s.token = c.token
  /\ IF s.family = "backhaul"
       THEN /\ s.carrier = c.carrier /\ s.port = c.port /\ c.peer # ""
            /\ s.local = c.remote /\ s.remote = c.local /\ s.num["mtu"] = c.num["mtu"]
       ELSE /\ Split[s.transport] = Split[c.transport]
            /\ Usable(s.addr.port) /\ c.addr.port = s.addr.port /\ c.addr.host \in {"ip4", "name"}
            /\ MuxAccepts(s.num) /\ MuxAccepts(c.num) /\ s.num["muxVersion"] = c.num["muxVersion"]
            /\ s.num["kcpMTU"] = c.num["kcpMTU"]
            /\ Shards(s.transport, s.num) = Shards(c.transport, c.num)

\* Both menus were given the same shards, or shards without effect: the server's
\* menu does not print them.
HalfPair(n) == n["dataShards"] <= 0 \/ n["parityShards"] <= 0
SameShards(m, n) == \/ HalfPair(m) /\ HalfPair(n)
                    \/ \A f \in {"dataShards", "parityShards"} : m[f] = n[f]

\* Two engines that run on what the menus of two hosts wrote, the client's as the
\* server's printed it, can link.  Except that the operator has to repeat the
\* shards, and that a server told to listen on port 0 runs on one of the system's
\* choice while its client dials port 0.
PairMatches ==
  LET s == file["server"]
      c == file["client"]
  IN (/\ byMenu = Roles /\ \A h \in Roles : stage[h] = "running"
      /\ SameShards(s.num, c.num)
      /\ s.family # "backhaul" => s.addr.port # 0) => CanLink(config["server"], config["client"])

\* The ports a state file lists were registered before the first was listened
\* for (engine.go:41).  No server listens on a port its file does not list, and
\* once it serves it listens for every forward of its config and the file lists
\* just these ports.  Except that the port the system picks for a forward on 0 is
\* listed nowhere; and a backhaul's file lists forwards nothing listens for.
ShowsWhatItPublishes ==
  \A h \in Roles : Loaded(h) /\ config[h].family # "backhaul" =>
    LET ports == {ListenPort(e) : e \in publishes[h]} \ {0} IN
    /\ shows[h] # Unset => ports \subseteq shows[h]
    /\ stage[h] = "running" => /\ shows[h] \in {ports, Unset}
                               /\ IsServer(config[h]) => publishes[h] = config[h].forwards

-----------------------------------------------------------------------------
(* What the code says of itself and does not do.                             *)

\* menu.go:202 and 251 tell the operator that the tunnel it has just installed "is
\* running"; menu/backhaul.go:46-47 checks addresses "so a client cannot be
\* created pointing at an address it can never dial".
CreatedLoads == \A h \in byMenu : stage[h] # "refused"
=============================================================================
