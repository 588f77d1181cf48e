-------------------------- MODULE TunnelConfigProofs --------------------------
(* Whatever the menu writes or an operator types into a file, an engine works  *)
(* with a config its parts can use or does not start, what it shows is what it *)
(* listens for, and the two ends the menu sets up can link.                    *)
EXTENDS TunnelConfig, TLAPS

-----------------------------------------------------------------------------
(* The inductive invariant                                                     *)

\* An engine works with what it has made of its file.
ConfigsAreLoaded ==
  \A h \in Roles : Loaded(h) => Validate(config[h]) /\ config[h] = applyDefaults(file[h])

\* A client that was set up as the server's menu said.
Counterpart(s, c) ==
  /\ s.role = "server" /\ c.role = "client" /\ s.family = c.family /\ s.token = c.token
  /\ IF s.family = "backhaul"
       THEN s.carrier = c.carrier /\ s.port = c.port /\ s.local = c.remote /\ s.remote = c.local /\ c.peer # ""
       ELSE /\ s.transport = c.transport
            /\ c.addr = Mess \/ (s.addr.port = c.addr.port /\ c.addr.host \in {"ip4", "name"})

\* The menu leaves the numbers the mux, and the datagrams' size, to the defaults.
LeftAlone == {"muxVersion", "muxKeepAlive", "maxFrameSize", "maxReceiveBuffer", "maxStreamBuffer", "kcpMTU"}
MenuNumbers(n) == \A f \in LeftAlone : n[f] = 0
MenuMTU == 1400
MenuMade(c) == MenuNumbers(c.num) /\ (c.family = "backhaul" => c.num["mtu"] = MenuMTU)

\* What was printed is what the server's file says, and a client that the menu
\* set up was set up by it.
PrintedIsFollowed ==
  /\ \A h \in byMenu : file[h] # Unset /\ MenuMade(file[h])
  /\ byMenu # {} => printed # Unset
  /\ printed # Unset => file["server"] = printed /\ printed.role = "server"
  /\ "client" \in byMenu => Counterpart(printed, file["client"])

\* What an engine listens for and shows comes from its config: all of it once it
\* runs, nothing before it has loaded.
Serving ==
  \A h \in Roles :
    /\ stage[h] \in {"off", "refused"} => shows[h] = Unset
    /\ stage[h] \in {"off", "refused", "loaded", "failed"} => publishes[h] = {}
    /\ Loaded(h) => shows[h] \in {Unset, PortsOf(config[h])} /\ publishes[h] \subseteq config[h].forwards
    /\ stage[h] = "listening" => IsServer(config[h])
    /\ stage[h] \in {"listening", "running"} /\ IsServer(config[h]) => Bindable(config[h].addr.port)
    /\ stage[h] = "running" => publishes[h] = IF IsServer(config[h]) THEN config[h].forwards ELSE {}

IInv == TypeOK /\ ConfigsAreLoaded /\ PrintedIsFollowed /\ Serving

-----------------------------------------------------------------------------
(* Defaults                                                                    *)

(* Every default is a number that can be worked with.                          *)
LEMMA DefaultsPositive ==
  ASSUME NEW f \in DOMAIN Defaults PROVE Defaults[f] \in Int /\ Defaults[f] > 0
BY DEF Defaults

(* Whatever integers a file holds, applyDefaults turns them into numbers the    *)
(* pool and the backoff can work with, that are each smux's unless the file set  *)
(* them, and into a whole ratio or none.                                        *)
LEMMA NumbersInRange ==
  ASSUME NEW n \in [Numbers -> Int]
  PROVE  LET N == NumberDefaults(n) IN
         /\ N \in [Numbers -> Int]
         /\ \A f \in DOMAIN Defaults \ {"size", "maxBackoff"} : N[f] = IF n[f] <= 0 THEN Defaults[f] ELSE n[f]
         /\ N["size"] \in 1 .. 512 /\ 0 < N["minBackoff"] /\ N["minBackoff"] <= N["maxBackoff"]
         /\ N["muxVersion"] = IF n["muxVersion"] \in {1, 2} THEN n["muxVersion"] ELSE 2
         /\ N["dataShards"] = IF HalfPair(n) THEN 0 ELSE n["dataShards"]
         /\ N["parityShards"] = IF HalfPair(n) THEN 0 ELSE n["parityShards"]
<1> DEFINE N == NumberDefaults(n)
           set(f) == IF n[f] <= 0 THEN Defaults[f] ELSE n[f]
<1>1. DOMAIN Defaults = {"muxKeepAlive", "maxFrameSize", "maxReceiveBuffer", "maxStreamBuffer",
        "kcpMTU", "interval", "sndWnd", "rcvWnd", "socketBuf", "size", "idleTimeout",
        "minBackoff", "maxBackoff", "keepAlive", "mtu"}
  BY DEF Defaults
<1>2. \A f \in DOMAIN Defaults : f \in Numbers /\ n[f] \in Int /\ set(f) \in Int /\ set(f) > 0
  BY DefaultsPositive DEF Numbers
<1>3. {"muxVersion", "resend", "dataShards", "parityShards"} \subseteq Numbers
  BY DEF Numbers
<1>4. \A f \in DOMAIN Defaults \ {"size", "maxBackoff"} : N[f] = set(f)
  BY <1>1, <1>2 DEF NumberDefaults
<1>5. N["size"] = Lower(set("size"), 512) /\ N["maxBackoff"] = Upper(set("maxBackoff"), set("minBackoff"))
  BY <1>1, <1>2 DEF NumberDefaults
<1>6. /\ N["muxVersion"] = IF n["muxVersion"] \in {1, 2} THEN n["muxVersion"] ELSE 2
      /\ N["resend"] = IF n["resend"] < 0 THEN 2 ELSE n["resend"]
  BY <1>3 DEF NumberDefaults
<1>7. /\ N["dataShards"] = IF HalfPair(n) THEN 0 ELSE n["dataShards"]
      /\ N["parityShards"] = IF HalfPair(n) THEN 0 ELSE n["parityShards"]
  BY <1>3 DEF NumberDefaults, HalfPair
<1>8. /\ n["muxVersion"] \in Int /\ n["resend"] \in Int
      /\ n["dataShards"] \in Int /\ n["parityShards"] \in Int
  BY <1>3
<1>9. N = [f \in Numbers |-> N[f]]
  BY DEF NumberDefaults
<1> HIDE DEF N
<1>10. N["size"] \in 1 .. 512 /\ 0 < N["minBackoff"] /\ N["minBackoff"] <= N["maxBackoff"]
  <2> HIDE DEF set
  <2>1. N["size"] \in 1 .. 512
    BY <1>1, <1>2, <1>5 DEF Lower
  <2>2. N["minBackoff"] = set("minBackoff")
    BY <1>1, <1>4
  <2> QED BY <1>1, <1>2, <1>5, <2>1, <2>2 DEF Upper
<1>11. N \in [Numbers -> Int]
  <2>1. \A f \in DOMAIN Defaults : N[f] \in Int
    <3> HIDE DEF set
    <3> QED BY <1>1, <1>2, <1>4, <1>5 DEF Lower, Upper
  <2>2. N["muxVersion"] \in Int /\ N["resend"] \in Int
    BY <1>6, <1>8
  <2>3. N["dataShards"] \in Int /\ N["parityShards"] \in Int
    BY <1>7, <1>8
  <2>4. \A f \in Numbers : N[f] \in Int
    BY <2>1, <2>2, <2>3 DEF Numbers
  <2> QED BY <1>9, <2>4
<1> QED BY <1>4, <1>6, <1>7, <1>10, <1>11 DEF N

(* The largest number of sixteen bits.                                         *)
LEMMA WordTyped == MaxWord \in Int /\ 0 < MaxWord
BY DEF MaxWord

(* smux takes the sessions of every file that does not itself set their sizes.  *)
LEMMA SmuxTakes ==
  ASSUME NEW c \in Configs, ~SetsMux(c) PROVE MuxAccepts(NumberDefaults(c.num))
<1> DEFINE n == c.num
           N == NumberDefaults(n)
<1>1. n \in [Numbers -> Int]
  BY DEF Configs
<1>2. \A f \in {"muxKeepAlive", "maxFrameSize", "maxReceiveBuffer", "maxStreamBuffer"} :
        n[f] \in Int /\ N[f] = IF n[f] <= 0 THEN Defaults[f] ELSE n[f]
  BY <1>1, NumbersInRange DEF Defaults, Numbers
<1>3. N["muxVersion"] \in {1, 2}
  BY <1>1, NumbersInRange
<1>4. n["maxFrameSize"] <= MaxWord /\ n["maxReceiveBuffer"] <= 0 /\ n["maxStreamBuffer"] <= 0
  <2>1. /\ n["maxFrameSize"] \in Int /\ n["maxReceiveBuffer"] \in Int /\ n["maxStreamBuffer"] \in Int
        /\ ~(n["maxFrameSize"] > MaxWord \/ n["maxReceiveBuffer"] > 0 \/ n["maxStreamBuffer"] > 0)
    BY <1>2 DEF SetsMux
  <2> QED BY <2>1, WordTyped
<1> HIDE DEF n, N
<1>5. /\ N["maxFrameSize"] \in 1 .. MaxWord /\ N["muxKeepAlive"] > 0
      /\ N["maxStreamBuffer"] > 0 /\ N["maxStreamBuffer"] <= N["maxReceiveBuffer"]
  <2>1. /\ N["maxReceiveBuffer"] = Defaults["maxReceiveBuffer"]
        /\ N["maxStreamBuffer"] = Defaults["maxStreamBuffer"]
    BY <1>2, <1>4
  <2>2. /\ N["maxFrameSize"] = IF n["maxFrameSize"] <= 0 THEN Defaults["maxFrameSize"] ELSE n["maxFrameSize"]
        /\ N["muxKeepAlive"] = IF n["muxKeepAlive"] <= 0 THEN Defaults["muxKeepAlive"] ELSE n["muxKeepAlive"]
        /\ n["maxFrameSize"] \in Int /\ n["muxKeepAlive"] \in Int
    BY <1>2
  <2>3. /\ Defaults["maxReceiveBuffer"] \in Int /\ Defaults["maxStreamBuffer"] \in Int
        /\ Defaults["maxStreamBuffer"] > 0 /\ Defaults["maxStreamBuffer"] <= Defaults["maxReceiveBuffer"]
        /\ Defaults["maxFrameSize"] \in Int /\ 0 < Defaults["maxFrameSize"]
        /\ Defaults["maxFrameSize"] <= MaxWord
        /\ Defaults["muxKeepAlive"] \in Int /\ Defaults["muxKeepAlive"] > 0
    BY SMT DEF Defaults, MaxWord
  <2>4. N["maxFrameSize"] \in 1 .. MaxWord
    BY <1>4, <2>2, <2>3, WordTyped
  <2>5. N["muxKeepAlive"] > 0
    BY <2>2, <2>3
  <2> QED BY <2>1, <2>3, <2>4, <2>5
<1>6. MuxAccepts(N)
  BY <1>3, <1>5 DEF MuxAccepts
<1> QED BY <1>6 DEF N, n

(* The encoder gets the same ratio at both ends if both were given the same     *)
(* shards, or shards without effect; a whole one on kcp and none elsewhere.     *)
LEMMA RatioMade ==
  ASSUME NEW m \in [Numbers -> Int], NEW n \in [Numbers -> Int], NEW t
  PROVE  /\ SameShards(m, n) => Shards(t, NumberDefaults(m)) = Shards(t, NumberDefaults(n))
         /\ \A i \in {1, 2} : (Shards(t, NumberDefaults(n))[i] > 0) <=> (t = "kcp")
<1>1. \A x \in [Numbers -> Int] : x["dataShards"] \in Int /\ x["parityShards"] \in Int
  BY DEF Numbers
<1>2. ASSUME NEW x \in [Numbers -> Int]
      PROVE  Shards(t, NumberDefaults(x)) =
               IF t # "kcp" THEN <<0, 0>>
               ELSE IF HalfPair(x) THEN <<10, 3>> ELSE <<x["dataShards"], x["parityShards"]>>
  <2>1. /\ NumberDefaults(x)["dataShards"] = IF HalfPair(x) THEN 0 ELSE x["dataShards"]
        /\ NumberDefaults(x)["parityShards"] = IF HalfPair(x) THEN 0 ELSE x["parityShards"]
    BY NumbersInRange
  <2> QED BY <1>1, <2>1 DEF Shards, HalfPair
<1>3. \A x \in [Numbers -> Int] : ~HalfPair(x) => x["dataShards"] > 0 /\ x["parityShards"] > 0
  BY <1>1 DEF HalfPair
<1>4. SameShards(m, n) => Shards(t, NumberDefaults(m)) = Shards(t, NumberDefaults(n))
  BY <1>2 DEF SameShards, HalfPair
<1>5. \A i \in {1, 2} : (Shards(t, NumberDefaults(n))[i] > 0) <=> (t = "kcp")
  <2> DEFINE S == Shards(t, NumberDefaults(n))
  <2>1. \/ t # "kcp" /\ S = <<0, 0>>
        \/ t = "kcp" /\ S = <<10, 3>>
        \/ /\ t = "kcp" /\ S = <<n["dataShards"], n["parityShards"]>>
           /\ n["dataShards"] > 0 /\ n["parityShards"] > 0
    BY <1>2, <1>3
  <2> HIDE DEF S
  <2>2. (S[1] > 0 <=> t = "kcp") /\ (S[2] > 0 <=> t = "kcp")
    BY <1>1, <2>1
  <2> QED BY <2>2 DEF S
<1> QED BY <1>4, <1>5

(* What Validate lets through is known to every part that dispatches on it.    *)
LEMMA ValidIsDispatched ==
  ASSUME NEW c, Validate(c) PROVE Dispatched(c)
<1>1. CASE c.family = "backhaul"
  <2>1. ValidBackhaul(c)
    BY <1>1 DEF Validate
  <2>2. NeedsPort(c.carrier) => ~IsRaw(c.carrier)
    BY DEF NeedsPort, IsRaw, RawCarriers
  <2>3. NeedsPort(c.carrier) => Usable(c.port) /\ ~c.spoof
    BY <2>1, <2>2 DEF ValidBackhaul
  <2>4. ~NeedsPort(c.carrier) => c.carrier \in RawCarriers
    BY <2>1 DEF ValidBackhaul, KnownCarriers, NeedsPort
  <2> QED BY <1>1, <2>3, <2>4 DEF Dispatched
<1>2. CASE c.family # "backhaul"
  <2>1. ValidBackpack(c)
    BY <1>2 DEF Validate
  <2>2. c.role = "server" => \A e \in c.forwards : ParseForward(e) # Unset
    BY <1>2 DEF Validate
  <2> QED BY <1>2, <2>1, <2>2 DEF Dispatched, ValidBackpack
<1> QED BY <1>1, <1>2

-----------------------------------------------------------------------------
(* What the menu and an operator write are configs                             *)

(* One number of the table is changed.                                         *)
LEMMA TableUpdate ==
  ASSUME NEW n \in [Numbers -> Int], NEW f, NEW k \in Int PROVE [n EXCEPT ![f] = k] \in [Numbers -> Int]
OBVIOUS

(* A config of which one field is given a value of its type is a config.       *)
LEMMA FieldUpdate ==
  ASSUME NEW c \in Configs
  PROVE  /\ \A v \in {"", "backpack", "backhaul", "other"} : [c EXCEPT !.family = v] \in Configs
         /\ \A v \in Roles \cup {"other"} : [c EXCEPT !.role = v] \in Configs
         /\ \A v \in KnownTransports \cup {"other"} : [c EXCEPT !.transport = v] \in Configs
         /\ \A v \in Addrs : [c EXCEPT !.addr = v] \in Configs
         /\ \A v \in {"", "secret"} : [c EXCEPT !.token = v] \in Configs
         /\ \A v \in SUBSET Entries : [c EXCEPT !.forwards = v] \in Configs
         /\ \A v \in [Numbers -> Int] : [c EXCEPT !.num = v] \in Configs
         /\ \A v \in KnownCarriers \cup {"", "other"} : [c EXCEPT !.carrier = v] \in Configs
         /\ \A v \in Int : [c EXCEPT !.port = v] \in Configs
         /\ \A v \in IPs \cup {"", "name"} : /\ [c EXCEPT !.local = v] \in Configs
                                            /\ [c EXCEPT !.remote = v] \in Configs
                                            /\ [c EXCEPT !.peer = v] \in Configs
         /\ \A v \in BOOLEAN : [c EXCEPT !.spoof = v] \in Configs
         /\ \A v \in IPs \cup {""} : [c EXCEPT !.spoofSource = v] \in Configs
<1>1. \A v \in {"", "backpack", "backhaul", "other"} : [c EXCEPT !.family = v] \in Configs
  BY DEF Configs
<1>2. \A v \in Roles \cup {"other"} : [c EXCEPT !.role = v] \in Configs
  BY DEF Configs
<1>3. \A v \in KnownTransports \cup {"other"} : [c EXCEPT !.transport = v] \in Configs
  BY DEF Configs
<1>4. \A v \in Addrs : [c EXCEPT !.addr = v] \in Configs
  BY DEF Configs
<1>5. \A v \in {"", "secret"} : [c EXCEPT !.token = v] \in Configs
  BY DEF Configs
<1>6. \A v \in SUBSET Entries : [c EXCEPT !.forwards = v] \in Configs
  BY DEF Configs
<1>7. \A v \in [Numbers -> Int] : [c EXCEPT !.num = v] \in Configs
  BY DEF Configs
<1>8. \A v \in KnownCarriers \cup {"", "other"} : [c EXCEPT !.carrier = v] \in Configs
  BY DEF Configs
<1>9. \A v \in Int : [c EXCEPT !.port = v] \in Configs
  BY DEF Configs
<1>10. \A v \in IPs \cup {"", "name"} : /\ [c EXCEPT !.local = v] \in Configs
                                       /\ [c EXCEPT !.remote = v] \in Configs
                                       /\ [c EXCEPT !.peer = v] \in Configs
  BY DEF Configs
<1>11. \A v \in BOOLEAN : [c EXCEPT !.spoof = v] \in Configs
  BY DEF Configs
<1>12. \A v \in IPs \cup {""} : [c EXCEPT !.spoofSource = v] \in Configs
  BY DEF Configs
<1> QED BY <1>1, <1>2, <1>3, <1>4, <1>5, <1>6, <1>7, <1>8, <1>9, <1>10, <1>11, <1>12

(* What applyDefaults makes of a config, field by field.                       *)
LEMMA Applied ==
  ASSUME NEW c \in Configs
  PROVE  /\ applyDefaults(c) \in Configs
         /\ applyDefaults(c).family = IF c.family = "" THEN "backpack" ELSE c.family
         /\ applyDefaults(c).carrier = IF c.carrier = "" THEN "icmp" ELSE c.carrier
         /\ applyDefaults(c).num = NumberDefaults(c.num)
         /\ applyDefaults(c).role = c.role /\ applyDefaults(c).transport = c.transport
         /\ applyDefaults(c).addr = c.addr /\ applyDefaults(c).token = c.token
         /\ applyDefaults(c).forwards = c.forwards /\ applyDefaults(c).port = c.port
         /\ applyDefaults(c).local = c.local /\ applyDefaults(c).remote = c.remote
         /\ applyDefaults(c).peer = c.peer
<1>2. "icmp" \in KnownCarriers
  BY DEF KnownCarriers, RawCarriers
<1> DEFINE a == [c EXCEPT !.family = IF @ = "" THEN "backpack" ELSE @]
           b == [a EXCEPT !.carrier = IF @ = "" THEN "icmp" ELSE @]
           d == [b EXCEPT !.num = NumberDefaults(@)]
<1>3. a \in Configs
  <2>1. c.family \in {"", "backpack", "backhaul", "other"}
    BY DEF Configs
  <2> QED BY <2>1, FieldUpdate
<1>4. b \in Configs
  <2>1. a.carrier \in KnownCarriers \cup {"", "other"}
    BY <1>3 DEF Configs
  <2> HIDE DEF a
  <2> QED BY <1>2, <1>3, <2>1, FieldUpdate
<1>5. d \in Configs
  <2>1. b.num \in [Numbers -> Int]
    BY <1>4 DEF Configs
  <2> HIDE DEF a, b
  <2> QED BY <1>4, <2>1, NumbersInRange, FieldUpdate
<1>6. applyDefaults(c) = d
  BY DEF applyDefaults
<1>7. DOMAIN c = {"family", "role", "transport", "addr", "token", "forwards", "num", "carrier",
                  "port", "local", "remote", "peer", "spoof", "spoofSource"}
  BY DEF Configs
<1> QED BY <1>5, <1>6, <1>7

(* The forms the menu starts from.                                             *)
LEMMA MenuConfigs ==
  ASSUME NEW r \in Roles
  PROVE  /\ BackpackConfig(r) \in Configs /\ BackhaulConfig(r) \in Configs
         /\ BackpackConfig(r).role = r /\ BackhaulConfig(r).role = r
         /\ BackpackConfig(r).family = "" /\ BackhaulConfig(r).family = "backhaul"
<1>1. Zero \in [Numbers -> Int]
  BY DEF Zero
<1>2. [Zero EXCEPT !["keepAlive"] = 30] \in [Numbers -> Int] /\ [Zero EXCEPT !["mtu"] = 1400] \in [Numbers -> Int]
  BY <1>1, TableUpdate
<1>3. "tcp" \in KnownTransports /\ "icmp" \in KnownCarriers
  BY DEF KnownTransports, Split, KnownCarriers, RawCarriers
<1>4. Addr(IF r = "server" THEN "any" ELSE "ip4", 6060) \in Addrs
  BY DEF Addr, Addrs, Hosts
<1>5. /\ BackpackConfig(r) \in Configs /\ BackpackConfig(r).role = r
      /\ BackpackConfig(r).family = ""
  BY <1>2, <1>3, <1>4 DEF BackpackConfig, Configs
<1>6. /\ BackhaulConfig(r) \in Configs /\ BackhaulConfig(r).role = r
      /\ BackhaulConfig(r).family = "backhaul"
  <2> DEFINE b == BackpackConfig(r)
             c == [b EXCEPT !.family = "backhaul"]
             d == [c EXCEPT !.carrier = "icmp"]
             e == [d EXCEPT !.port = 2000]
             f == [e EXCEPT !.local  = IF r = "server" THEN "10.200.0.1" ELSE "10.200.0.2"]
             g == [f EXCEPT !.remote = IF r = "server" THEN "10.200.0.2" ELSE "10.200.0.1"]
             m == [g EXCEPT !.num = [Zero EXCEPT !["mtu"] = 1400]]
  <2>1. m = BackhaulConfig(r)
    BY DEF BackhaulConfig
  <2>2. DOMAIN b = {"family", "role", "transport", "addr", "token", "forwards", "num", "carrier",
                    "port", "local", "remote", "peer", "spoof", "spoofSource"}
    BY <1>5 DEF Configs
  <2>3. b \in Configs /\ b.role = r
    BY <1>5
  <2> HIDE DEF b
  <2>10. m.role = r /\ m.family = "backhaul"
    BY <2>2, <2>3
  <2>4. c \in Configs BY <2>3, FieldUpdate
  <2> HIDE DEF c
  <2>5. d \in Configs BY <1>3, <2>4, FieldUpdate
  <2> HIDE DEF d
  <2>6. e \in Configs
    <3>1. \A v \in Int : [d EXCEPT !.port = v] \in Configs BY <2>5, FieldUpdate
    <3> QED BY <3>1
  <2> HIDE DEF e
  <2>7. f \in Configs BY <2>6, FieldUpdate DEF IPs
  <2> HIDE DEF f
  <2>8. g \in Configs BY <2>7, FieldUpdate DEF IPs
  <2> HIDE DEF g
  <2>9. m \in Configs
    <3>1. \A v \in [Numbers -> Int] : [g EXCEPT !.num = v] \in Configs BY <2>8, FieldUpdate
    <3> QED BY <1>2, <3>1
  <2> HIDE DEF m
  <2> QED BY <2>1, <2>9, <2>10
<1> QED BY <1>5, <1>6

(* They leave the numbers of the mux to the defaults.                          *)
LEMMA MenuLeaves ==
  ASSUME NEW r \in Roles
  PROVE  MenuNumbers(BackpackConfig(r).num) /\ MenuMade(BackhaulConfig(r))
<1>1. \A f \in LeftAlone : f \in Numbers /\ f # "keepAlive" /\ f # "mtu"
  BY DEF LeftAlone, Numbers, Defaults
<1> DEFINE alive == [Zero EXCEPT !["keepAlive"] = 30]
           sized == [Zero EXCEPT !["mtu"] = 1400]
<1>2. MenuNumbers(alive)
  BY <1>1 DEF MenuNumbers, Zero
<1>3. MenuNumbers(sized) /\ sized["mtu"] = MenuMTU
  BY <1>1 DEF MenuNumbers, Zero, Numbers, Defaults, MenuMTU
<1>4. BackpackConfig(r).num = alive
  BY DEF BackpackConfig
<1>5. BackhaulConfig(r).num = sized
  BY DEF BackhaulConfig, BackpackConfig
<1> HIDE DEF alive, sized
<1> QED BY <1>2, <1>3, <1>4, <1>5, Zenon DEF MenuMade

(* What the menu tunes stays a table of integers, with the rest left alone.     *)
LEMMA TuningsTyped ==
  ASSUME NEW t, NEW n \in [Numbers -> Int], NEW m \in Tunings(t, n)
  PROVE  m \in [Numbers -> Int] /\ (MenuNumbers(n) => MenuNumbers(m))
<1>1. m \in [Numbers -> Int]
  BY ConfigAssumption DEF Tunings
<1>2. \A f \in LeftAlone : m[f] = n[f]
  <2>1. \A f \in LeftAlone : f \notin {"size", "dataShards", "parityShards"}
    BY DEF LeftAlone
  <2>2. CASE Mode(t) = "pool"
    <3>1. PICK k \in Counts : m = [n EXCEPT !["size"] = k]
      BY <2>2 DEF Tunings
    <3> QED BY <2>1, <3>1
  <2>3. CASE Mode(t) # "pool" /\ t = "kcp"
    <3>1. PICK k, l \in Counts : m = [n EXCEPT !["dataShards"] = k, !["parityShards"] = l]
      BY <2>3 DEF Tunings
    <3> DEFINE x == [n EXCEPT !["dataShards"] = k]
    <3>2. x \in [Numbers -> Int] /\ \A f \in LeftAlone : x[f] = n[f]
      <4>1. x \in [Numbers -> Int]
        BY ConfigAssumption, TableUpdate
      <4>2. \A f \in LeftAlone : x[f] = n[f]
        BY <2>1
      <4> QED BY <4>1, <4>2
    <3>3. m = [x EXCEPT !["parityShards"] = l]
      BY <3>1, Zenon
    <3> HIDE DEF x
    <3> QED BY <2>1, <3>2, <3>3
  <2>4. CASE Mode(t) # "pool" /\ t # "kcp"
    BY <2>4 DEF Tunings
  <2> QED BY <2>2, <2>3, <2>4
<1> QED BY <1>1, <1>2 DEF MenuNumbers

(* What createServer writes.                                                   *)
LEMMA ServerForm ==
  ASSUME NEW p \in Ports, NEW t \in KnownTransports, NEW F \in SUBSET Entries,
         NEW n \in [Numbers -> Int], MenuNumbers(n)
  PROVE  LET c == [BackpackConfig("server") EXCEPT !.addr = Addr("any", p), !.transport = t,
                                                   !.num = n, !.forwards = F]
         IN  c \in Configs /\ c.role = "server" /\ MenuMade(c)
<1> DEFINE b == BackpackConfig("server")
           d == [b EXCEPT !.addr = Addr("any", p)]
           e == [d EXCEPT !.transport = t]
           f == [e EXCEPT !.num = n]
           g == [f EXCEPT !.forwards = F]
<1>1. b \in Configs /\ b.role = "server" /\ b.family = ""
  BY MenuConfigs DEF Roles
<1>2. Addr("any", p) \in Addrs
  BY ConfigAssumption DEF Addr, Addrs, Hosts
<1> HIDE DEF b
<1>3. d \in Configs
  <2>1. \A v \in Addrs : [b EXCEPT !.addr = v] \in Configs BY <1>1, FieldUpdate
  <2> QED BY <1>1, <1>2, <2>1
<1> HIDE DEF d
<1>4. e \in Configs BY <1>3, FieldUpdate
<1> HIDE DEF e
<1>5. f \in Configs
  <2>1. \A v \in [Numbers -> Int] : [e EXCEPT !.num = v] \in Configs BY <1>4, FieldUpdate
  <2> QED BY <1>4, <2>1
<1> HIDE DEF f
<1>6. g \in Configs BY <1>5, FieldUpdate
<1>7. g = [BackpackConfig("server") EXCEPT !.addr = Addr("any", p), !.transport = t,
                                           !.num = n, !.forwards = F]
  BY DEF b, d, e, f
<1>8. DOMAIN b = {"family", "role", "transport", "addr", "token", "forwards", "num", "carrier",
                  "port", "local", "remote", "peer", "spoof", "spoofSource"}
  BY <1>1 DEF Configs
<1>9. g.role = "server" /\ g.family = "" /\ g.num = n
  BY <1>1, <1>8 DEF d, e, f
<1> HIDE DEF g
<1>10. MenuMade(g)
  BY <1>9 DEF MenuMade
<1> QED BY <1>6, <1>7, <1>9, <1>10

(* What createClient writes.                                                   *)
LEMMA ClientForm ==
  ASSUME NEW s \in Configs, NEW a \in Addrs, NEW n \in [Numbers -> Int], MenuNumbers(n),
         s.role = "server", s.family = "", a = Mess \/ (s.addr.port = a.port /\ a.host \in {"ip4", "name"})
  PROVE  LET c == [BackpackConfig("client") EXCEPT !.addr = a, !.transport = s.transport,
                                                   !.token = s.token, !.num = n]
         IN  c \in Configs /\ Counterpart(s, c) /\ MenuMade(c)
<1> DEFINE b == BackpackConfig("client")
           d == [b EXCEPT !.addr = a]
           e == [d EXCEPT !.transport = s.transport]
           f == [e EXCEPT !.token = s.token]
           g == [f EXCEPT !.num = n]
<1>1. b \in Configs /\ b.role = "client" /\ b.family = ""
  BY MenuConfigs DEF Roles
<1>2. s.transport \in KnownTransports \cup {"other"} /\ s.token \in {"", "secret"}
  BY DEF Configs
<1> HIDE DEF b
<1>3. d \in Configs BY <1>1, FieldUpdate
<1> HIDE DEF d
<1>4. e \in Configs BY <1>2, <1>3, FieldUpdate
<1> HIDE DEF e
<1>5. f \in Configs
  <2>1. \A v \in {"", "secret"} : [e EXCEPT !.token = v] \in Configs BY <1>4, FieldUpdate
  <2> QED BY <1>2, <2>1
<1> HIDE DEF f
<1>6. g \in Configs
  <2>1. \A v \in [Numbers -> Int] : [f EXCEPT !.num = v] \in Configs BY <1>5, FieldUpdate
  <2> QED BY <2>1
<1>7. g = [BackpackConfig("client") EXCEPT !.addr = a, !.transport = s.transport,
                                           !.token = s.token, !.num = n]
  BY DEF b, d, e, f
<1>8. DOMAIN b = {"family", "role", "transport", "addr", "token", "forwards", "num", "carrier",
                  "port", "local", "remote", "peer", "spoof", "spoofSource"}
  BY <1>1 DEF Configs
<1>9. /\ g.role = "client" /\ g.family = "" /\ g.addr = a
      /\ g.transport = s.transport /\ g.token = s.token /\ g.num = n
  BY <1>1, <1>8 DEF d, e, f
<1> HIDE DEF g
<1>10. Counterpart(s, g) /\ MenuMade(g)
  BY <1>9 DEF Counterpart, MenuMade
<1> QED BY <1>6, <1>7, <1>10

\* What spoofing can be asked for.
Switches == {<<FALSE, "">>, <<TRUE, "">>, <<TRUE, "ip4">>}

(* A switch and a source.                                                      *)
LEMMA SpoofsTyped ==
  /\ \A s \in Switches : s[1] \in BOOLEAN /\ s[2] \in IPs \cup {""}
  /\ \A c : Spoofs(c) \subseteq Switches
<1>1. ASSUME NEW s \in Switches PROVE s[1] \in BOOLEAN /\ s[2] \in IPs \cup {""}
  <2>1. s = <<FALSE, "">> \/ s = <<TRUE, "">> \/ s = <<TRUE, "ip4">>
    BY Zenon DEF Switches
  <2>2. CASE s = <<FALSE, "">>
    BY <2>2
  <2>3. CASE s = <<TRUE, "">>
    BY <2>3
  <2>4. CASE s = <<TRUE, "ip4">>
    BY <2>4 DEF IPs
  <2> QED BY <2>1, <2>2, <2>3, <2>4
<1>2. ASSUME NEW c PROVE Spoofs(c) \subseteq Switches
  BY Zenon DEF Spoofs, Switches
<1> QED BY <1>1, <1>2

\* What createBackhaul writes on the server.
BackhaulForm(k, p, q, F, l, r, s) ==
  [BackhaulConfig("server") EXCEPT !.carrier = k, !.port = p, !.peer = q, !.forwards = F,
     !.local = l, !.remote = r, !.spoof = s[1], !.spoofSource = s[2]]

(* It is a server's config.                                                    *)
LEMMA BackhaulServerForm ==
  ASSUME NEW k \in KnownCarriers, NEW p \in Ports, NEW q \in IPs \cup {"", "name"}, NEW F \in SUBSET Entries,
         NEW l \in IPs, NEW r \in IPs, NEW s \in Switches
  PROVE  /\ BackhaulForm(k, p, q, F, l, r, s) \in Configs /\ BackhaulForm(k, p, q, F, l, r, s).role = "server"
         /\ MenuMade(BackhaulForm(k, p, q, F, l, r, s))
<1> DEFINE b  == BackhaulConfig("server")
           b1 == [b EXCEPT !.carrier = k]
           b2 == [b1 EXCEPT !.port = p]
           b3 == [b2 EXCEPT !.peer = q]
           b4 == [b3 EXCEPT !.forwards = F]
           b5 == [b4 EXCEPT !.local = l]
           b6 == [b5 EXCEPT !.remote = r]
           b7 == [b6 EXCEPT !.spoof = s[1]]
           b8 == [b7 EXCEPT !.spoofSource = s[2]]
<1>1. b \in Configs /\ b.role = "server" /\ b.family = "backhaul" /\ MenuMade(b)
  BY MenuConfigs, MenuLeaves DEF Roles
<1>2. p \in Int
  BY ConfigAssumption
<1> HIDE DEF b
<1>3. b1 \in Configs BY <1>1, FieldUpdate
<1> HIDE DEF b1
<1>4. b2 \in Configs
  <2>1. \A v \in Int : [b1 EXCEPT !.port = v] \in Configs BY <1>3, FieldUpdate
  <2> QED BY <1>2, <1>3, <2>1
<1> HIDE DEF b2
<1>5. b3 \in Configs BY <1>4, FieldUpdate
<1> HIDE DEF b3
<1>6. b4 \in Configs BY <1>5, FieldUpdate
<1> HIDE DEF b4
<1>7. b5 \in Configs BY <1>6, FieldUpdate
<1> HIDE DEF b5
<1>8. b6 \in Configs BY <1>7, FieldUpdate
<1> HIDE DEF b6
<1>9. b7 \in Configs
  <2>1. \A v \in BOOLEAN : [b6 EXCEPT !.spoof = v] \in Configs BY <1>8, FieldUpdate
  <2>2. s[1] \in BOOLEAN BY SpoofsTyped
  <2> QED BY <2>1, <2>2
<1> HIDE DEF b7
<1>10. b8 \in Configs
  <2>1. \A v \in IPs \cup {""} : [b7 EXCEPT !.spoofSource = v] \in Configs BY <1>9, FieldUpdate
  <2>2. s[2] \in IPs \cup {""} BY SpoofsTyped
  <2> QED BY <2>1, <2>2
<1>11. b8 = BackhaulForm(k, p, q, F, l, r, s)
  BY DEF BackhaulForm, b, b1, b2, b3, b4, b5, b6, b7
<1>12. DOMAIN b = {"family", "role", "transport", "addr", "token", "forwards", "num", "carrier",
                  "port", "local", "remote", "peer", "spoof", "spoofSource"}
  BY <1>1 DEF Configs
<1>13. b8.role = "server" /\ b8.family = "backhaul" /\ b8.num = b.num
  BY <1>1, <1>12 DEF b1, b2, b3, b4, b5, b6, b7
<1> HIDE DEF b8
<1>14. MenuMade(b8)
  BY <1>1, <1>13, Zenon DEF MenuMade
<1> QED BY <1>10, <1>11, <1>13, <1>14

\* What createBackhaul writes on the client, as the server's menu printed it.
BackhaulAnswer(s, q, x, y) ==
  [BackhaulConfig("client") EXCEPT !.carrier = s.carrier, !.port = s.port,
     !.peer = q, !.local = s.remote, !.remote = s.local,
     !.token = s.token, !.spoof = x, !.spoofSource = y]

(* It is the config of the server's counterpart.                               *)
LEMMA BackhaulClientForm ==
  ASSUME NEW s \in Configs, s.role = "server", s.family = "backhaul",
         NEW q \in {"ip4", "name"}, NEW x \in BOOLEAN, NEW y \in IPs \cup {""}
  PROVE  /\ BackhaulAnswer(s, q, x, y) \in Configs /\ Counterpart(s, BackhaulAnswer(s, q, x, y))
         /\ MenuMade(BackhaulAnswer(s, q, x, y))
<1> DEFINE b  == BackhaulConfig("client")
           b1 == [b EXCEPT !.carrier = s.carrier]
           b2 == [b1 EXCEPT !.port = s.port]
           b3 == [b2 EXCEPT !.peer = q]
           b4 == [b3 EXCEPT !.local = s.remote]
           b5 == [b4 EXCEPT !.remote = s.local]
           b6 == [b5 EXCEPT !.token = s.token]
           b7 == [b6 EXCEPT !.spoof = x]
           b8 == [b7 EXCEPT !.spoofSource = y]
<1>1. b \in Configs /\ b.role = "client" /\ b.family = "backhaul" /\ MenuMade(b)
  BY MenuConfigs, MenuLeaves DEF Roles
<1>2. /\ s.carrier \in KnownCarriers \cup {"", "other"} /\ s.port \in Int
      /\ s.local \in IPs \cup {"", "name"} /\ s.remote \in IPs \cup {"", "name"}
      /\ s.token \in {"", "secret"} /\ q \in IPs \cup {"", "name"}
  BY DEF Configs, IPs
<1> HIDE DEF b
<1>3. b1 \in Configs BY <1>1, <1>2, FieldUpdate
<1> HIDE DEF b1
<1>4. b2 \in Configs
  <2>1. \A v \in Int : [b1 EXCEPT !.port = v] \in Configs BY <1>3, FieldUpdate
  <2> QED BY <1>2, <2>1
<1> HIDE DEF b2
<1>5. b3 \in Configs BY <1>2, <1>4, FieldUpdate
<1> HIDE DEF b3
<1>6. b4 \in Configs BY <1>2, <1>5, FieldUpdate
<1> HIDE DEF b4
<1>7. b5 \in Configs BY <1>2, <1>6, FieldUpdate
<1> HIDE DEF b5
<1>8. b6 \in Configs
  <2>1. \A v \in {"", "secret"} : [b5 EXCEPT !.token = v] \in Configs BY <1>7, FieldUpdate
  <2> QED BY <1>2, <2>1
<1> HIDE DEF b6
<1>9. b7 \in Configs BY <1>8, FieldUpdate
<1> HIDE DEF b7
<1>10. b8 \in Configs BY <1>9, FieldUpdate
<1>11. b8 = BackhaulAnswer(s, q, x, y)
  BY DEF BackhaulAnswer, b, b1, b2, b3, b4, b5, b6, b7
<1>12. DOMAIN b = {"family", "role", "transport", "addr", "token", "forwards", "num", "carrier",
                   "port", "local", "remote", "peer", "spoof", "spoofSource"}
  BY <1>1 DEF Configs
<1>13. /\ b8.role = "client" /\ b8.family = "backhaul" /\ b8.token = s.token /\ b8.carrier = s.carrier
       /\ b8.port = s.port /\ b8.local = s.remote /\ b8.remote = s.local /\ b8.peer = q
       /\ b8.num = b.num
  BY <1>1, <1>12 DEF b1, b2, b3, b4, b5, b6, b7
<1> HIDE DEF b8
<1>14. Counterpart(s, b8)
  BY <1>13 DEF Counterpart
<1>15. MenuMade(b8)
  BY <1>1, <1>13, Zenon DEF MenuMade
<1> QED BY <1>10, <1>11, <1>14, <1>15

(* An operator who changes one value of a file leaves it a file.               *)
LEMMA EditsTyped ==
  ASSUME NEW c \in Configs, NEW d \in Edits(c) PROVE d \in Configs
<1>1. CASE d \in NumberEdits(c)
  <2>1. PICK f \in Numbers, k \in Counts : d = [c EXCEPT !.num = [@ EXCEPT ![f] = k]]
    BY <1>1 DEF NumberEdits
  <2> DEFINE n == [c.num EXCEPT ![f] = k]
  <2>2. n \in [Numbers -> Int]
    BY TableUpdate, ConfigAssumption DEF Configs
  <2>3. d = [c EXCEPT !.num = n]
    BY <2>1
  <2>4. \A v \in [Numbers -> Int] : [c EXCEPT !.num = v] \in Configs
    BY FieldUpdate
  <2> HIDE DEF n
  <2> QED BY <2>2, <2>3, <2>4
<1>2. CASE d \in ForwardEdits(c)
  <2>1. PICK F \in SUBSET Entries : d = [c EXCEPT !.forwards = F]
    BY <1>2 DEF ForwardEdits
  <2> QED BY <2>1, FieldUpdate
<1>3. CASE d \in CarrierEdits(c)
  <2>1. PICK k \in KnownCarriers : d = [[c EXCEPT !.carrier = k] EXCEPT !.spoof = TRUE]
    BY <1>3 DEF CarrierEdits
  <2>2. [c EXCEPT !.carrier = k] \in Configs
    BY FieldUpdate
  <2>3. \A v \in BOOLEAN : [[c EXCEPT !.carrier = k] EXCEPT !.spoof = v] \in Configs
    BY <2>2, FieldUpdate
  <2> QED BY <2>1, <2>3
<1>4. CASE d \in NameEdits(c)
  <2>1. Mess \in Addrs /\ Bare(Https) \in Addrs
    BY DEF Mess, Bare, Addr, NoPort, Https, Addrs, Hosts
  <2>2. PICK e \in
           {<<"role", "other">>, <<"family", "other">>, <<"token", "">>, <<"transport", "other">>,
            <<"carrier", "other">>, <<"carrier", "">>, <<"addr", Mess>>, <<"addr", Bare(Https)>>,
            <<"spoof", TRUE>>, <<"peer", "name">>, <<"local", "name">>, <<"remote", "">>} :
           d = [c EXCEPT ![e[1]] = e[2]]
    BY <1>4, Zenon DEF NameEdits
  <2>3. CASE e = <<"role", "other">>
    <3>1. \A v \in Roles \cup {"other"} : [c EXCEPT !.role = v] \in Configs
      BY FieldUpdate
    <3>2. d = [c EXCEPT !.role = "other"]
      BY <2>2, <2>3
    <3> QED BY <2>1, <3>1, <3>2
  <2>4. CASE e = <<"family", "other">>
    <3>1. \A v \in {"", "backpack", "backhaul", "other"} : [c EXCEPT !.family = v] \in Configs
      BY FieldUpdate
    <3>2. d = [c EXCEPT !.family = "other"]
      BY <2>2, <2>4
    <3> QED BY <2>1, <3>1, <3>2
  <2>5. CASE e = <<"token", "">>
    <3>1. \A v \in {"", "secret"} : [c EXCEPT !.token = v] \in Configs
      BY FieldUpdate
    <3>2. d = [c EXCEPT !.token = ""]
      BY <2>2, <2>5
    <3> QED BY <2>1, <3>1, <3>2
  <2>6. CASE e = <<"transport", "other">>
    <3>1. \A v \in KnownTransports \cup {"other"} : [c EXCEPT !.transport = v] \in Configs
      BY FieldUpdate
    <3>2. d = [c EXCEPT !.transport = "other"]
      BY <2>2, <2>6
    <3> QED BY <2>1, <3>1, <3>2
  <2>7. CASE e = <<"carrier", "other">>
    <3>1. \A v \in KnownCarriers \cup {"", "other"} : [c EXCEPT !.carrier = v] \in Configs
      BY FieldUpdate
    <3>2. d = [c EXCEPT !.carrier = "other"]
      BY <2>2, <2>7
    <3> QED BY <2>1, <3>1, <3>2
  <2>8. CASE e = <<"carrier", "">>
    <3>1. \A v \in KnownCarriers \cup {"", "other"} : [c EXCEPT !.carrier = v] \in Configs
      BY FieldUpdate
    <3>2. d = [c EXCEPT !.carrier = ""]
      BY <2>2, <2>8
    <3> QED BY <2>1, <3>1, <3>2
  <2>9. CASE e = <<"addr", Mess>>
    <3>1. \A v \in Addrs : [c EXCEPT !.addr = v] \in Configs
      BY FieldUpdate
    <3>2. d = [c EXCEPT !.addr = Mess]
      BY <2>2, <2>9
    <3> QED BY <2>1, <3>1, <3>2
  <2>10. CASE e = <<"addr", Bare(Https)>>
    <3>1. \A v \in Addrs : [c EXCEPT !.addr = v] \in Configs
      BY FieldUpdate
    <3>2. d = [c EXCEPT !.addr = Bare(Https)]
      BY <2>2, <2>10
    <3> QED BY <2>1, <3>1, <3>2
  <2>11. CASE e = <<"spoof", TRUE>>
    <3>1. \A v \in BOOLEAN : [c EXCEPT !.spoof = v] \in Configs
      BY FieldUpdate
    <3>2. d = [c EXCEPT !.spoof = TRUE]
      BY <2>2, <2>11
    <3> QED BY <2>1, <3>1, <3>2
  <2>12. CASE e = <<"peer", "name">>
    <3>1. \A v \in IPs \cup {"", "name"} : [c EXCEPT !.peer = v] \in Configs
      BY FieldUpdate
    <3>2. d = [c EXCEPT !.peer = "name"]
      BY <2>2, <2>12
    <3> QED BY <2>1, <3>1, <3>2
  <2>13. CASE e = <<"local", "name">>
    <3>1. \A v \in IPs \cup {"", "name"} : [c EXCEPT !.local = v] \in Configs
      BY FieldUpdate
    <3>2. d = [c EXCEPT !.local = "name"]
      BY <2>2, <2>13
    <3> QED BY <2>1, <3>1, <3>2
  <2>14. CASE e = <<"remote", "">>
    <3>1. \A v \in IPs \cup {"", "name"} : [c EXCEPT !.remote = v] \in Configs
      BY FieldUpdate
    <3>2. d = [c EXCEPT !.remote = ""]
      BY <2>2, <2>14
    <3> QED BY <2>1, <3>1, <3>2
  <2> QED BY <2>2, <2>3, <2>4, <2>5, <2>6, <2>7, <2>8, <2>9, <2>10, <2>11, <2>12, <2>13, <2>14
<1> QED BY <1>1, <1>2, <1>3, <1>4 DEF Edits

-----------------------------------------------------------------------------
(* Steps                                                                       *)

(* While no file is there, nothing has been printed and no engine has run.     *)
LEMMA FreshMeansNothing ==
  ASSUME IInv, Fresh
  PROVE  /\ byMenu = {} /\ printed = Unset
         /\ \A h \in Roles : file[h] = Unset /\ stage[h] = "off" /\ config[h] = Unset
<1>1. \A h \in Roles : file[h] = Unset
  BY DEF Fresh
<1>2. byMenu = {}
  BY <1>1 DEF IInv, TypeOK, PrintedIsFollowed
<1>3. printed = Unset
  BY <1>1 DEF IInv, PrintedIsFollowed, Roles
<1>4. \A h \in Roles : stage[h] = "off" /\ config[h] = Unset
  BY <1>1 DEF IInv, TypeOK, Loaded
<1> QED BY <1>1, <1>2, <1>3, <1>4

(* A file that is written where none was concerns no engine.                   *)
LEMMA EnginesFrame ==
  ASSUME IInv, NEW h \in Roles, file[h] = Unset, NEW c \in Configs, file' = [file EXCEPT ![h] = c],
         UNCHANGED <<stage, config, publishes, shows>>,
         byMenu' \subseteq Roles, printed' \in Configs \cup {Unset}
  PROVE  TypeOK' /\ ConfigsAreLoaded' /\ Serving'
<1>1. stage[h] = "off"
  BY DEF IInv, TypeOK
<1>2. TypeOK'
  <2>1. file' \in [Roles -> Configs \cup {Unset}]
    BY DEF IInv, TypeOK
  <2>2. \A k \in Roles : (stage[k] # "off" => file'[k] # Unset) /\ (Loaded(k)' <=> config[k] # Unset)
    BY UnsetAssumption DEF IInv, TypeOK, Loaded
  <2> QED BY <2>1, <2>2 DEF IInv, TypeOK
<1>3. \A k \in Roles : Loaded(k) => file'[k] = file[k]
  BY <1>1 DEF IInv, TypeOK, Loaded
<1>4. ConfigsAreLoaded'
  BY <1>3 DEF IInv, ConfigsAreLoaded, Loaded
<1>5. Serving'
  BY DEF IInv, Serving, Loaded
<1> QED BY <1>2, <1>4, <1>5

(* The menu has written the server's file and printed it.                      *)
LEMMA InstallServer ==
  ASSUME IInv, Fresh, NEW c \in Configs, c.role = "server", Install("server", c, c), MenuMade(c)
  PROVE  IInv'
<1>1. /\ file' = [file EXCEPT !["server"] = c] /\ byMenu' = byMenu \cup {"server"} /\ printed' = c
      /\ UNCHANGED <<stage, config, publishes, shows>>
  BY DEF Install
<1>2. byMenu' = {"server"} /\ file["server"] = Unset /\ "server" \in Roles
  BY <1>1, FreshMeansNothing DEF Roles
<1>3. TypeOK' /\ ConfigsAreLoaded' /\ Serving'
  BY <1>1, <1>2, EnginesFrame
<1>4. file'["server"] = c
  BY <1>1, <1>2 DEF IInv, TypeOK
<1>5. PrintedIsFollowed'
  BY <1>1, <1>2, <1>4, UnsetAssumption DEF PrintedIsFollowed
<1> QED BY <1>3, <1>5 DEF IInv

(* The menu has written the file of a client that follows what was printed.    *)
LEMMA InstallClient ==
  ASSUME IInv, file["client"] = Unset, printed # Unset,
         NEW c \in Configs, Counterpart(printed, c), Install("client", c, Unset), MenuMade(c)
  PROVE  IInv'
<1>1. /\ file' = [file EXCEPT !["client"] = c] /\ byMenu' = byMenu \cup {"client"} /\ printed' = printed
      /\ UNCHANGED <<stage, config, publishes, shows>>
  BY DEF Install
<1>2. "client" \in Roles /\ "server" \in Roles /\ byMenu' \subseteq Roles /\ printed' \in Configs \cup {Unset}
  BY <1>1 DEF Roles, IInv, TypeOK
<1>3. TypeOK' /\ ConfigsAreLoaded' /\ Serving'
  BY <1>1, <1>2, EnginesFrame
<1>4. file'["client"] = c /\ file'["server"] = file["server"]
  BY <1>1, <1>2 DEF IInv, TypeOK
<1>5. \A h \in byMenu' : file'[h] # Unset /\ MenuMade(file'[h])
  BY <1>1, <1>2, <1>4, UnsetAssumption DEF IInv, PrintedIsFollowed, Roles
<1>6. PrintedIsFollowed'
  BY <1>1, <1>4, <1>5 DEF IInv, PrintedIsFollowed
<1> QED BY <1>3, <1>6 DEF IInv

(* What can be typed for the forwards is a set of entries.                     *)
LEMMA ForwardsTyped == Forwards \subseteq SUBSET Entries
BY DEF Forwards

(* createServer writes a server's file and prints it.                          *)
LEMMA CreateServerStep == ASSUME IInv, createServer PROVE IInv'
<1>1. PICK t \in KnownTransports, p \in Ports, F \in Forwards \ {{}} :
        \E n \in Tunings(t, BackpackConfig("server").num) :
          LET c == [BackpackConfig("server") EXCEPT !.addr = Addr("any", p), !.transport = t,
                                                    !.num = n, !.forwards = F]
          IN Install("server", c, c)
  BY DEF createServer
<1>2. PICK n \in Tunings(t, BackpackConfig("server").num) :
        LET c == [BackpackConfig("server") EXCEPT !.addr = Addr("any", p), !.transport = t,
                                                  !.num = n, !.forwards = F]
        IN Install("server", c, c)
  BY <1>1
<1> DEFINE c == [BackpackConfig("server") EXCEPT !.addr = Addr("any", p), !.transport = t,
                                                 !.num = n, !.forwards = F]
<1>3. n \in [Numbers -> Int] /\ MenuNumbers(n)
  <2>1. BackpackConfig("server").num \in [Numbers -> Int]
    BY MenuConfigs DEF Roles, Configs
  <2>2. MenuNumbers(BackpackConfig("server").num)
    BY MenuLeaves DEF Roles
  <2> QED BY <2>1, <2>2, TuningsTyped
<1>4. Install("server", c, c)
  BY <1>2
<1>5. c \in Configs /\ c.role = "server" /\ MenuMade(c)
  BY <1>3, ForwardsTyped, ServerForm
<1>6. Fresh
  BY DEF createServer
<1> HIDE DEF c
<1> QED BY <1>4, <1>5, <1>6, InstallServer

(* createClient follows what createServer printed.                             *)
LEMMA CreateClientStep == ASSUME IInv, createClient PROVE IInv'
<1>1. file["client"] = Unset /\ printed # Unset /\ printed.family = ""
  BY DEF createClient
<1>2. printed \in Configs /\ printed.role = "server"
  BY <1>1 DEF IInv, TypeOK, PrintedIsFollowed
<1>3. PICK host \in {"ip4", "ip6", "name"} :
        \E n \in Tunings(printed.transport, BackpackConfig("client").num) :
          LET addr == IF host = "ip6" THEN Mess ELSE Addr(host, printed.addr.port)
              c == [BackpackConfig("client") EXCEPT !.addr = addr, !.transport = printed.transport,
                                                    !.token = printed.token, !.num = n]
          IN Install("client", c, Unset)
  BY DEF createClient
<1> DEFINE a == IF host = "ip6" THEN Mess ELSE Addr(host, printed.addr.port)
<1>4. PICK n \in Tunings(printed.transport, BackpackConfig("client").num) :
        Install("client", [BackpackConfig("client") EXCEPT !.addr = a, !.transport = printed.transport,
                                                           !.token = printed.token, !.num = n], Unset)
  BY <1>3
<1>5. n \in [Numbers -> Int] /\ MenuNumbers(n)
  <2>1. BackpackConfig("client").num \in [Numbers -> Int]
    BY MenuConfigs DEF Roles, Configs
  <2>2. MenuNumbers(BackpackConfig("client").num)
    BY MenuLeaves DEF Roles
  <2> QED BY <2>1, <2>2, TuningsTyped
<1>6. a \in Addrs /\ (a = Mess \/ (printed.addr.port = a.port /\ a.host \in {"ip4", "name"}))
  <2>1. printed.addr.port \in Int
    BY <1>2 DEF Configs, Addrs
  <2>2. Mess \in Addrs
    BY DEF Mess, Addr, NoPort, Addrs, Hosts
  <2>3. /\ Addr(host, printed.addr.port) \in Addrs /\ Addr(host, printed.addr.port).port = printed.addr.port
        /\ Addr(host, printed.addr.port).host = host
    BY <2>1 DEF Addr, Addrs, Hosts
  <2> QED BY <2>2, <2>3
<1> DEFINE c == [BackpackConfig("client") EXCEPT !.addr = a, !.transport = printed.transport,
                                                 !.token = printed.token, !.num = n]
<1>7. Install("client", c, Unset)
  BY <1>4
<1> HIDE DEF a
<1>8. c \in Configs /\ Counterpart(printed, c) /\ MenuMade(c)
  BY <1>1, <1>2, <1>5, <1>6, ClientForm
<1> HIDE DEF c
<1> QED BY <1>1, <1>7, <1>8, InstallClient

(* createBackhaul on the server.                                               *)
LEMMA CreateBackhaulServerStep == ASSUME IInv, createBackhaulServer PROVE IInv'
<1>1. PICK k \in KnownCarriers, p \in Ports, peer \in {"", "ip4", "name"}, F \in Forwards,
            ips \in {<<"10.200.0.1", "10.200.0.2">>, <<"10.200.0.1", "ip6">>} :
        \E s \in Spoofs(k) :
          /\ Cardinality(F) < 2
          /\ LET b == [BackhaulConfig("server") EXCEPT !.carrier = k, !.port = p, !.peer = peer,
                         !.forwards = F, !.local = ips[1], !.remote = ips[2],
                         !.spoof = s[1], !.spoofSource = s[2]]
             IN Install("server", b, b)
  BY DEF createBackhaulServer
<1>2. PICK s \in Spoofs(k) :
        LET b == [BackhaulConfig("server") EXCEPT !.carrier = k, !.port = p, !.peer = peer,
                    !.forwards = F, !.local = ips[1], !.remote = ips[2],
                    !.spoof = s[1], !.spoofSource = s[2]]
        IN Install("server", b, b)
  BY <1>1
<1> DEFINE b == [BackhaulConfig("server") EXCEPT !.carrier = k, !.port = p, !.peer = peer,
                   !.forwards = F, !.local = ips[1], !.remote = ips[2],
                   !.spoof = s[1], !.spoofSource = s[2]]
<1>3. Install("server", b, b)
  BY <1>2
<1>4. /\ peer \in IPs \cup {"", "name"} /\ ips[1] \in IPs /\ ips[2] \in IPs
      /\ s \in Switches /\ F \in SUBSET Entries
  <2>1. ips = <<"10.200.0.1", "10.200.0.2">> \/ ips = <<"10.200.0.1", "ip6">>
    BY <1>1
  <2>2. ips[1] \in IPs /\ ips[2] \in IPs
    <3> HIDE DEF b
    <3>1. CASE ips = <<"10.200.0.1", "10.200.0.2">>
      BY <3>1 DEF IPs
    <3>2. CASE ips = <<"10.200.0.1", "ip6">>
      BY <3>2 DEF IPs
    <3> QED BY <2>1, <3>1, <3>2
  <2>3. peer \in IPs \cup {"", "name"}
    BY DEF IPs
  <2> QED BY <2>2, <2>3, SpoofsTyped, ForwardsTyped
<1>5. b \in Configs /\ b.role = "server" /\ MenuMade(b)
  <2>1. b = BackhaulForm(k, p, peer, F, ips[1], ips[2], s)
    BY DEF BackhaulForm
  <2> HIDE DEF b
  <2> QED BY <1>4, <2>1, BackhaulServerForm
<1>6. Fresh
  BY DEF createBackhaulServer
<1> HIDE DEF b
<1> QED BY <1>3, <1>5, <1>6, InstallServer

(* createBackhaul on the client follows what it printed on the server.         *)
LEMMA CreateBackhaulClientStep == ASSUME IInv, createBackhaulClient PROVE IInv'
<1>1. file["client"] = Unset /\ printed # Unset /\ printed.family = "backhaul"
  BY DEF createBackhaulClient
<1>2. printed \in Configs /\ printed.role = "server"
  BY <1>1 DEF IInv, TypeOK, PrintedIsFollowed
<1>3. PICK peer \in {"ip4", "name"}, s \in Spoofs(printed.carrier) :
        Install("client", BackhaulAnswer(printed, peer, s[1], s[2]), Unset)
  BY Zenon DEF createBackhaulClient, BackhaulAnswer
<1>4. s[1] \in BOOLEAN /\ s[2] \in IPs \cup {""}
  BY SpoofsTyped
<1> DEFINE c == BackhaulAnswer(printed, peer, s[1], s[2])
<1>5. c \in Configs /\ Counterpart(printed, c) /\ MenuMade(c)
  BY <1>1, <1>2, <1>4, BackhaulClientForm
<1>6. Install("client", c, Unset)
  BY <1>3
<1> HIDE DEF c
<1> QED BY <1>1, <1>5, <1>6, InstallClient

(* An operator writes a file.                                                  *)
LEMMA WriteStep == ASSUME IInv, NEW h \in Roles, Write(h) PROVE IInv'
<1>1. Fresh /\ UNCHANGED <<byMenu, printed, stage, config, publishes, shows>>
  BY DEF Write
<1>2. PICK c \in Templates(h) : \E d \in Edits(c) : file' = [file EXCEPT ![h] = d]
  BY DEF Write
<1>3. c \in Configs
  <2>1. CASE c = BackhaulConfig(h)
    BY <2>1, MenuConfigs
  <2>2. CASE c = [BackpackConfig(h) EXCEPT !.forwards = {Forward(Bare(Https), Blank)}]
    <3>1. \A v \in SUBSET Entries : [BackpackConfig(h) EXCEPT !.forwards = v] \in Configs
      BY MenuConfigs, FieldUpdate
    <3>2. Forward(Bare(Https), Blank) \in Entries
      <4>1. Bare(Https) \in Listens /\ Blank \in Targets
        BY DEF Listens, Targets
      <4> QED BY <4>1 DEF Forward, Entries
    <3> QED BY <2>2, <3>1, <3>2
  <2> QED BY <2>1, <2>2, Zenon DEF Templates
<1>4. PICK d \in Configs : file' = [file EXCEPT ![h] = d]
  BY <1>2, <1>3, EditsTyped
<1>5. byMenu = {} /\ printed = Unset /\ file[h] = Unset
  BY <1>1, FreshMeansNothing
<1>6. TypeOK' /\ ConfigsAreLoaded' /\ Serving'
  BY <1>1, <1>4, <1>5, EnginesFrame
<1>7. PrintedIsFollowed'
  BY <1>1, <1>5 DEF PrintedIsFollowed
<1> QED BY <1>6, <1>7 DEF IInv

(* An engine loads its file, or refuses it and has no config.                  *)
LEMMA LoadStep == ASSUME IInv, NEW h \in Roles, Load(h) PROVE IInv'
<1> DEFINE c == applyDefaults(file[h])
<1>1. /\ file[h] # Unset /\ stage[h] = "off" /\ config[h] = Unset /\ file[h] \in Configs
      /\ UNCHANGED <<file, byMenu, printed, publishes, shows>>
  BY DEF IInv, TypeOK, Loaded, Load
<1>2. c \in Configs /\ c # Unset
  BY <1>1, Applied, UnsetAssumption
<1>3. \/ Validate(c) /\ config' = [config EXCEPT ![h] = c] /\ stage' = [stage EXCEPT ![h] = "loaded"]
      \/ UNCHANGED config /\ stage' = [stage EXCEPT ![h] = "refused"]
  BY DEF Load
<1>4. PrintedIsFollowed'
  BY <1>1 DEF IInv, PrintedIsFollowed
<1>5. Serving'
  BY <1>1, <1>3 DEF IInv, TypeOK, Serving, Loaded
<1>6. TypeOK' /\ ConfigsAreLoaded'
  <2> HIDE DEF c
  <2>1. CASE config' = [config EXCEPT ![h] = c] /\ stage' = [stage EXCEPT ![h] = "loaded"] /\ Validate(c)
    <3>1. TypeOK'
      BY <1>1, <1>2, <2>1 DEF IInv, TypeOK, Loaded
    <3>2. ConfigsAreLoaded'
      BY <1>1, <2>1 DEF c, IInv, TypeOK, ConfigsAreLoaded, Loaded
    <3> QED BY <3>1, <3>2
  <2>2. CASE UNCHANGED config /\ stage' = [stage EXCEPT ![h] = "refused"]
    <3>1. TypeOK'
      BY <1>1, <2>2 DEF IInv, TypeOK, Loaded
    <3>2. ConfigsAreLoaded'
      BY <1>1, <2>2 DEF IInv, TypeOK, ConfigsAreLoaded, Loaded
    <3> QED BY <3>1, <3>2
  <2> QED BY <1>3, <2>1, <2>2
<1> QED BY <1>4, <1>5, <1>6 DEF IInv

(* A forward that can be made out is listened for on a number.                 *)
LEMMA ListenPortTyped ==
  ASSUME NEW e \in Entries, ParseForward(e) # Unset PROVE ListenPort(e) \in Int
<1> DEFINE l == Normalize(e.listen, "any")
           t == IF e.target = Blank THEN Addr("loopback", l.port) ELSE Normalize(e.target, "loopback")
<1>1. ParseForward(e) = [listen |-> l, target |-> t]
  BY DEF ParseForward
<1>2. ListenPort(e) = l.port
  <2> HIDE DEF l, t
  <2> QED BY <1>1 DEF ListenPort
<1>3. \A a \in Listens : a.port \in Int
  <2>1. \A h, p : Addr(h, p).port = p
    BY DEF Addr
  <2>2. \A p \in Ports \cup {Https} : Bare(p).port \in Int
    BY <2>1, ConfigAssumption DEF Bare, Https
  <2>3. Addr("", Https).port \in Int /\ Mess.port \in Int
    BY DEF Mess, NoPort, Https, Addr
  <2> QED BY <2>2, <2>3 DEF Listens
<1>4. e.listen.port \in Int
  BY <1>3 DEF Entries
<1>5. l.port \in Int
  BY <1>4 DEF Normalize, Mess, Addr, NoPort
<1> QED BY <1>2, <1>5

(* What is registered for the state file are numbers.                          *)
LEMMA PortsTyped == ASSUME NEW c \in Configs, Validate(c) PROVE PortsOf(c) \in SUBSET Int
<1>1. CASE c.family # "backhaul" /\ c.role = "client"
  BY <1>1 DEF PortsOf
<1>2. CASE ~(c.family # "backhaul" /\ c.role = "client")
  <2>1. c.family = "backhaul" \/ c.role = "server"
    BY <1>2 DEF Validate, ValidBackpack, Roles
  <2>2. \A e \in c.forwards : ListenPort(e) \in Int
    BY <2>1, ListenPortTyped DEF Validate, Configs
  <2> QED BY <2>2 DEF PortsOf
<1> QED BY <1>1, <1>2

(* An engine that has loaded goes on: its config stays, and what it listens    *)
(* for and shows is as far as it has come.                                     *)
LEMMA EngineGoesOn ==
  ASSUME IInv, NEW h \in Roles, Loaded(h), UNCHANGED <<file, byMenu, printed, config>>,
         NEW v \in {"loaded", "listening", "running", "failed"}, stage' = [stage EXCEPT ![h] = v],
         NEW P, publishes' = [publishes EXCEPT ![h] = P], P \subseteq config[h].forwards,
         NEW S \in {Unset, PortsOf(config[h])}, shows' = [shows EXCEPT ![h] = S],
         v \in {"loaded", "failed"} => P = {},
         v = "listening" => IsServer(config[h]),
         v \in {"listening", "running"} /\ IsServer(config[h]) => Bindable(config[h].addr.port),
         v = "running" => P = IF IsServer(config[h]) THEN config[h].forwards ELSE {}
  PROVE  IInv'
<1>1. config[h] \in Configs /\ Validate(config[h])
  BY DEF IInv, TypeOK, ConfigsAreLoaded, Loaded
<1>2. S \in (SUBSET Int) \cup {Unset} /\ P \in SUBSET Entries
  BY <1>1, PortsTyped DEF Configs
<1>3. /\ stage'[h] = v /\ publishes'[h] = P /\ shows'[h] = S
      /\ \A k \in Roles \ {h} : stage'[k] = stage[k] /\ publishes'[k] = publishes[k] /\ shows'[k] = shows[k]
  BY DEF IInv, TypeOK
<1>4. \A k \in Roles : Loaded(k)' <=> Loaded(k)
  BY <1>3 DEF Loaded
<1>5. TypeOK'
  <2>1. stage' \in [Roles -> {"off", "refused", "loaded", "listening", "failed", "running"}]
    BY DEF IInv, TypeOK
  <2>2. publishes' \in [Roles -> SUBSET Entries]
    BY <1>2 DEF IInv, TypeOK
  <2>3. shows' \in [Roles -> (SUBSET Int) \cup {Unset}]
    BY <1>2 DEF IInv, TypeOK
  <2>4. \A k \in Roles : (stage'[k] # "off" => file[k] # Unset) /\ (Loaded(k)' <=> config[k] # Unset)
    BY <1>3, <1>4 DEF IInv, TypeOK, Loaded
  <2> QED BY <2>1, <2>2, <2>3, <2>4 DEF IInv, TypeOK
<1>6. ConfigsAreLoaded'
  BY <1>4 DEF IInv, ConfigsAreLoaded
<1>7. PrintedIsFollowed'
  BY DEF IInv, PrintedIsFollowed
<1>8. Serving'
  <2> SUFFICES ASSUME NEW k \in Roles
               PROVE  /\ stage'[k] \in {"off", "refused"} => shows'[k] = Unset
                      /\ stage'[k] \in {"off", "refused", "loaded", "failed"} => publishes'[k] = {}
                      /\ Loaded(k)' => /\ shows'[k] \in {Unset, PortsOf(config[k])}
                                       /\ publishes'[k] \subseteq config[k].forwards
                      /\ stage'[k] = "listening" => IsServer(config[k])
                      /\ stage'[k] \in {"listening", "running"} /\ IsServer(config[k]) =>
                           Bindable(config[k].addr.port)
                      /\ stage'[k] = "running" =>
                           publishes'[k] = IF IsServer(config[k]) THEN config[k].forwards ELSE {}
    BY DEF Serving
  <2>1. CASE k = h
    BY <1>3, <2>1
  <2>2. CASE k # h
    BY <1>3, <1>4, <2>2 DEF IInv, Serving
  <2> QED BY <2>1, <2>2
<1> QED BY <1>5, <1>6, <1>7, <1>8 DEF IInv

(* What an engine that has loaded had before its step.                         *)
LEMMA EngineHad ==
  ASSUME IInv, NEW h \in Roles, Loaded(h)
  PROVE  /\ stage = [stage EXCEPT ![h] = stage[h]] /\ publishes = [publishes EXCEPT ![h] = publishes[h]]
         /\ shows = [shows EXCEPT ![h] = shows[h]]
         /\ stage[h] \in {"loaded", "listening", "running", "failed"}
         /\ publishes[h] \subseteq config[h].forwards /\ shows[h] \in {Unset, PortsOf(config[h])}
BY DEF IInv, TypeOK, Serving, Loaded

(* The state file is written.                                                  *)
LEMMA PublishLoopStep == ASSUME IInv, NEW h \in Roles, PublishLoop(h) PROVE IInv'
<1>1. /\ Loaded(h) /\ shows' = [shows EXCEPT ![h] = PortsOf(config[h])]
      /\ UNCHANGED <<file, byMenu, printed, stage, config, publishes>>
  BY DEF PublishLoop, Loaded
<1>2. /\ stage' = [stage EXCEPT ![h] = stage[h]] /\ publishes' = [publishes EXCEPT ![h] = publishes[h]]
      /\ stage[h] \in {"loaded", "listening", "running", "failed"} /\ publishes[h] \subseteq config[h].forwards
  BY <1>1, EngineHad
<1>3. /\ stage[h] \in {"loaded", "failed"} => publishes[h] = {}
      /\ stage[h] = "listening" => IsServer(config[h])
      /\ stage[h] \in {"listening", "running"} /\ IsServer(config[h]) => Bindable(config[h].addr.port)
      /\ stage[h] = "running" => publishes[h] = IF IsServer(config[h]) THEN config[h].forwards ELSE {}
  BY DEF IInv, Serving
<1> QED BY <1>1, <1>2, <1>3, EngineGoesOn

(* The engine gives up, whatever becomes of its state file.                    *)
LEMMA FailsStep ==
  ASSUME IInv, NEW h \in Roles, Loaded(h), Fails(h), UNCHANGED <<file, byMenu, printed, config>>
  PROVE  IInv'
<1>1. stage' = [stage EXCEPT ![h] = "failed"] /\ publishes' = [publishes EXCEPT ![h] = {}]
  BY DEF Fails
<1>2. PICK S \in {Unset, PortsOf(config[h])} : shows' = [shows EXCEPT ![h] = S]
  BY EngineHad DEF Fails
<1> QED BY <1>1, <1>2, EngineGoesOn

(* The tunnel's own listener.                                                  *)
LEMMA ListenStep == ASSUME IInv, NEW h \in Roles, Listen(h) PROVE IInv'
<1>1. Loaded(h) /\ IsServer(config[h]) /\ UNCHANGED <<file, byMenu, printed, config>>
  BY DEF Listen, Loaded
<1>2. CASE Fails(h)
  BY <1>1, <1>2, FailsStep
<1>3. CASE /\ Bindable(config[h].addr.port) /\ stage' = [stage EXCEPT ![h] = "listening"]
           /\ UNCHANGED <<publishes, shows>>
  <2>1. /\ publishes' = [publishes EXCEPT ![h] = publishes[h]] /\ shows' = [shows EXCEPT ![h] = shows[h]]
        /\ publishes[h] \subseteq config[h].forwards /\ shows[h] \in {Unset, PortsOf(config[h])}
    BY <1>1, <1>3, EngineHad
  <2> QED BY <1>1, <1>3, <2>1, EngineGoesOn
<1> QED BY <1>2, <1>3 DEF Listen

(* One more forward is listened for, and after the last the engine serves.     *)
LEMMA PublishStep == ASSUME IInv, NEW h \in Roles, publish(h) PROVE IInv'
<1>1. stage[h] = "listening" /\ Loaded(h) /\ UNCHANGED <<file, byMenu, printed, config>>
  BY DEF publish, Loaded
<1>2. IsServer(config[h]) /\ Bindable(config[h].addr.port)
  BY <1>1 DEF IInv, Serving
<1>3. PICK e \in config[h].forwards \ publishes[h] :
        LET now == publishes[h] \cup {e} IN
          IF Vacant(h, ListenPort(e))
            THEN /\ publishes' = [publishes EXCEPT ![h] = now]
                 /\ stage' = [stage EXCEPT ![h] = IF now = config[h].forwards THEN "running" ELSE @]
                 /\ UNCHANGED shows
            ELSE Fails(h)
  BY DEF publish
<1>4. CASE Fails(h)
  BY <1>1, <1>4, FailsStep
<1> DEFINE now == publishes[h] \cup {e}
           v == IF now = config[h].forwards THEN "running" ELSE "listening"
<1>5. CASE /\ publishes' = [publishes EXCEPT ![h] = now] /\ UNCHANGED shows
           /\ stage' = [stage EXCEPT ![h] = IF now = config[h].forwards THEN "running" ELSE @]
  <2>1. stage' = [stage EXCEPT ![h] = v] /\ v \in {"loaded", "listening", "running", "failed"}
    BY <1>1, <1>5
  <2>2. shows' = [shows EXCEPT ![h] = shows[h]] /\ shows[h] \in {Unset, PortsOf(config[h])}
    BY <1>1, <1>5, EngineHad
  <2>3. now \subseteq config[h].forwards
    BY <1>1, EngineHad
  <2>4. v \notin {"loaded", "failed"} /\ (v = "running" => now = config[h].forwards)
    OBVIOUS
  <2>5. publishes' = [publishes EXCEPT ![h] = now]
    BY <1>5
  <2> HIDE DEF now, v
  <2> QED BY <1>1, <1>2, <2>1, <2>2, <2>3, <2>4, <2>5, EngineGoesOn
<1> QED BY <1>3, <1>4, <1>5

(* A client dials, a backhaul opens what it needs.                             *)
LEMMA RunStep == ASSUME IInv, NEW h \in Roles, Run(h) PROVE IInv'
<1>1. stage[h] = "loaded" /\ Loaded(h) /\ ~IsServer(config[h]) /\ UNCHANGED <<file, byMenu, printed, config>>
  BY DEF Run, Loaded
<1>2. CASE Fails(h)
  BY <1>1, <1>2, FailsStep
<1>3. CASE stage' = [stage EXCEPT ![h] = "running"] /\ UNCHANGED <<publishes, shows>>
  <2>1. /\ publishes' = [publishes EXCEPT ![h] = publishes[h]] /\ shows' = [shows EXCEPT ![h] = shows[h]]
        /\ publishes[h] \subseteq config[h].forwards /\ shows[h] \in {Unset, PortsOf(config[h])}
    BY <1>1, <1>3, EngineHad
  <2>2. publishes[h] = {}
    BY <1>1 DEF IInv, Serving
  <2> QED BY <1>1, <1>3, <2>1, <2>2, EngineGoesOn
<1> QED BY <1>2, <1>3 DEF Run

-----------------------------------------------------------------------------
(* What every reachable state has in common                                    *)

(* No file, no printout, no engine.                                            *)
LEMMA InvInit == Init => IInv
<1> SUFFICES ASSUME Init PROVE IInv
  OBVIOUS
<1>1. \A h \in Roles : stage[h] = "off" /\ ~Loaded(h) /\ file[h] = Unset /\ config[h] = Unset
  BY DEF Init, Loaded
<1>2. TypeOK
  BY <1>1 DEF Init, TypeOK
<1>3. ConfigsAreLoaded /\ Serving
  BY <1>1 DEF Init, ConfigsAreLoaded, Serving
<1>4. PrintedIsFollowed
  BY DEF Init, PrintedIsFollowed
<1> QED BY <1>2, <1>3, <1>4 DEF IInv

(* Every step of the menu, of an operator and of an engine keeps it.           *)
LEMMA InvStep == IInv /\ [Next]_vars => IInv'
<1> SUFFICES ASSUME IInv, [Next]_vars PROVE IInv'
  OBVIOUS
<1>1. CASE createServer
  BY <1>1, CreateServerStep
<1>2. CASE createClient
  BY <1>2, CreateClientStep
<1>3. CASE createBackhaulServer
  BY <1>3, CreateBackhaulServerStep
<1>4. CASE createBackhaulClient
  BY <1>4, CreateBackhaulClientStep
<1>5. ASSUME NEW h \in Roles, Write(h) PROVE IInv'
  BY <1>5, WriteStep
<1>6. ASSUME NEW h \in Roles, Load(h) PROVE IInv'
  BY <1>6, LoadStep
<1>7. ASSUME NEW h \in Roles, PublishLoop(h) \/ Listen(h) \/ publish(h) \/ Run(h) PROVE IInv'
  BY <1>7, PublishLoopStep, ListenStep, PublishStep, RunStep
<1>8. CASE UNCHANGED vars
  BY <1>8 DEF vars, IInv, TypeOK, ConfigsAreLoaded, PrintedIsFollowed, Serving, Loaded
<1> QED BY <1>1, <1>2, <1>3, <1>4, <1>5, <1>6, <1>7, <1>8 DEF Next

(* An engine's config is its file with the defaults filled in and validated, a *)
(* client's file follows what was printed, and what an engine listens for and  *)
(* shows is what its config says, as far as it has come.                       *)
THEOREM Invariant == Spec => []IInv
BY InvInit, InvStep, PTL DEF Spec

(* Whatever the menu writes and whatever one value an operator changes, files, *)
(* configs, forwards and ports keep their types, and an engine that has loaded *)
(* is one with a config.                                                       *)
THEOREM TypeCorrect == Spec => []TypeOK
<1>1. IInv => TypeOK
  BY DEF IInv
<1> QED BY <1>1, Invariant, PTL

(* Load refuses a file or makes a config of it that every part of the engine   *)
(* can work with, whatever numbers the menu or an operator puts into it; only a *)
(* file that sets a mux size itself can ask for sessions smux refuses.         *)
THEOREM EnginesGetUsableConfigs == Spec => []LoadedIsUsable
<1>1. IInv => LoadedIsUsable
  <2> SUFFICES ASSUME IInv, NEW h \in Roles, Loaded(h)
               PROVE  LET c == config[h]
                          n == config[h].num
                      IN /\ Dispatched(c)
                         /\ MuxAccepts(n) \/ SetsMux(file[h])
                         /\ \A i \in {1, 2} : (Shards(c.transport, n)[i] > 0) <=> (c.transport = "kcp")
                         /\ n["size"] \in 1 .. 512 /\ 0 < n["minBackoff"] /\ n["minBackoff"] <= n["maxBackoff"]
    BY Zenon DEF LoadedIsUsable
  <2>1. stage[h] # "off"
    BY DEF Loaded
  <2>2. file[h] \in Configs /\ file[h].num \in [Numbers -> Int]
    <3>1. file[h] \in Configs
      BY <2>1 DEF IInv, TypeOK
    <3>2. \A c \in Configs : c.num \in [Numbers -> Int]
      BY DEF Configs
    <3> QED BY <3>1, <3>2
  <2>3. Validate(config[h]) /\ config[h] = applyDefaults(file[h])
    BY DEF IInv, ConfigsAreLoaded
  <2>4. config[h].num = NumberDefaults(file[h].num)
    <3>1. applyDefaults(file[h]).num = NumberDefaults(file[h].num)
      BY <2>2, Applied
    <3> QED BY <2>3, <3>1
  <2>5. Dispatched(config[h])
    BY <2>3, ValidIsDispatched
  <2>6. MuxAccepts(config[h].num) \/ SetsMux(file[h])
    BY <2>2, <2>4, SmuxTakes
  <2>7. \A i \in {1, 2} : (Shards(config[h].transport, config[h].num)[i] > 0) <=> (config[h].transport = "kcp")
    BY <2>2, <2>4, RatioMade
  <2>8. /\ config[h].num["size"] \in 1 .. 512 /\ 0 < config[h].num["minBackoff"]
        /\ config[h].num["minBackoff"] <= config[h].num["maxBackoff"]
    BY <2>2, <2>4, NumbersInRange
  <2> QED BY <2>5, <2>6, <2>7, <2>8
<1> QED BY <1>1, Invariant, PTL

(* What two menus wrote is numbers smux takes and datagrams of one size.       *)
LEMMA MenuNumbersAgree ==
  ASSUME NEW c \in Configs, MenuMade(c)
  PROVE  LET N == NumberDefaults(c.num) IN MuxAccepts(N) /\ N["muxVersion"] = 2 /\ N["kcpMTU"] = 1350
<1>1. c.num \in [Numbers -> Int]
  BY DEF Configs
<1>2. \A f \in LeftAlone : c.num[f] = 0
  BY DEF MenuMade, MenuNumbers
<1>3. ~SetsMux(c)
  BY <1>2, WordTyped DEF SetsMux, LeftAlone
<1>4. NumberDefaults(c.num)["muxVersion"] = 2
  <2>1. c.num["muxVersion"] = 0
    BY <1>2 DEF LeftAlone
  <2> QED BY <1>1, <2>1, NumbersInRange
<1>5. NumberDefaults(c.num)["kcpMTU"] = 1350
  <2>1. c.num["kcpMTU"] = 0 /\ "kcpMTU" \in DOMAIN Defaults \ {"size", "maxBackoff"}
    BY <1>2 DEF LeftAlone, Defaults
  <2>2. NumberDefaults(c.num)["kcpMTU"] = Defaults["kcpMTU"]
    BY <1>1, <2>1, NumbersInRange
  <2> QED BY <2>2 DEF Defaults
<1> QED BY <1>3, <1>4, <1>5, SmuxTakes

(* Two engines that run on what the menus of two hosts wrote can link, for     *)
(* every port and number typed but port 0 and two ratios.                      *)
THEOREM PairsMatch == Spec => []PairMatches
<1>1. IInv => PairMatches
  <2> DEFINE s == file["server"]
             c == file["client"]
             S == config["server"]
             C == config["client"]
  <2> SUFFICES ASSUME IInv, byMenu = Roles, \A h \in Roles : stage[h] = "running",
                      SameShards(s.num, c.num), s.family # "backhaul" => s.addr.port # 0
               PROVE  CanLink(S, C)
    BY DEF PairMatches
  <2>1. /\ "server" \in Roles /\ "client" \in Roles
        /\ Loaded("server") /\ Loaded("client")
    BY DEF Roles, Loaded
  <2>2. s \in Configs /\ c \in Configs
    BY <2>1 DEF IInv, TypeOK, PrintedIsFollowed
  <2>3. S = applyDefaults(s) /\ C = applyDefaults(c) /\ Validate(C)
    BY <2>1 DEF IInv, ConfigsAreLoaded
  <2>4. Counterpart(s, c)
    BY <2>1 DEF IInv, PrintedIsFollowed
  <2>5. MenuMade(s) /\ MenuMade(c)
    BY <2>1 DEF IInv, PrintedIsFollowed
  <2>6. IsServer(S) => Bindable(S.addr.port)
    BY <2>1 DEF IInv, Serving
  <2>7. C.family # "backhaul" => C.addr # Mess
    BY <2>3 DEF Validate, ValidBackpack
  <2> HIDE DEF s, c, S, C
  <2>8. /\ S.family = C.family /\ (S.family = "backhaul" <=> s.family = "backhaul")
        /\ s.family = c.family
    <3>1. s.family = c.family
      BY <2>4 DEF Counterpart
    <3>2. /\ S.family = IF s.family = "" THEN "backpack" ELSE s.family
          /\ C.family = IF c.family = "" THEN "backpack" ELSE c.family
      BY <2>2, <2>3, Applied
    <3> QED BY <3>1, <3>2
  <2>9. S.role = s.role /\ C.role = c.role /\ S.token = s.token /\ C.token = c.token
    BY <2>2, <2>3, Applied
  <2>10. S.role = "server" /\ C.role = "client" /\ S.token = C.token
    BY <2>4, <2>9 DEF Counterpart
  <2>11. S.num = NumberDefaults(s.num) /\ C.num = NumberDefaults(c.num)
    BY <2>2, <2>3, Applied
  <2>12. s.num \in [Numbers -> Int] /\ c.num \in [Numbers -> Int]
    BY <2>2 DEF Configs
  <2>13. CASE s.family = "backhaul"
    <3>1. /\ s.carrier = c.carrier /\ s.port = c.port /\ s.local = c.remote /\ s.remote = c.local
          /\ c.peer # ""
      BY <2>4, <2>13 DEF Counterpart
    <3>2. /\ S.carrier = IF s.carrier = "" THEN "icmp" ELSE s.carrier
          /\ C.carrier = IF c.carrier = "" THEN "icmp" ELSE c.carrier
      BY <2>2, <2>3, Applied
    <3>3. /\ S.port = s.port /\ S.local = s.local /\ S.remote = s.remote
          /\ C.port = c.port /\ C.local = c.local /\ C.remote = c.remote /\ C.peer = c.peer
      BY <2>2, <2>3, Applied
    <3>4. S.num["mtu"] = C.num["mtu"]
      <4>1. s.num["mtu"] = MenuMTU /\ c.num["mtu"] = MenuMTU
        BY <2>5, <2>8, <2>13 DEF MenuMade
      <4>2. "mtu" \in DOMAIN Defaults \ {"size", "maxBackoff"}
        BY DEF Defaults
      <4> QED BY <2>11, <2>12, <4>1, <4>2, NumbersInRange
    <3> QED BY <2>8, <2>10, <2>13, <3>1, <3>2, <3>3, <3>4 DEF CanLink
  <2>14. CASE s.family # "backhaul"
    <3>1. /\ s.transport = c.transport
          /\ c.addr = Mess \/ (s.addr.port = c.addr.port /\ c.addr.host \in {"ip4", "name"})
      BY <2>4, <2>14 DEF Counterpart
    <3>2. S.transport = s.transport /\ S.addr = s.addr /\ C.transport = c.transport /\ C.addr = c.addr
      BY <2>2, <2>3, Applied
    <3>3. /\ S.transport = C.transport /\ C.addr.port = S.addr.port /\ C.addr.host \in {"ip4", "name"}
      BY <2>7, <2>8, <2>14, <3>1, <3>2
    <3>4. Usable(S.addr.port)
      <4>1. Bindable(S.addr.port)
        BY <2>6, <2>8, <2>10, <2>14 DEF IsServer
      <4>2. S.addr.port # 0
        BY <2>14, <3>2 DEF s
      <4> QED BY <4>1, <4>2, WordTyped DEF Bindable, Usable
    <3>5. /\ MuxAccepts(S.num) /\ MuxAccepts(C.num) /\ S.num["muxVersion"] = C.num["muxVersion"]
          /\ S.num["kcpMTU"] = C.num["kcpMTU"]
      BY <2>2, <2>5, <2>11, MenuNumbersAgree
    <3>6. Shards(S.transport, S.num) = Shards(C.transport, C.num)
      <4>1. SameShards(s.num, c.num)
        BY DEF s, c
      <4> QED BY <2>11, <2>12, <3>3, <4>1, RatioMade
    <3> QED BY <2>8, <2>10, <2>14, <3>3, <3>4, <3>5, <3>6 DEF CanLink
  <2> QED BY <2>13, <2>14 DEF S, C
<1> QED BY <1>1, Invariant, PTL

(* No server listens on a port its state file does not list, and one that       *)
(* serves listens for every forward of its config and its file lists those       *)
(* ports and no other, for every set of forwards; the port the system picks for  *)
(* a forward on port 0 is not listed.                                            *)
THEOREM PanelShowsWhatIsPublished == Spec => []ShowsWhatItPublishes
<1>1. IInv => ShowsWhatItPublishes
  <2> SUFFICES ASSUME IInv, NEW h \in Roles, Loaded(h), config[h].family # "backhaul"
               PROVE  LET ports == {ListenPort(e) : e \in publishes[h]} \ {0} IN
                      /\ shows[h] # Unset => ports \subseteq shows[h]
                      /\ stage[h] = "running" =>
                           /\ shows[h] \in {ports, Unset}
                           /\ IsServer(config[h]) => publishes[h] = config[h].forwards
    BY DEF ShowsWhatItPublishes
  <2> DEFINE ports == {ListenPort(e) : e \in publishes[h]} \ {0}
             all   == {ListenPort(e) : e \in config[h].forwards} \ {0}
  <2>1. Validate(config[h])
    BY DEF IInv, ConfigsAreLoaded
  <2>2. shows[h] \in {Unset, PortsOf(config[h])} /\ publishes[h] \subseteq config[h].forwards
    BY DEF IInv, Serving
  <2>3. /\ ~IsServer(config[h]) => publishes[h] = {}
        /\ stage[h] = "running" => publishes[h] = IF IsServer(config[h]) THEN config[h].forwards ELSE {}
    BY DEF IInv, Serving, Loaded
  <2>4. CASE IsServer(config[h])
    <3>1. PortsOf(config[h]) = all
      BY <2>4 DEF PortsOf, IsServer
    <3>2. ports \subseteq all /\ (publishes[h] = config[h].forwards => ports = all)
      BY <2>2
    <3> HIDE DEF ports, all
    <3> QED BY <2>2, <2>3, <2>4, <3>1, <3>2 DEF ports
  <2>5. CASE ~IsServer(config[h])
    <3>1. config[h].role = "client"
      BY <2>1, <2>5 DEF Validate, ValidBackpack, Roles, IsServer
    <3>2. PortsOf(config[h]) = {}
      BY <3>1 DEF PortsOf
    <3>3. ports = {}
      BY <2>3, <2>5
    <3> QED BY <2>2, <2>5, <3>2, <3>3
  <2> QED BY <2>4, <2>5
<1> QED BY <1>1, Invariant, PTL
=============================================================================
