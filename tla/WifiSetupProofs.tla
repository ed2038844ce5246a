--------------------------- MODULE WifiSetupProofs ---------------------------
(***************************************************************************)
(* Proofs about WifiSetup, for any number of retries, forms at a time and  *)
(* power cycles: one web server at most, reachable while its bit is set,   *)
(* answers that are about their own attempt, a flag that tells the truth.  *)
(***************************************************************************)
EXTENDS WifiSetup, SequenceTheorems, TLAPS

USE BoundsAssumption DEF driverVars, serverVars, powerVars

-----------------------------------------------------------------------------
(* The inductive invariant *)

Portal == "SERVER_UP" \in bits
Disc   == "disconnected"
Got    == "gotIp"

\* The station and the events that tell of it: an attempt posts one event, and
\* only a link that came up can be lost before the first is handled.
Pipeline ==
  \/ events = <<>> /\ connected = (station = "joined")
  \/ events = <<Disc>> /\ station = "idle"
  \/ events = <<Got>> /\ station = "joined"
  \/ events = <<Got, Disc>> /\ station = "idle"

\* The server, its bit and the driver's mode.
Servers ==
  /\ httpd = "post" => round # 0
  /\ servers = IF httpd = "none" THEN 0 ELSE 1
  /\ httpd # "none" => Portal
  /\ Portal /\ httpd = "none" => "httpd_start" \in failed
  /\ (mode # "sta") = Portal

\* A form that came while the server is being closed: nothing moves any more
\* but the station.
Overlap ==
  overlapped =>
    /\ eventTask = "closing" /\ httpd \in {"login", "waiting"}
    /\ httpd = "waiting" => bits \cap {"CONNECTED", "FAIL"} = {}
    /\ events = <<>> => station = "joined"

\* Between forms the station of an open portal rests, and the bits a request
\* waits for say how its own attempt ended.
Tasks ==
  ~overlapped =>
    /\ Pipeline
    /\ Portal /\ eventTask = "idle" /\ httpd \in {"none", "select", "post", "login", "notOk"} =>
         station = "idle" /\ events = <<>>
    /\ eventTask = "syncing" => httpd \in {"waiting", "ok"} /\ outcome = "joined"
    /\ eventTask = "closing" => httpd \in {"select", "post"}
    /\ httpd = "login" => eventTask = "idle"
    /\ httpd = "ok" => eventTask = "syncing"
    /\ httpd = "notOk" => eventTask = "idle" /\ outcome = "failed"
    /\ httpd = "waiting" /\ "CONNECTED" \in bits => eventTask = "syncing"
    /\ httpd = "waiting" /\ "FAIL" \in bits =>
         eventTask = "idle" /\ station = "idle" /\ events = <<>> /\ outcome = "failed"
    /\ httpd \in {"login", "waiting"} => "RESP_SENT" \notin bits

\* The event task waits only for a station that joined.
Busy == eventTask # "idle" => connected

WifiInv == TypeOK /\ Servers /\ Overlap /\ Tasks /\ Busy

-----------------------------------------------------------------------------
(* The queue of events *)

LEMMA Queues ==
  /\ <<Disc>> # <<>> /\ <<Got>> # <<>> /\ <<Got, Disc>> # <<>>
  /\ <<Disc>> # <<Got>> /\ <<Got, Disc>> # <<Got>> /\ <<Got, Disc>> # <<Disc>>
  /\ Head(<<Disc>>) = Disc /\ Head(<<Got>>) = Got /\ Head(<<Got, Disc>>) = Got
  /\ Tail(<<Disc>>) = <<>> /\ Tail(<<Got>>) = <<>> /\ Tail(<<Got, Disc>>) = <<Disc>>
  /\ Append(<<>>, Disc) = <<Disc>> /\ Append(<<>>, Got) = <<Got>>
  /\ Append(<<Got>>, Disc) = <<Got, Disc>>
<1> DEFINE D == <<Disc>>  G == <<Got>>  GD == <<Got, Disc>>
<1>1. D # <<>> /\ G # <<>> /\ GD # <<>> OBVIOUS
<1>2. D[1] = Disc /\ G[1] = Got /\ Len(D) = 1 /\ Len(G) = 1 /\ Len(GD) = 2 OBVIOUS
<1>3. D # G /\ GD # G /\ GD # D BY <1>2 DEF Disc, Got
<1>4. Head(D) = Disc /\ Head(G) = Got /\ Head(GD) = Got OBVIOUS
<1>5. Tail(D) = <<>> /\ Tail(G) = <<>> OBVIOUS
<1>6. Tail(GD) = D OBVIOUS
<1>7. Append(<<>>, Disc) = D /\ Append(<<>>, Got) = G OBVIOUS
<1>8. Append(G, Disc) = GD
  <2>1. G \in Seq({Disc, Got}) /\ GD \in Seq({Disc, Got}) /\ Len(GD) = Len(G) + 1 OBVIOUS
  <2>2. GD[1] = G[1] /\ GD[2] = Disc OBVIOUS
  <2>3. Append(G, Disc) \in Seq({Disc, Got}) /\ Len(Append(G, Disc)) = 2
        /\ Append(G, Disc)[1] = G[1] /\ Append(G, Disc)[2] = Disc
    BY <1>2, <2>1, AppendProperties
  <2> HIDE DEF G, GD
  <2> QED BY <1>2, <2>1, <2>2, <2>3, SeqEqual
<1> QED BY <1>1, <1>3, <1>4, <1>5, <1>6, <1>7, <1>8

LEMMA QueueTypes ==
  ASSUME NEW q \in Seq(Events)
  PROVE  /\ \A e \in Events : Append(q, e) \in Seq(Events) /\ Append(q, e) # <<>>
         /\ q # <<>> => Tail(q) \in Seq(Events)
BY AppendProperties, HeadTailProperties

LEMMA EmptyQueue == <<>> \in Seq(Events)
BY EmptySeq

\* An event is handled only while nothing overlaps, and leaves what Pipeline says.
LEMMA HandlesDisc ==
  ASSUME WifiInv, Handles("disconnected")
  PROVE  /\ ~overlapped /\ eventTask = "idle"
         /\ events = <<Disc>> /\ station = "idle" /\ events' = <<>>
BY Queues DEF WifiInv, Overlap, Tasks, Pipeline, Handles, Disc, Got

LEMMA HandlesGot ==
  ASSUME WifiInv, Handles("gotIp")
  PROVE  /\ ~overlapped /\ eventTask = "idle"
         /\ \/ events = <<Got>> /\ station = "joined" /\ events' = <<>>
            \/ events = <<Got, Disc>> /\ station = "idle" /\ events' = <<Disc>>
BY Queues DEF WifiInv, Overlap, Tasks, Pipeline, Handles, Disc, Got

\* With an open portal only a request's own attempt has events.
LEMMA PortalWaits ==
  ASSUME WifiInv, eventTask = "idle", ~overlapped, events # <<>>, Portal
  PROVE  httpd = "waiting" /\ "CONNECTED" \notin bits /\ "FAIL" \notin bits
         /\ "RESP_SENT" \notin bits
BY DEF WifiInv, TypeOK, Tasks

-----------------------------------------------------------------------------
LEMMA WifiInit == Init => WifiInv
<1> SUFFICES ASSUME Init PROVE WifiInv OBVIOUS
<1>1. PICK b \in Boots :
        /\ bits = b.bits /\ mode = b.mode /\ station = b.station
        /\ httpd = b.httpd /\ servers = b.servers /\ failed = b.failed
  BY DEF Init
<1>2. /\ bits \in {{}, {"SERVER_UP"}} /\ station \in {"idle", "joining"}
      /\ bits = {} => mode = "sta" /\ httpd = "none" /\ servers = 0
      /\ bits # {} => /\ mode = "ap" /\ station = "idle"
                      /\ \/ httpd = "select" /\ servers = 1
                         \/ httpd = "none" /\ servers = 0 /\ "httpd_start" \in failed
      /\ failed \subseteq Calls
  BY <1>1 DEF Boots, Calls
<1>3. TypeOK
  <2>1. bits \subseteq Bits /\ failed \subseteq Calls BY <1>2 DEF Bits
  <2>2. retryNum \in 0 .. MaxRetry /\ round \in 0 .. MaxRound /\ reboots \in 0 .. MaxReboots
    BY DEF Init
  <2>3. servers \in Nat /\ mode \in {"ap", "sta", "apsta"}
        /\ httpd \in {"none", "select", "post", "login", "waiting", "ok", "notOk"}
    BY <1>2
  <2> QED BY <1>2, <2>1, <2>2, <2>3, EmptyQueue DEF Init, TypeOK
<1>4. Servers BY <1>2 DEF Servers, Portal
<1>5. Overlap /\ Busy BY DEF Init, Overlap, Busy
<1>6. Tasks BY <1>2 DEF Init, Tasks, Pipeline, Portal
<1> QED BY <1>3, <1>4, <1>5, <1>6 DEF WifiInv

LEMMA RestartInv == ASSUME WifiInv, Restart PROVE WifiInv'
<1>1. PICK b \in Boots :
        /\ bits' = b.bits /\ mode' = b.mode /\ station' = b.station
        /\ httpd' = b.httpd /\ servers' = b.servers /\ failed' = b.failed
  BY DEF Restart
<1>2. /\ bits' \in {{}, {"SERVER_UP"}} /\ station' \in {"idle", "joining"}
      /\ bits' = {} => mode' = "sta" /\ httpd' = "none" /\ servers' = 0
      /\ bits' # {} => /\ mode' = "ap" /\ station' = "idle"
                       /\ \/ httpd' = "select" /\ servers' = 1
                          \/ httpd' = "none" /\ servers' = 0 /\ "httpd_start" \in failed'
      /\ failed' \subseteq Calls
  BY <1>1 DEF Boots, Calls
<1>3. TypeOK'
  <2>1. bits' \subseteq Bits /\ failed' \subseteq Calls BY <1>2 DEF Bits
  <2>2. retryNum' \in 0 .. MaxRetry /\ round' \in 0 .. MaxRound /\ reboots' \in 0 .. MaxReboots
    BY DEF Restart, WifiInv, TypeOK
  <2>3. servers' \in Nat /\ mode' \in {"ap", "sta", "apsta"}
        /\ httpd' \in {"none", "select", "post", "login", "waiting", "ok", "notOk"}
    BY <1>2
  <2> QED BY <1>2, <2>1, <2>2, <2>3, EmptyQueue DEF Restart, WifiInv, TypeOK
<1>4. Servers' BY <1>2 DEF Servers, Portal
<1>5. Overlap' /\ Busy' BY DEF Restart, Overlap, Busy
<1>6. Tasks' BY <1>2 DEF Restart, Tasks, Pipeline, Portal
<1> QED BY <1>3, <1>4, <1>5, <1>6 DEF WifiInv

-----------------------------------------------------------------------------
(* The driver and the network *)

LEMMA AssociatesInv == ASSUME WifiInv, Associates PROVE WifiInv'
<1>1. TypeOK' BY DEF WifiInv, TypeOK, Associates
<1>2. Servers' /\ Busy' BY DEF WifiInv, Servers, Busy, Portal, Associates
<1>3. Overlap' BY DEF WifiInv, Overlap, Associates
<1>4. Tasks'
  <2>1. CASE overlapped BY <2>1 DEF Tasks, Associates
  <2>2. CASE ~overlapped
    <3>1. Pipeline' BY <2>2 DEF WifiInv, Tasks, Pipeline, Associates
    <3> QED BY <2>2, <3>1 DEF WifiInv, Tasks, Portal, Associates
  <2> QED BY <2>1, <2>2
<1> QED BY <1>1, <1>2, <1>3, <1>4 DEF WifiInv

LEMMA JoinsInv == ASSUME WifiInv, Joins PROVE WifiInv'
<1>1. TypeOK'
  <2>1. events' \in Seq(Events) BY QueueTypes DEF WifiInv, TypeOK, Joins, Posts, Events
  <2> QED BY <2>1 DEF WifiInv, TypeOK, Joins, Posts
<1>2. Servers' /\ Busy' BY DEF WifiInv, Servers, Busy, Portal, Joins, Posts
<1>3. Overlap' BY DEF WifiInv, Overlap, Joins, Posts
<1>4. Tasks'
  <2>1. CASE overlapped BY <2>1 DEF Tasks, Joins, Posts
  <2>2. CASE ~overlapped
    <3>1. events = <<>> /\ events' = <<Got>> /\ ~connected
      BY <2>2, Queues DEF WifiInv, TypeOK, Tasks, Pipeline, Joins, Posts, Got
    <3>2. eventTask = "idle" BY <3>1 DEF WifiInv, TypeOK, Busy
    <3>3. Pipeline' BY <3>1 DEF Joins, Posts, Pipeline
    <3> QED BY <2>2, <3>1, <3>2, <3>3 DEF WifiInv, Tasks, Portal, Joins, Posts
  <2> QED BY <2>1, <2>2
<1> QED BY <1>1, <1>2, <1>3, <1>4 DEF WifiInv

LEMMA FailsJoinInv == ASSUME WifiInv, FailsJoin PROVE WifiInv'
<1>1. TypeOK'
  <2>1. events' \in Seq(Events) BY QueueTypes DEF WifiInv, TypeOK, FailsJoin, Posts, Events
  <2> QED BY <2>1 DEF WifiInv, TypeOK, FailsJoin, Posts
<1>2. Servers' /\ Busy' BY DEF WifiInv, Servers, Busy, Portal, FailsJoin, Posts
<1>3. Overlap'
  <2>1. events' # <<>> BY QueueTypes DEF WifiInv, TypeOK, FailsJoin, Posts, Events
  <2> QED BY <2>1 DEF WifiInv, Overlap, FailsJoin, Posts
<1>4. Tasks'
  <2>1. CASE overlapped BY <2>1 DEF Tasks, FailsJoin, Posts
  <2>2. CASE ~overlapped
    <3>1. events = <<>> /\ events' = <<Disc>> /\ ~connected
      BY <2>2, Queues DEF WifiInv, TypeOK, Tasks, Pipeline, FailsJoin, Posts, Disc
    <3>2. eventTask = "idle" BY <3>1 DEF WifiInv, TypeOK, Busy
    <3>3. Pipeline' BY <3>1 DEF FailsJoin, Posts, Pipeline
    <3> QED BY <2>2, <3>1, <3>2, <3>3 DEF WifiInv, Tasks, Portal, FailsJoin, Posts
  <2> QED BY <2>1, <2>2
<1> QED BY <1>1, <1>2, <1>3, <1>4 DEF WifiInv

LEMMA LosesLinkInv == ASSUME WifiInv, LosesLink PROVE WifiInv'
<1>1. TypeOK'
  <2>1. events' \in Seq(Events) BY QueueTypes DEF WifiInv, TypeOK, LosesLink, Posts, Events
  <2> QED BY <2>1 DEF WifiInv, TypeOK, LosesLink, Posts
<1>2. Servers' /\ Busy' BY DEF WifiInv, Servers, Busy, Portal, LosesLink, Posts
<1>3. Overlap'
  <2>1. events' # <<>> BY QueueTypes DEF WifiInv, TypeOK, LosesLink, Posts, Events
  <2> QED BY <2>1 DEF WifiInv, Overlap, LosesLink, Posts
<1>4. Tasks'
  <2>1. CASE overlapped BY <2>1 DEF Tasks, LosesLink, Posts
  <2>2. CASE ~overlapped
    <3>1. \/ events = <<>> /\ events' = <<Disc>>
          \/ events = <<Got>> /\ events' = <<Got, Disc>>
      BY <2>2, Queues DEF WifiInv, TypeOK, Tasks, Pipeline, LosesLink, Posts, Disc
    <3>2. Pipeline' BY <3>1 DEF LosesLink, Posts, Pipeline
    <3> QED BY <2>2, <3>2 DEF WifiInv, Tasks, Portal, LosesLink, Posts
  <2> QED BY <2>1, <2>2
<1> QED BY <1>1, <1>2, <1>3, <1>4 DEF WifiInv

-----------------------------------------------------------------------------
(* The event-loop task *)

LEMMA RetryConnectInv == ASSUME WifiInv, RetryConnect PROVE WifiInv'
<1>1. /\ ~overlapped /\ eventTask = "idle"
      /\ events = <<Disc>> /\ station = "idle" /\ events' = <<>>
  BY HandlesDisc DEF RetryConnect
<1>2. /\ station' \in {"idle", "joining"} /\ failed' \subseteq Calls
      /\ "httpd_start" \in failed => "httpd_start" \in failed'
  BY <1>1 DEF RetryConnect, Connect, WifiInv, TypeOK, Calls
<1>3. TypeOK'
  <2>1. retryNum' \in 0 .. MaxRetry BY DEF RetryConnect, TriesLeft, WifiInv, TypeOK
  <2> QED BY <1>1, <1>2, <2>1, EmptyQueue DEF RetryConnect, WifiInv, TypeOK
<1>4. Servers' BY <1>2 DEF RetryConnect, WifiInv, Servers, Portal
<1>5. Overlap' /\ Busy' BY <1>1 DEF RetryConnect, Overlap, Busy
<1>6. Tasks'
  <2>1. Pipeline' BY <1>1, <1>2 DEF RetryConnect, Pipeline
  <2>2. Portal => httpd = "waiting" /\ "CONNECTED" \notin bits /\ "FAIL" \notin bits
                  /\ "RESP_SENT" \notin bits
    BY <1>1, Queues, PortalWaits
  <2> QED BY <1>1, <2>1, <2>2 DEF RetryConnect, WifiInv, Servers, Tasks, Portal
<1> QED BY <1>3, <1>4, <1>5, <1>6 DEF WifiInv

LEMMA GiveUpConnectInv == ASSUME WifiInv, GiveUpConnect PROVE WifiInv'
<1>1. /\ ~overlapped /\ eventTask = "idle"
      /\ events = <<Disc>> /\ station = "idle" /\ events' = <<>>
  BY HandlesDisc DEF GiveUpConnect
<1>2. Portal => httpd = "waiting" /\ bits = {"SERVER_UP"}
  BY <1>1, Queues, PortalWaits DEF Portal, WifiInv, TypeOK, Bits
<1>3. ~Portal => httpd = "none" /\ servers = 0 BY DEF WifiInv, Servers
<1>4. CASE Portal
  <2>1. /\ bits' = {"SERVER_UP", "FAIL"}
        /\ UNCHANGED <<mode, station, serverVars, failed>>
    BY <1>2, <1>4 DEF GiveUpConnect, OpensPortal
  <2>2. TypeOK' BY <1>1, <2>1, EmptyQueue DEF GiveUpConnect, WifiInv, TypeOK, Bits
  <2>3. Servers' BY <1>4, <2>1 DEF WifiInv, Servers, Portal
  <2>4. Overlap' /\ Busy' BY <1>1 DEF GiveUpConnect, Overlap, Busy
  <2>5. Tasks' BY <1>1, <1>2, <1>4, <2>1 DEF GiveUpConnect, Tasks, Pipeline, Portal, WifiInv
  <2> QED BY <2>2, <2>3, <2>4, <2>5 DEF WifiInv
<1>5. CASE ~Portal
  <2>1. /\ mode' = "ap" /\ station' = "idle" /\ StartServer
        /\ bits' = (bits \ {"CONNECTED"}) \cup {"SERVER_UP", "FAIL"}
    BY <1>5 DEF GiveUpConnect, OpensPortal, Portal
  <2>2. /\ \/ servers' = 1 /\ httpd' = "select" /\ round' = 0 /\ UNCHANGED failed
           \/ servers' = 0 /\ httpd' = "none" /\ round' = round /\ "httpd_start" \in failed'
      /\ failed' \subseteq Calls
    <3>1. servers + 1 = 1 /\ failed \cup {"httpd_start"} \subseteq Calls
      BY <1>3, <1>5 DEF WifiInv, TypeOK, Calls
    <3>2. failed \subseteq Calls BY DEF WifiInv, TypeOK
    <3> QED BY <1>3, <1>5, <2>1, <3>1, <3>2 DEF StartServer
  <2>3. TypeOK'
    <3>1. bits' \subseteq Bits BY <2>1 DEF WifiInv, TypeOK, Bits
    <3>2. servers' \in Nat /\ round' \in 0 .. MaxRound BY <2>2 DEF WifiInv, TypeOK
    <3> QED BY <1>1, <2>1, <2>2, <3>1, <3>2, EmptyQueue DEF GiveUpConnect, WifiInv, TypeOK
  <2>4. Servers' BY <2>1, <2>2 DEF Servers, Portal
  <2>5. Overlap' /\ Busy' BY <1>1 DEF GiveUpConnect, Overlap, Busy
  <2>6. Tasks' BY <1>1, <2>1, <2>2 DEF GiveUpConnect, Tasks, Pipeline, Portal
  <2> QED BY <2>3, <2>4, <2>5, <2>6 DEF WifiInv
<1> QED BY <1>4, <1>5

\* What both ways to handle an address share.
LEMMA GotPipeline ==
  ASSUME WifiInv, Handles("gotIp"), connected' = TRUE, UNCHANGED station
  PROVE  Pipeline' /\ events' \in Seq(Events)
<1>1. /\ ~overlapped
      /\ \/ events = <<Got>> /\ station = "joined" /\ events' = <<>>
         \/ events = <<Got, Disc>> /\ station = "idle" /\ events' = <<Disc>>
  BY HandlesGot
<1>2. Pipeline' BY <1>1 DEF Pipeline
<1>3. events' \in Seq(Events) BY QueueTypes DEF Handles, WifiInv, TypeOK
<1> QED BY <1>2, <1>3

LEMMA GotIpInv == ASSUME WifiInv, GotIp PROVE WifiInv'
<1>1. ~overlapped /\ eventTask = "idle" /\ Pipeline' /\ events' \in Seq(Events)
  BY HandlesGot, GotPipeline DEF GotIp
<1>2. TypeOK' BY <1>1 DEF GotIp, WifiInv, TypeOK
<1>3. httpd = "none" BY DEF GotIp, WifiInv, Servers, Portal
<1>4. Servers' BY DEF GotIp, WifiInv, Servers, Portal
<1>5. Overlap' /\ Busy' BY <1>1 DEF GotIp, Overlap, Busy
<1>6. Tasks' BY <1>1, <1>3 DEF GotIp, Tasks, Portal
<1> QED BY <1>2, <1>4, <1>5, <1>6 DEF WifiInv

LEMMA GotIpInPortalInv == ASSUME WifiInv, GotIpInPortal PROVE WifiInv'
<1>1. ~overlapped /\ eventTask = "idle" /\ Pipeline' /\ events' \in Seq(Events)
  BY HandlesGot, GotPipeline DEF GotIpInPortal
<1>2. httpd = "waiting" /\ "FAIL" \notin bits /\ "RESP_SENT" \notin bits
  BY <1>1, PortalWaits DEF GotIpInPortal, Handles, Portal
<1>3. bits' = bits \cup {"CONNECTED"} /\ eventTask' = "syncing"
  BY <1>2 DEF GotIpInPortal, Told
<1>4. TypeOK' BY <1>1, <1>3 DEF GotIpInPortal, WifiInv, TypeOK, Bits
<1>5. Servers' BY <1>3 DEF GotIpInPortal, WifiInv, Servers, Portal
<1>6. Overlap' /\ Busy' BY <1>1 DEF GotIpInPortal, Overlap, Busy
<1>7. Tasks' BY <1>1, <1>2, <1>3 DEF GotIpInPortal, Tasks, Portal
<1> QED BY <1>4, <1>5, <1>6, <1>7 DEF WifiInv

LEMMA CloseServerInv == ASSUME WifiInv, CloseServer PROVE WifiInv'
<1>1. ~overlapped BY DEF CloseServer, WifiInv, Overlap
<1>2. servers = 1 /\ servers' = 0 BY DEF CloseServer, WifiInv, Servers
<1>3. TypeOK' BY <1>2 DEF CloseServer, WifiInv, TypeOK
<1>4. Servers' BY <1>2 DEF CloseServer, Servers, Portal
<1>5. Overlap' /\ Busy' BY <1>1 DEF CloseServer, Overlap, Busy
<1>6. Tasks'
  <2>1. Pipeline' BY <1>1 DEF CloseServer, WifiInv, Tasks, Pipeline
  <2> QED BY <2>1 DEF CloseServer, Tasks, Portal
<1> QED BY <1>3, <1>4, <1>5, <1>6 DEF WifiInv

-----------------------------------------------------------------------------
(* The web server's task *)

LEMMA FormsArriveInv == ASSUME WifiInv, FormsArrive PROVE WifiInv'
<1>1. ~overlapped BY DEF FormsArrive, WifiInv, Overlap
<1>2. TypeOK' BY DEF FormsArrive, WifiInv, TypeOK
<1>3. Servers' /\ Busy' BY DEF FormsArrive, WifiInv, Servers, Portal, Busy
<1>4. Overlap' BY <1>1 DEF FormsArrive, Overlap
<1>5. Tasks' BY <1>1 DEF FormsArrive, WifiInv, Tasks, Pipeline, Portal
<1> QED BY <1>2, <1>3, <1>4, <1>5 DEF WifiInv

LEMMA LoginStartInv == ASSUME WifiInv, LoginStart PROVE WifiInv'
<1>1. httpd = "post" /\ ~overlapped /\ Portal BY DEF LoginStart, WifiInv, Overlap, Servers
<1>2. eventTask \in {"idle", "closing"} BY <1>1 DEF WifiInv, TypeOK, Tasks
<1>3. TypeOK'
  <2>1. round' \in 0 .. MaxRound BY <1>1 DEF LoginStart, WifiInv, TypeOK, Servers
  <2> QED BY <2>1 DEF LoginStart, ResponseUnsent, WifiInv, TypeOK
<1>4. Servers' /\ Busy'
  BY DEF LoginStart, ResponseUnsent, WifiInv, Servers, Portal, Busy
<1>5. Overlap'
  BY <1>1, Queues DEF LoginStart, WifiInv, Overlap, Tasks, Pipeline, Busy
<1>6. Tasks'
  BY <1>1, <1>2 DEF LoginStart, ResponseUnsent, WifiInv, Tasks, Pipeline, Portal
<1> QED BY <1>3, <1>4, <1>5, <1>6 DEF WifiInv

LEMMA InitWifiStaInv == ASSUME WifiInv, InitWifiSta PROVE WifiInv'
<1>1. Portal BY DEF InitWifiSta, WifiInv, Servers
<1>2. /\ (station' = "joining" /\ station = "idle") \/ station' = station
      /\ failed' \subseteq Calls
      /\ "httpd_start" \in failed => "httpd_start" \in failed'
  BY DEF InitWifiSta, Connect, WifiInv, TypeOK, Calls
<1>3. TypeOK' BY <1>2 DEF InitWifiSta, BitsCleared, WifiInv, TypeOK
<1>4. Servers' /\ Busy'
  BY <1>1, <1>2 DEF InitWifiSta, BitsCleared, WifiInv, Servers, Portal, Busy
<1>5. Overlap' BY <1>2 DEF InitWifiSta, BitsCleared, WifiInv, Overlap
<1>6. Tasks'
  <2>1. CASE overlapped BY <2>1 DEF InitWifiSta, Tasks
  <2>2. CASE ~overlapped
    <3>1. eventTask = "idle" /\ station = "idle" /\ events = <<>> /\ connected = FALSE
      BY <1>1, <2>2, Queues DEF InitWifiSta, WifiInv, TypeOK, Tasks, Pipeline
    <3>2. Pipeline' BY <1>2, <3>1 DEF InitWifiSta, Pipeline
    <3> QED BY <2>2, <3>1, <3>2 DEF InitWifiSta, BitsCleared, WifiInv, Tasks
  <2> QED BY <2>1, <2>2
<1> QED BY <1>3, <1>4, <1>5, <1>6 DEF WifiInv

LEMMA LoginWakesInv == ASSUME WifiInv, LoginWakes PROVE WifiInv'
<1>1. ~overlapped BY DEF LoginWakes, WifiInv, Overlap
<1>2. TypeOK' BY DEF LoginWakes, WifiInv, TypeOK
<1>3. Servers' /\ Busy' BY DEF LoginWakes, WifiInv, Servers, Portal, Busy
<1>4. Overlap' BY <1>1 DEF LoginWakes, Overlap
<1>5. Pipeline' BY <1>1 DEF LoginWakes, WifiInv, Tasks, Pipeline
<1>6. Tasks' BY <1>1, <1>5 DEF LoginWakes, WifiInv, Tasks, Portal
<1> QED BY <1>2, <1>3, <1>4, <1>6 DEF WifiInv

LEMMA LoginRepliesInv == ASSUME WifiInv, LoginReplies PROVE WifiInv'
<1>1. ~overlapped /\ Portal BY DEF LoginReplies, WifiInv, Overlap, Servers
<1>2. \/ httpd = "ok" /\ eventTask = "syncing" /\ eventTask' = "closing" /\ bits' = bits
      \/ httpd = "notOk" /\ eventTask = "idle" /\ eventTask' = "idle"
         /\ bits' = bits \cup {"RESP_SENT"}
  BY <1>1 DEF LoginReplies, WifiInv, Tasks
<1>3. TypeOK' BY <1>2 DEF LoginReplies, WifiInv, TypeOK, Bits
<1>4. Servers' BY <1>1, <1>2 DEF LoginReplies, WifiInv, Servers, Portal
<1>5. Overlap' /\ Busy' BY <1>1, <1>2 DEF LoginReplies, WifiInv, Overlap, Busy
<1>6. Pipeline' BY <1>1 DEF LoginReplies, WifiInv, Tasks, Pipeline
<1>7. Tasks' BY <1>1, <1>2, <1>6 DEF LoginReplies, WifiInv, Tasks, Portal
<1> QED BY <1>3, <1>4, <1>5, <1>7 DEF WifiInv

-----------------------------------------------------------------------------
LEMMA WifiStep == WifiInv /\ [Next]_vars => WifiInv'
<1> SUFFICES ASSUME WifiInv, [Next]_vars PROVE WifiInv' OBVIOUS
<1>1. CASE EventHandler
  BY <1>1, RetryConnectInv, GiveUpConnectInv, GotIpInv, GotIpInPortalInv, CloseServerInv
  DEF EventHandler
<1>2. CASE LoginHandler
  BY <1>2, LoginStartInv, InitWifiStaInv, LoginWakesInv, LoginRepliesInv DEF LoginHandler
<1>3. CASE Driver BY <1>3, AssociatesInv, FailsJoinInv DEF Driver
<1>4. CASE Network \/ FormsArrive \/ Restart
  BY <1>4, JoinsInv, LosesLinkInv, FormsArriveInv, RestartInv DEF Network
<1>5. CASE UNCHANGED vars
  BY <1>5 DEF vars, WifiInv, TypeOK, Servers, Overlap, Tasks, Pipeline, Portal, Busy
<1> QED BY <1>1, <1>2, <1>3, <1>4, <1>5 DEF Next

LEMMA WifiCorrect == Spec => []WifiInv
BY WifiInit, WifiStep, PTL DEF Spec

-----------------------------------------------------------------------------
(* Theorems *)

\* Every variable keeps its type: no more servers are stopped than were started,
\* and no more forms served than arrived.
THEOREM WifiTypeCorrect == Spec => []TypeOK
<1>1. WifiInv => TypeOK BY DEF WifiInv
<1> QED BY <1>1, WifiCorrect, PTL

\* start_server never runs beside a running server, whatever bits are set when
\* wifi_event_handler compares them with SERVER_UP alone.
THEOREM NeverTwoServers == Spec => []OneServer
<1>1. WifiInv => OneServer BY DEF WifiInv, Servers, OneServer
<1> QED BY <1>1, WifiCorrect, PTL

\* The server runs and its access point is up exactly while SERVER_UP is set.
THEOREM ServerBitIsTrue == Spec => []PortalReachable
<1>1. WifiInv => PortalReachable BY DEF WifiInv, Servers, Portal, PortalReachable
<1> QED BY <1>1, WifiCorrect, PTL

\* login_post_handler answers for the attempt its own form started.
THEOREM AnswersAreOwn == Spec => []AnswerIsOwn
<1>1. WifiInv => AnswerIsOwn BY DEF WifiInv, Overlap, Tasks, AnswerIsOwn
<1> QED BY <1>1, WifiCorrect, PTL

\* is_wifi_connected() is the station's state once the events are handled.
THEOREM FlagIsFresh == Spec => []ConnectedIsFresh
<1>1. WifiInv => ConnectedIsFresh
  BY Queues DEF WifiInv, TypeOK, Overlap, Tasks, Pipeline, Busy, ConnectedIsFresh
<1> QED BY <1>1, WifiCorrect, PTL
=============================================================================
