----------------------------- MODULE WifiSetup -----------------------------
(***************************************************************************)
(* wifi_setup.c: the device joins the access point stored in flash, or     *)
(* opens an access point of its own with a web form (the portal) and joins *)
(* what the user submits.  Two tasks meet in one event group:              *)
(*                                                                         *)
(*   the event-loop task runs wifi_event_handler, one event at a time      *)
(*   the web server's task runs login_post_handler, one request at a time  *)
(*                                                                         *)
(* Each waits for bits only the other sets.  The WiFi driver (the station, *)
(* its events, the mode) and the web server are external and modelled as   *)
(* far as wifi_setup.c uses them.                                          *)
(*                                                                         *)
(* outcome, overlapped and failed are history: no step of the program      *)
(* reads them.                                                             *)
(***************************************************************************)
EXTENDS Naturals, Sequences

CONSTANTS
  MaxRetry,   \* CONFIG_ESP_MAXIMUM_RETRY
  MaxRound,   \* forms one select of the web server may return (max_open_sockets)
  MaxReboots  \* bound: power cycles

ASSUME BoundsAssumption ==
  MaxRetry \in Nat /\ MaxRound \in Nat \ {0} /\ MaxReboots \in Nat

VARIABLES
  bits,        \* s_wifi_event_group
  retryNum,    \* s_retry_num
  connected,   \* connected, what is_wifi_connected() answers
  mode,        \* the driver's mode: access point, station or both
  station,     \* the station: idle, joining, associated, or joined with an address
  events,      \* the events posted to the event loop and not handled
  eventTask,   \* where wifi_event_handler is
  httpd,       \* where the web server's task is
  round,       \* forms its last select returned and it has not served
  servers,     \* web servers started and not stopped
  saved,       \* flash holds an access point
  reboots,     \* bound: power cycles so far
  outcome,     \* history: how the attempt of the last request ended
  overlapped,  \* history: a form was served while the server was being closed
  failed       \* history: the calls that failed and whose failure is not looked at

driverVars == <<mode, station, events>>
serverVars == <<httpd, round, servers>>
powerVars  == <<saved, reboots>>
vars == <<bits, retryNum, connected, driverVars, eventTask, serverVars, powerVars,
          outcome, overlapped, failed>>

Bits   == {"CONNECTED", "FAIL", "SERVER_UP", "RESP_SENT"}
Events == {"disconnected", "gotIp"}
Calls  == {"httpd_start", "esp_wifi_connect"}

-----------------------------------------------------------------------------
(* What setup_wifi and the handlers call *)

\* start_server.  httpd_start may fail for want of memory or sockets; SERVER_UP
\* is set by the caller all the same.
StartServer ==
  \/ servers' = servers + 1 /\ httpd' = "select" /\ round' = 0 /\ UNCHANGED failed
  \/ failed' = failed \cup {"httpd_start"} /\ UNCHANGED serverVars

\* esp_wifi_connect, whose result is not looked at: refused (an empty name, no
\* memory) it posts no event.  A station that is not idle stays what it is.
Connect ==
  \/ station' = (IF station = "idle" THEN "joining" ELSE station) /\ UNCHANGED failed
  \/ failed' = failed \cup {"esp_wifi_connect"} /\ UNCHANGED station

\* setup_wifi: check_nvs_sta_config finds a stored access point, which is tried,
\* or the portal is opened.
Boots ==
  IF saved
  THEN {[bits |-> {}, mode |-> "sta", station |-> s, httpd |-> "none", servers |-> 0,
         failed |-> IF s = "idle" THEN {"esp_wifi_connect"} ELSE {}] :
          s \in {"joining", "idle"}}
  ELSE {[bits |-> {"SERVER_UP"}, mode |-> "ap", station |-> "idle", httpd |-> h,
         servers |-> IF h = "none" THEN 0 ELSE 1,
         failed |-> IF h = "none" THEN {"httpd_start"} ELSE {}] :
          h \in {"select", "none"}}

Init ==
  /\ saved \in BOOLEAN
  /\ reboots = 0
  /\ retryNum = 0 /\ connected = FALSE /\ events = <<>> /\ eventTask = "idle"
  /\ round = 0 /\ outcome = "none" /\ overlapped = FALSE
  /\ \E b \in Boots :
       /\ bits = b.bits /\ mode = b.mode /\ station = b.station
       /\ httpd = b.httpd /\ servers = b.servers /\ failed = b.failed

\* Power is lost at any point; only what is in flash is left.
Restart ==
  /\ reboots < MaxReboots
  /\ reboots' = reboots + 1
  /\ retryNum' = 0 /\ connected' = FALSE /\ events' = <<>> /\ eventTask' = "idle"
  /\ round' = 0 /\ outcome' = "none" /\ overlapped' = FALSE
  /\ \E b \in Boots :
       /\ bits' = b.bits /\ mode' = b.mode /\ station' = b.station
       /\ httpd' = b.httpd /\ servers' = b.servers /\ failed' = b.failed
  /\ UNCHANGED saved

\* The driver posts what became of the station.
Posts(e, s) ==
  /\ events' = Append(events, e)
  /\ station' = s
  /\ UNCHANGED <<bits, retryNum, connected, mode, eventTask, serverVars, powerVars,
                 outcome, overlapped, failed>>

\* The access point lets the station in, of which wifi_event_handler learns
\* nothing: it is registered for an address and for a disconnect.
Associates ==
  /\ station = "joining"
  /\ station' = "associated"
  /\ UNCHANGED <<bits, retryNum, connected, mode, events, eventTask, serverVars,
                 powerVars, outcome, overlapped, failed>>

FailsJoin == station = "joining"    /\ Posts("disconnected", "idle")
Joins     == station = "associated" /\ Posts("gotIp", "joined")
LosesLink == station \in {"associated", "joined"} /\ Posts("disconnected", "idle")

-----------------------------------------------------------------------------
(* The event-loop task: wifi_event_handler *)

Handles(e) == eventTask = "idle" /\ events # <<>> /\ Head(events) = e /\ events' = Tail(events)

TriesLeft == retryNum < MaxRetry

\* Mutant: the flag is left set while the station tries again.
RetryQuietly ==
  /\ Handles("disconnected")
  /\ TriesLeft
  /\ bits' = bits \ {"CONNECTED"}
  /\ Connect
  /\ retryNum' = retryNum + 1
  /\ UNCHANGED <<connected, mode, eventTask, serverVars, powerVars, outcome, overlapped>>

\* The connection is lost, or an attempt failed, and there are tries left.
RetryConnect ==
  /\ Handles("disconnected")
  /\ TriesLeft
  /\ connected' = FALSE
  /\ bits' = bits \ {"CONNECTED"}
  /\ Connect
  /\ retryNum' = retryNum + 1
  /\ UNCHANGED <<mode, eventTask, serverVars, powerVars, outcome, overlapped>>

\* Mutant: the portal is opened at boot only.
NeverReopens(b) == FALSE

\* xEventGroupGetBits(..) ^ WIFI_SERVER_UP: true unless SERVER_UP is the only bit.
OpensPortal(b) == b # {"SERVER_UP"}

\* The tries are used up: the portal is opened unless it is, and a request that
\* waits is told.
GiveUpConnect ==
  /\ Handles("disconnected")
  /\ ~TriesLeft
  /\ connected' = FALSE
  /\ LET b == bits \ {"CONNECTED"} IN
       IF OpensPortal(b)
         THEN /\ mode' = "ap" /\ station' = "idle"
              /\ StartServer
              /\ bits' = b \cup {"SERVER_UP", "FAIL"}
         ELSE /\ bits' = b \cup {"FAIL"}
              /\ UNCHANGED <<mode, station, serverVars, failed>>
  /\ outcome' = "failed"
  /\ UNCHANGED <<retryNum, eventTask, powerVars, overlapped>>

\* Mutant: the server's bit is not looked at.
GotIpAlways ==
  /\ Handles("gotIp")
  /\ retryNum' = 0
  /\ connected' = TRUE
  /\ mode' = "sta"
  /\ outcome' = "joined"
  /\ UNCHANGED <<bits, station, eventTask, serverVars, powerVars, overlapped, failed>>

\* An address, and no portal to close.
GotIp ==
  /\ Handles("gotIp")
  /\ "SERVER_UP" \notin bits
  /\ retryNum' = 0
  /\ connected' = TRUE
  /\ mode' = "sta"
  /\ outcome' = "joined"
  /\ UNCHANGED <<bits, station, eventTask, serverVars, powerVars, overlapped, failed>>

\* Mutant: the event task waits for the answer before it tells the request.
Untold(b) == b

\* The bits xEventGroupSync sets before it waits.
Told(b) == b \cup {"CONNECTED"}

\* An address, with the portal open: xEventGroupSync tells the request and waits
\* until it is answered.  The bit waited for is cleared on the way out.
GotIpInPortal ==
  /\ Handles("gotIp")
  /\ "SERVER_UP" \in bits
  /\ retryNum' = 0
  /\ connected' = TRUE
  /\ outcome' = "joined"
  /\ IF "RESP_SENT" \in bits
       THEN bits' = Told(bits) \ {"RESP_SENT"} /\ eventTask' = "closing"
       ELSE bits' = Told(bits) /\ eventTask' = "syncing"
  /\ UNCHANGED <<mode, station, serverVars, powerVars, overlapped, failed>>

\* close_server: httpd_stop posts a control message and waits until the server's
\* task, back in its select, reads it and ends.
CloseServer ==
  /\ eventTask = "closing"
  /\ httpd = "select"
  /\ servers' = servers - 1
  /\ httpd' = "none"
  /\ bits' = bits \ {"SERVER_UP"}
  /\ mode' = "sta"
  /\ eventTask' = "idle"
  /\ UNCHANGED <<retryNum, connected, station, events, round, powerVars, outcome,
                 overlapped, failed>>

-----------------------------------------------------------------------------
(* The web server's task: login_post_handler *)

\* select returns, with forms on one or more connections.  A control message that
\* is there too is read before any of them.
FormsArrive ==
  /\ httpd = "select"
  /\ eventTask # "closing"
  /\ httpd' = "post"
  /\ round' \in 1 .. MaxRound
  /\ UNCHANGED <<bits, retryNum, connected, driverVars, eventTask, servers, powerVars,
                 outcome, overlapped, failed>>

\* Mutant: the bit of the last answer is left set.
ResponsePending(b) == b

\* The bits while a form is handled: its answer is not sent.
ResponseUnsent(b) == b \ {"RESP_SENT"}

\* The handler starts on the next form of the round.
LoginStart ==
  /\ httpd = "post"
  /\ httpd' = "login"
  /\ round' = round - 1
  /\ bits' = ResponseUnsent(bits)
  /\ overlapped' = (overlapped \/ eventTask = "closing")
  /\ UNCHANGED <<retryNum, connected, driverVars, eventTask, servers, powerVars,
                 outcome, failed>>

\* Mutant: the bits of the last attempt are left set.
BitsKept(b) == b

\* The bits init_wifi_sta starts an attempt with.
BitsCleared(b) == b \ {"CONNECTED", "FAIL"}

\* init_wifi_sta, up to its wait.  The form's access point goes to flash.
InitWifiSta ==
  /\ httpd = "login"
  /\ retryNum' = 0
  /\ bits' = BitsCleared(bits)
  /\ mode' = "apsta"
  /\ saved' = TRUE
  /\ Connect
  /\ httpd' = "waiting"
  /\ outcome' = "none"
  /\ UNCHANGED <<connected, events, eventTask, round, servers, reboots, overlapped>>

\* xEventGroupWaitBits returns: connected, or failed.
LoginWakes ==
  /\ httpd = "waiting"
  /\ \/ "CONNECTED" \in bits /\ httpd' = "ok"
     \/ "CONNECTED" \notin bits /\ "FAIL" \in bits /\ httpd' = "notOk"
  /\ UNCHANGED <<bits, retryNum, connected, driverVars, eventTask, round, servers,
                 powerVars, outcome, overlapped, failed>>

\* Mutant: only a failure is reported to the event task.
RepliesSilently ==
  /\ httpd \in {"ok", "notOk"}
  /\ httpd' = IF round = 0 THEN "select" ELSE "post"
  /\ bits' = IF httpd = "ok" THEN bits ELSE bits \cup {"RESP_SENT"}
  /\ UNCHANGED <<retryNum, connected, driverVars, eventTask, round, servers, powerVars,
                 outcome, overlapped, failed>>

\* The answer is sent, and WIFI_RESP_SENT set: an event task that waits for it
\* goes on and clears it.
LoginReplies ==
  /\ httpd \in {"ok", "notOk"}
  /\ httpd' = IF round = 0 THEN "select" ELSE "post"
  /\ IF eventTask = "syncing"
       THEN eventTask' = "closing" /\ UNCHANGED bits
       ELSE bits' = bits \cup {"RESP_SENT"} /\ UNCHANGED eventTask
  /\ UNCHANGED <<retryNum, connected, driverVars, round, servers, powerVars, outcome,
                 overlapped, failed>>

-----------------------------------------------------------------------------
EventHandler == RetryConnect \/ GiveUpConnect \/ GotIp \/ GotIpInPortal \/ CloseServer
LoginHandler == LoginStart \/ InitWifiSta \/ LoginWakes \/ LoginReplies
Driver       == Associates \/ FailsJoin
Network      == Joins \/ LosesLink

Next == EventHandler \/ LoginHandler \/ Driver \/ Network \/ FormsArrive \/ Restart

Spec == Init /\ [][Next]_vars

\* Both tasks run (FreeRTOS), and the driver associates or times out.  Nothing
\* makes the network hand an associated station an address, or drop it; nobody
\* has to submit a form or lose a link.
FairSpec ==
  Spec /\ WF_vars(EventHandler) /\ WF_vars(LoginHandler) /\ WF_vars(Driver)

-----------------------------------------------------------------------------
(* Properties *)

TypeOK ==
  /\ bits \subseteq Bits
  /\ retryNum \in 0 .. MaxRetry
  /\ connected \in BOOLEAN
  /\ mode \in {"ap", "sta", "apsta"}
  /\ station \in {"idle", "joining", "associated", "joined"}
  /\ events \in Seq(Events)
  /\ eventTask \in {"idle", "syncing", "closing"}
  /\ httpd \in {"none", "select", "post", "login", "waiting", "ok", "notOk"}
  /\ round \in 0 .. MaxRound
  /\ servers \in Nat
  /\ saved \in BOOLEAN
  /\ reboots \in 0 .. MaxReboots
  /\ outcome \in {"none", "joined", "failed"}
  /\ overlapped \in BOOLEAN
  /\ failed \subseteq Calls

\* A web server is never started beside a running one, although the test for it
\* is the comparison of all four bits with SERVER_UP: it holds because a request
\* clears the other three before it lets the station try.
OneServer == servers <= 1

\* The bit, the access point and the server go together: unless it failed to
\* start, the server runs and can be reached exactly while SERVER_UP is set.
PortalReachable ==
  /\ "httpd_start" \notin failed => (servers = 1) = ("SERVER_UP" \in bits)
  /\ (mode # "sta") = ("SERVER_UP" \in bits)

\* A request is answered "OK" or "Not OK" for what became of its own attempt,
\* never for the bits an earlier one left.
AnswerIsOwn ==
  /\ httpd = "ok" => outcome = "joined"
  /\ httpd = "notOk" => outcome = "failed"

\* is_wifi_connected(), on which the main task decides to sync: once the events
\* are handled it says whether the station is joined.
ConnectedIsFresh ==
  events = <<>> => connected = (station = "joined")

\* The access point has taken the station in, and nobody ever hands it an address.
AddressNeverComes == [](station = "associated")

\* A submitted form is answered.  Three waits have no end: the form was served while
\* the server was being closed (the two tasks wait for each other); the attempt it
\* made was refused (no event comes); or no address is handed out (no event either,
\* and init_wifi_sta waits for one with portMAX_DELAY).
LoginAnswered ==
  httpd = "waiting" ~>
    \/ httpd # "waiting"
    \/ overlapped
    \/ "esp_wifi_connect" \in failed
    \/ AddressNeverComes

\* A station that joins through the portal closes it, unless a form was served
\* while it was being closed.
PortalCloses == (station = "joined" /\ servers > 0) ~> (servers = 0 \/ overlapped)

\* A device without a connection gets one or opens the portal, unless one of the
\* calls whose result is ignored failed, a form overlapped the closing, or the
\* network lets the station in and hands out no address: that attempt never fails,
\* so its tries are never used up.
PortalReturns ==
  ~connected ~>
    \/ connected
    \/ servers > 0
    \/ overlapped
    \/ failed # {}
    \/ AddressNeverComes

\* The header of setup_wifi: "4. If the form entry is a valid ssid and password,
\* establish connection with ap 5. turn off softAP until connection to the ap is
\* lost".  Read plainly: a station that joined turns the access point off.
SoftApTurnedOff == (station = "joined" /\ mode # "sta") ~> mode = "sta"
=============================================================================
