--------------------------- MODULE ProcessWindow ---------------------------
(***************************************************************************)
(* The timed loops around MQTT_ProcessLoop (waitForPacketAck and           *)
(* processLoopWithTimeout in mqtt_conn.c).  Both compute a deadline from a *)
(* 32-bit millisecond clock and go round while the clock is below it, no   *)
(* ack has come (waitForPacketAck) and MQTT_ProcessLoop reports no error.  *)
(* The clock wraps after 2^32 ms, 49.7 days.                               *)
(***************************************************************************)
EXTENDS Integers

CONSTANTS
  Modulus,    \* 2^32
  Timeout,    \* ulTimeout, 5000 in every call
  MaxPass,    \* the longest one MQTT_ProcessLoop takes
  Starts,     \* clock readings at which a window may open
  Horizon     \* bound: milliseconds followed after a window opens

ASSUME WindowAssumption ==
  /\ Modulus \in Nat \ {0}
  /\ Timeout \in Nat
  /\ MaxPass \in Nat \ {0}
  /\ Starts \subseteq 0 .. Modulus - 1
  /\ Horizon \in Nat

VARIABLES
  looping,   \* the loop has not been left
  clock,     \* ulCurrentTime, the last reading
  deadline,  \* ulMqttProcessLoopTimeoutTime
  outcome,   \* what ended the loop, if anything but the deadline did
  opened,    \* history: the clock when the window opened
  elapsed    \* history: milliseconds since then

windowVars == <<looping, clock, deadline, outcome, opened, elapsed>>

\* ulCurrentTime + ulTimeout in a uint32_t.
DeadlineOf(t) == (t + Timeout) % Modulus

WindowInit ==
  /\ looping = TRUE
  /\ clock \in Starts
  /\ deadline = DeadlineOf(clock)
  /\ outcome = "none"
  /\ opened = clock
  /\ elapsed = 0

\* Mutant: the deadline itself still counts as in time.
StaysAtDeadline == outcome = "none" /\ clock <= deadline

Stays == outcome = "none" /\ clock < deadline

\* One MQTT_ProcessLoop: it takes some time and may bring the ack or fail.
Pass ==
  /\ looping
  /\ Stays
  /\ \E d \in 1 .. MaxPass:
       /\ elapsed + d <= Horizon
       /\ elapsed' = elapsed + d
       /\ clock' = (clock + d) % Modulus
  /\ outcome' \in {"none", "ack", "error"}
  /\ UNCHANGED <<looping, deadline, opened>>

Leave ==
  /\ looping
  /\ ~Stays
  /\ looping' = FALSE
  /\ UNCHANGED <<clock, deadline, outcome, opened, elapsed>>

WindowNext == Pass \/ Leave
WindowSpec == WindowInit /\ [][WindowNext]_windowVars

-----------------------------------------------------------------------------
WindowTypeOK ==
  /\ looping \in BOOLEAN
  /\ clock \in 0 .. Modulus - 1
  /\ deadline \in 0 .. Modulus - 1
  /\ outcome \in {"none", "ack", "error"}
  /\ opened \in 0 .. Modulus - 1
  /\ elapsed \in 0 .. Horizon

\* A wait ends within its timeout and the pass that was running ("Maximum
\* duration to wait for expected ACK packet").
WaitBounded == elapsed < Timeout + MaxPass

\* A wait that ends without an ack or an error has lasted its whole timeout.
WaitsLongEnough == ~looping /\ outcome = "none" => elapsed >= Timeout

\* Both hold of a window that closes before the clock wraps.
AwayFromWrap == opened + Timeout + MaxPass <= Modulus
WindowKept == AwayFromWrap => WaitBounded /\ WaitsLongEnough

\* Away from the wrap the 32-bit arithmetic is that of the integers.
NoWrap ==
  AwayFromWrap =>
    /\ clock = opened + elapsed
    /\ deadline = opened + Timeout
    /\ WaitBounded
    /\ ~looping /\ outcome = "none" => clock >= deadline
=============================================================================
