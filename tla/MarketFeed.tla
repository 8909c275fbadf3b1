----------------------------- MODULE MarketFeed -----------------------------
(***************************************************************************)
(* The connection of the daemon to the exchange's market data              *)
(* (daemon/src/adapters/valr-ws.js).  A socket may be refused or closed by *)
(* its peer, and it may die: stuck in its handshake, or open with nobody   *)
(* at the other end.  Nothing tells of a dead socket, so a timer ends a    *)
(* handshake after CONNECT_TIMEOUT_MS, and a watchdog an open socket that  *)
(* has answered no ping for PONG_TIMEOUT_MS.  A socket that ends arms the  *)
(* next attempt; how long that waits (_backoff) is left out.               *)
(***************************************************************************)
VARIABLES
  link,    \* the socket: "none" (no adapter), "down", "connecting", "open"
  dead,    \* nobody at the other end will ever answer
  armed    \* timers set: _connectTimer, _pongWatchdog

feedVars == <<link, dead, armed>>

Timer == {"connect", "watchdog"}

FeedTypeOK ==
  /\ link \in {"none", "down", "connecting", "open"}
  /\ dead \in BOOLEAN
  /\ armed \subseteq Timer

\* Trades arrive.
Live == link = "open" /\ ~dead

\* _connect.
Connect ==
  /\ link = "down"
  /\ link' = "connecting"
  /\ dead' = FALSE
  /\ armed' = armed \cup {"connect"}

\* Mutant of Opened: the watchdog is left to the connect timer.
OpenedUnwatched ==
  /\ link = "connecting"
  /\ ~dead
  /\ link' = "open"
  /\ armed' = armed \ {"connect"}
  /\ UNCHANGED dead

\* The "open" event.
Opened ==
  /\ link = "connecting"
  /\ ~dead
  /\ link' = "open"
  /\ armed' = (armed \ {"connect"}) \cup {"watchdog"}
  /\ UNCHANGED dead

\* The "close" event, which also follows terminate(): the timers are cleared.
Closed ==
  /\ link' = "down"
  /\ dead' = FALSE
  /\ armed' = {}

ConnectTimeout == "connect" \in armed /\ link = "connecting" /\ dead /\ Closed

Watchdog == "watchdog" \in armed /\ link = "open" /\ dead /\ Closed

\* Refused, closed by the exchange, or reset.
PeerCloses == link \in {"connecting", "open"} /\ Closed

SocketDies ==
  /\ link \in {"connecting", "open"}
  /\ ~dead
  /\ dead' = TRUE
  /\ UNCHANGED <<link, armed>>

Outage == PeerCloses \/ SocketDies

Reconnection == Connect \/ Opened \/ ConnectTimeout \/ Watchdog
=============================================================================
