------------------------------ MODULE Adapters ------------------------------
(***************************************************************************)
(* The adapters make transports.  EthernetAdapter makes one at once.       *)
(* Esp32WifiAdapter makes one at once when connected_, and otherwise when  *)
(* the wifi has come up: its first Update starts the station and blocks    *)
(* the main thread until the events of the driver's task have set a bit of *)
(* the event group.  The cache of transports is compiled out.              *)
(***************************************************************************)
EXTENDS Naturals, Sequences, FiniteSets

CONSTANTS
  AdKinds,       \* subset of {"ethernet", "wifi"}
  kMaxRetry,     \* retries of the station, 10 in the code
  MaxAdActions,  \* bounds
  MaxAdFalls

VARIABLES
  ad_kind,
  ad_connected,  \* connected_
  ad_main,       \* "free", or "wait": inside WifiInitSta, for the event group
  ad_netif,      \* esp_netif_ is set
  ad_station,    \* the driver: "off", "started", "joining", "refused", "up" or "down"
  ad_handler,    \* EventHandler is registered
  ad_retry,      \* s_retry_num
  ad_bits,       \* s_wifi_event_group
  ad_made,       \* create transport actions made
  ad_action,     \* state of each: "waits", "ready", "failed" or "told"
  ad_told,       \* what its subscriber was told
  ad_attempts,   \* history: joins since the last address
  ad_falls

adVars == <<ad_kind, ad_connected, ad_main, ad_netif, ad_station, ad_handler, ad_retry, ad_bits,
            ad_made, ad_action, ad_told, ad_attempts, ad_falls>>
adActions == <<ad_made, ad_action, ad_told>>
adDriver == <<ad_station, ad_retry, ad_bits, ad_attempts, ad_falls>>

AdIds == 1..MaxAdActions

AdInit ==
  /\ ad_kind \in AdKinds
  /\ ad_connected = FALSE /\ ad_main = "free" /\ ad_netif = FALSE
  /\ ad_station = "off" /\ ad_handler = FALSE /\ ad_retry = 0 /\ ad_bits = {}
  /\ ad_made = 0
  /\ ad_action = [a \in AdIds |-> "none"]
  /\ ad_told = [a \in AdIds |-> <<>>]
  /\ ad_attempts = 0 /\ ad_falls = 0

-----------------------------------------------------------------------------
(* The main thread *)

(* CreateTransport: the action has its transport at once, or subscribes to *)
(* wifi_connected_event_.                                                  *)
AdCreateTransport ==
  /\ ad_main = "free" /\ ad_made < MaxAdActions
  /\ ad_made' = ad_made + 1
  /\ ad_action' = [ad_action EXCEPT ![ad_made + 1] =
                     IF ad_kind = "ethernet" \/ ad_connected THEN "ready" ELSE "waits"]
  /\ UNCHANGED <<ad_kind, ad_connected, ad_main, ad_netif, ad_handler, ad_told>>
  /\ UNCHANGED adDriver

(* Update of CreateTransportAction *)
AdActionUpdate(a) ==
  /\ ad_main = "free" /\ ad_action[a] \in {"ready", "failed"}
  /\ ad_told' = [ad_told EXCEPT ![a] = Append(@, ad_action[a])]
  /\ ad_action' = [ad_action EXCEPT ![a] = "told"]
  /\ UNCHANGED <<ad_kind, ad_connected, ad_main, ad_netif, ad_handler, ad_made>>
  /\ UNCHANGED adDriver

(* Update of the adapter, up to the wait of WifiInitSta. *)
AdUpdate ==
  /\ ad_kind = "wifi" /\ ad_main = "free" /\ ~ad_connected
  /\ ad_connected' = TRUE
  /\ ad_netif' = TRUE /\ ad_handler' = TRUE /\ ad_main' = "wait"
  /\ ad_station' = "started" /\ ad_bits' = {}
  /\ UNCHANGED <<ad_kind, ad_retry, ad_attempts, ad_falls>>
  /\ UNCHANGED adActions

(* wifi_connected_event_ is emitted with the result. *)
AdEmit(result) ==
  ad_action' = [a \in AdIds |-> IF ad_action[a] = "waits" THEN result ELSE ad_action[a]]

(* The bits that the wait returned with, in the order they are tested. *)
ResultOf == IF "CONNECTED" \in ad_bits THEN "ready" ELSE "failed"

(* The wait returns: the waiting actions are told and the handlers are     *)
(* unregistered, so nothing answers a later loss of the access point.      *)
AdWaitReturns ==
  /\ ad_main = "wait" /\ ad_bits # {}
  /\ ad_main' = "free" /\ ad_handler' = FALSE
  /\ AdEmit(ResultOf)
  /\ UNCHANGED <<ad_kind, ad_connected, ad_netif, ad_made, ad_told>>
  /\ UNCHANGED adDriver

-----------------------------------------------------------------------------
(* The driver's task: EventHandler, when it is registered *)

Join == ad_station' = "joining" /\ ad_attempts' = ad_attempts + 1

OnStaStart ==
  /\ ad_station = "started" /\ ad_handler
  /\ Join
  /\ UNCHANGED <<ad_kind, ad_connected, ad_main, ad_netif, ad_handler, ad_retry, ad_bits, ad_falls>>
  /\ UNCHANGED adActions

OnStaDisconnectedOne ==
  /\ ad_station = "refused" /\ ad_handler
  /\ IF ad_retry <= kMaxRetry
       THEN Join /\ ad_retry' = ad_retry + 1 /\ UNCHANGED ad_bits
       ELSE /\ ad_bits' = ad_bits \cup {"FAIL"} /\ ad_station' = "down"
            /\ UNCHANGED <<ad_retry, ad_attempts>>
  /\ UNCHANGED <<ad_kind, ad_connected, ad_main, ad_netif, ad_handler, ad_falls>>
  /\ UNCHANGED adActions

OnStaDisconnected ==
  /\ ad_station = "refused" /\ ad_handler
  /\ IF ad_retry < kMaxRetry
       THEN Join /\ ad_retry' = ad_retry + 1 /\ UNCHANGED ad_bits
       ELSE /\ ad_bits' = ad_bits \cup {"FAIL"} /\ ad_station' = "down"
            /\ UNCHANGED <<ad_retry, ad_attempts>>
  /\ UNCHANGED <<ad_kind, ad_connected, ad_main, ad_netif, ad_handler, ad_falls>>
  /\ UNCHANGED adActions

OnGotIp ==
  /\ ad_station = "joining" /\ ad_handler
  /\ ad_station' = "up" /\ ad_retry' = 0 /\ ad_attempts' = 0
  /\ ad_bits' = ad_bits \cup {"CONNECTED"}
  /\ UNCHANGED <<ad_kind, ad_connected, ad_main, ad_netif, ad_handler, ad_falls>>
  /\ UNCHANGED adActions

(* The access point refuses the station, or the station loses it. *)
AdFall ==
  /\ \/ ad_station = "joining" /\ UNCHANGED ad_falls
     \/ ad_station = "up" /\ ad_falls < MaxAdFalls /\ ad_falls' = ad_falls + 1
  /\ ad_station' = "refused"
  /\ UNCHANGED <<ad_kind, ad_connected, ad_main, ad_netif, ad_handler, ad_retry, ad_bits,
                 ad_attempts>>
  /\ UNCHANGED adActions

-----------------------------------------------------------------------------
AdProgress ==
  \/ AdUpdate \/ AdWaitReturns \/ \E a \in AdIds : AdActionUpdate(a)
  \/ OnStaStart \/ OnStaDisconnected \/ OnGotIp \/ AdFall

AdNext == AdCreateTransport \/ AdProgress

(* The driver answers a join one way or the other, its task runs, and the  *)
(* main loop updates the adapter and the actions.                          *)
AdSpec == AdInit /\ [][AdNext]_adVars /\ WF_adVars(AdProgress)

-----------------------------------------------------------------------------
(* Properties *)

AdTypeOK ==
  /\ ad_main \in {"free", "wait"} /\ ad_bits \subseteq {"CONNECTED", "FAIL"}
  /\ ad_retry \in 0..(kMaxRetry + 1)
  /\ ad_main = "wait" => ad_netif /\ ad_handler /\ ad_connected
  /\ \A a \in AdIds : ad_action[a] \in {"none", "waits", "ready", "failed", "told"}

(* EventHandler gives up after kMaxRetry retries: the station is never     *)
(* asked to join more than kMaxRetry + 1 times between two addresses, and  *)
(* "failed for the maximum number of re-tries" (esp32_wifi.cpp:254) is     *)
(* what it was when an action that waited is told of a failure.            *)
AttemptsBounded ==
  /\ ad_attempts <= kMaxRetry + 1
  /\ (\E a \in AdIds : ad_action[a] = "failed") => ad_attempts = kMaxRetry + 1

(* Whoever asks for a transport is told one outcome, even when the access  *)
(* point refuses every join or is lost while the main thread waits.        *)
CreateEnds ==
  \A a \in AdIds : []<>(ad_action[a] # "none" => Len(ad_told[a]) = 1 /\ ad_action[a] = "told")
=============================================================================
