---------------------------- MODULE MCTransports ----------------------------
(***************************************************************************)
(* The transports for TLC: the TCP transports of the three platforms, the  *)
(* pollers that wake them, the name resolvers and the adapters.  They do   *)
(* not interact; `part` says which of them a behaviour is about, and the   *)
(* variables of the others stay as they are.                               *)
(***************************************************************************)
EXTENDS UnixTcpTransport, WinTcpTransport, LwipTcpTransport, Pollers, DnsResolvers, Adapters

VARIABLE part

allVars == <<part, vars, wtVars, ltVars, poVars, dnVars, adVars>>

Parts == {"unix", "win", "lwip", "poller", "dns", "adapter"}

(* The kind of a part that is not looked at is fixed. *)
MCInit ==
  /\ part \in Parts
  /\ Init /\ WtInit /\ LtInit /\ PoInit /\ DnInit /\ AdInit
  /\ part # "poller" => po_kind = "epoll"
  /\ part # "dns" => dn_kind = "cares"
  /\ part # "adapter" => ad_kind = "ethernet"

UnixOnly == part = "unix" /\ UNCHANGED <<part, wtVars, ltVars, poVars, dnVars, adVars>>
WinOnly == part = "win" /\ UNCHANGED <<part, vars, ltVars, poVars, dnVars, adVars>>
LwipOnly == part = "lwip" /\ UNCHANGED <<part, vars, wtVars, poVars, dnVars, adVars>>
PollerOnly == part = "poller" /\ UNCHANGED <<part, vars, wtVars, ltVars, dnVars, adVars>>
DnsOnly == part = "dns" /\ UNCHANGED <<part, vars, wtVars, ltVars, poVars, adVars>>
AdapterOnly == part = "adapter" /\ UNCHANGED <<part, vars, wtVars, ltVars, poVars, dnVars>>

MCNext ==
  \/ UnixOnly /\ Next
  \/ WinOnly /\ WtNext
  \/ LwipOnly /\ LtNext
  \/ PollerOnly /\ PoNext
  \/ DnsOnly /\ DnNext
  \/ AdapterOnly /\ AdNext

(* The fairness of each part, for the behaviours that are about it.        *)
MCProgress ==
  \/ WinOnly /\ WtProgress
  \/ PollerOnly /\ PoProgress
  \/ DnsOnly /\ DnProgress
  \/ AdapterOnly /\ AdProgress

MCFairness ==
  /\ []<>(part # "unix" \/ ~Due) \/ []<><<UnixOnly /\ Progress>>_allVars
  /\ WF_allVars(MCProgress)

MCSpec == MCInit /\ [][MCNext]_allVars /\ MCFairness

(* Unix: packets arrive whole and in the order of their sending, and one   *)
(* that is partly sent is the one the queue goes on with                   *)
(* (UnixTcpTransport::ReadFromSocket, SocketPacketQueueManager::Send).     *)
PacketsWhole == part = "unix" => TypeOK /\ ReceivedInOrder /\ PartlySentIsCurrent

(* Windows: a packet is given to the socket once, and one read is under    *)
(* way at a time (WinTcpTransport::OnSend, OnRecv).                        *)
OverlappedOnce == part = "win" => WtTypeOK /\ SentOnce /\ OneRead

(* lwIP: packets are sent in order, and a callback finds the connection it *)
(* belongs to (LwipTcpTransport::OnClosed).                                *)
CallbacksFindOwner == part = "lwip" => LtTypeOK /\ LtInOrder /\ OwnConnection

(* Resolvers: a query keeps its context until it is answered or the        *)
(* resolver goes, and is answered once (ResolveAction::Update,             *)
(* AresImpl::Query).                                                       *)
AnsweredOnce == part = "dns" => DnTypeOK /\ ContextAlive /\ DnToldOnce

(* Adapters: a connection to the access point is tried again a bounded     *)
(* number of times, and fails only after all of them                       *)
(* (Esp32WifiAdapter::EventHandler).                                       *)
RetriesBounded == part = "adapter" => AdTypeOK /\ AttemptsBounded

(* Every request ends: what is sent over a connection that lasts is        *)
(* received, each send, query and creation of a transport is reported as   *)
(* done or failed, and pollers serve what is ready and end their threads.  *)
RequestsEnd ==
  Delivered /\ Joined /\ EverythingReceived /\ SendsEnd /\ QueryEnds /\ CreateEnds
=============================================================================
