------------------------------ MODULE MCClient ------------------------------
(***************************************************************************)
(* The client for TLC: the transport to a server, the registration, the    *)
(* connections to a cloud and the lookup of another client's cloud, the    *)
(* message stream between clients and the protocol of the api calls.  They *)
(* do not interact; `part` says which of them a behaviour is about, and    *)
(* the variables of the others stay as they are.                           *)
(***************************************************************************)
EXTENDS ServerTransport, Registration, CloudConnections, CloudLookup, P2pStream, ApiProtocol

VARIABLE part

IpAndName == <<"ip", "name">>

allVars == <<part, vars, regVars, ccVars, luVars, psVars, apVars>>

Parts == {"server", "registration", "connections", "lookup", "stream", "api"}

(* The cloud and the selector of a part that is not looked at are fixed. *)
MCInit ==
  /\ part \in Parts
  /\ Init /\ RegInit /\ CcInit /\ LuInit /\ PsInit /\ ApInit
  /\ part # "connections" => cc_bare = {}
  /\ part # "lookup" => lu_kept = {} /\ lu_iterator = 1

ServerOnly == part = "server" /\ UNCHANGED <<part, regVars, ccVars, luVars, psVars, apVars>>
RegOnly == part = "registration" /\ UNCHANGED <<part, vars, ccVars, luVars, psVars, apVars>>
CcOnly == part = "connections" /\ UNCHANGED <<part, vars, regVars, luVars, psVars, apVars>>
LuOnly == part = "lookup" /\ UNCHANGED <<part, vars, regVars, ccVars, psVars, apVars>>
PsOnly == part = "stream" /\ UNCHANGED <<part, vars, regVars, ccVars, luVars, apVars>>
ApOnly == part = "api" /\ UNCHANGED <<part, vars, regVars, ccVars, luVars, psVars>>

MCNext ==
  \/ ServerOnly /\ Next
  \/ RegOnly /\ RegNext
  \/ CcOnly /\ CcNext
  \/ LuOnly /\ LuNext
  \/ PsOnly /\ PsNext
  \/ ApOnly /\ ApNext

(* The fairness of the two parts whose properties need it. *)
MCProgress == (ServerOnly /\ Progress) \/ (RegOnly /\ RegProgress)

MCSpec == MCInit /\ [][MCNext]_allVars /\ WF_allVars(MCProgress)

(* Server transport: the send queue is busy with its first packet, awake   *)
(* while it has one, and hands packets on in order                         *)
(* (ServerSendPacketAction, the queue manager's Update).                   *)
QueueServed == part = "server" => TypeOK /\ BusyWithFront /\ QueueAwake /\ PassedInOrder

(* Registration: the configuration it ends with is of one server, and what *)
(* must be secret goes through the safe stream (Registration::Update).     *)
RegistrationSafe ==
  part = "registration" => RegTypeOK /\ ConfigConsistent /\ SecretsThroughSafeStream

(* Cloud connections: a failure of a server reaches every client that uses *)
(* it, and a message stream's gates follow to the server chosen next       *)
(* (ClientCloudConnection::OnConnectionError).                             *)
FailuresFollowed == part = "connections" => CcTypeOK /\ FailureNoticed /\ GatesFollow

(* Cloud lookup: what is registered is what was answered, and a lookup     *)
(* whose requests are over is over (GetClientCloudAction).                 *)
LookupRight == part = "lookup" => LuTypeOK /\ RegisteredAsAnswered /\ LookupEnds

(* Message stream: writes leave the buffer in order and none stays behind  *)
(* an open gate unless its action was lost (BufferGate, P2pStream).        *)
WritesPass == part = "stream" => PsTypeOK /\ WriteOrder /\ NoStallUnlessLost

(* Api protocol: an answer calls the callback of its own request, once,    *)
(* the rest of a packet is read on, and the stack of api classes is        *)
(* balanced (ProtocolContext).                                             *)
CallsAnswered ==
  part = "api" => ApTypeOK /\ CalledOnce /\ OwnCallback /\ PacketDelivered /\ ClassesPopped

(* RegistrationEnds, in the behaviours that are about the registration: it *)
(* ends, but for a server without channels, a request with another         *)
(* server's key, or the loss of a request later than the one for the keys. *)
RegistrationOver == []<>(part = "registration" => RegOver)

(* No channel is passed over and no write declined while there is room;    *)
(* packets settle and the registration ends, but for the named causes.     *)
ClientGoesOn == EveryChannelTried /\ DeclinedOnlyFull /\ PacketsSettle /\ RegistrationOver
=============================================================================
