---------------------------- MODULE Registration ----------------------------
(***************************************************************************)
(* Registration of a new client: the action goes through the servers of    *)
(* the registration cloud, asks one for its public key, asks it for the    *)
(* proof-of-work parameters through an encrypted stream, registers a       *)
(* master key through a second stream inside the first, and resolves the   *)
(* cloud it was given.                                                     *)
(*                                                                         *)
(* Every request has its own id and its answer reaches the handler of its  *)
(* kind, whatever the state machine is in: what keeps an old answer out is *)
(* that its stream has been replaced.  A stream is numbered by the request *)
(* it was created for, a key by the request that carries it, a public key  *)
(* by the server it belongs to.  One step is one Update, one event of a    *)
(* transport, or what a server does.                                       *)
(***************************************************************************)
EXTENDS Naturals, FiniteSets, StateMachine

CONSTANTS
  RegServers,    \* bound: servers of the registration cloud
  NoChannels,    \* the servers among them that have no channel
  MaxRequests,   \* bound: requests written
  MaxTimeouts,   \* bound: requests for the keys repeated
  MaxLosses,     \* bound: connections lost after they were established
  WritesFail,    \* whether a write to a transport may fail or be stopped
  SignaturesBad  \* whether a signed key may fail its verification

VARIABLES
  reg_state,     \* state_
  reg_iterator,  \* server_transport_list_iterator_
  reg_link,      \* current_server_transport_, its Once subscriptions, every transport
  reg_stream,    \* reg_server_stream_, global_reg_server_stream_, the write subscriptions
  reg_data,      \* what the answers and the key generation have stored
  reg_net,       \* requests and answers on their way
  reg_config,    \* what SetConfig has given the client
  reg_history    \* requests written, repeated, connections lost, the last request that
                 \* went missing while it was waited for, how the action ended

regVars == <<reg_state, reg_iterator, reg_link, reg_stream, reg_data, reg_net,
             reg_config, reg_history>>

RegStates == {"kConnection", "kWaitingConnection", "kConnected", "kGetKeys",
  "kWaitKeys", "kGetPowParams", "kMakeRegistration", "kRequestCloudResolving",
  "kRegistered", "kRegistrationFailed"}
Servers == 1..RegServers
Ids == 0..MaxRequests
Gates == 0..(RegServers + MaxRequests)

(* The requests, by the API they belong to.  Packing one registers the     *)
(* callback for its answer under its id.  The registration itself is the   *)
(* message that opens its stream, SetMasterKey and Finish.                 *)
RootApi == {"GetAsymmetricPublicKey"}
ServerRegistrationApi == {"RequestProofOfWorkData", "ResolveServers"}
GlobalRegServerApi == {"Registration"}
Kinds == RootApi \cup ServerRegistrationApi \cup GlobalRegServerApi

(* A request on its way: the gate it was written to, the stream it belongs *)
(* to, the key it is encrypted with, the cloud it asks for.                *)
Messages == [id : Ids, kind : Kinds, server : Servers, gate : Gates, stream : Ids,
             pub : {0} \cup Servers, cloud : Ids,
             stage : {"queued", "sent", "answered"}]

(* The variables have their types. *)
RegTypeOK ==
  /\ reg_state \in Machines(RegStates)
  /\ reg_iterator \in 1..(RegServers + 1)
  /\ reg_link \in [current : {0} \cup Servers, success : BOOLEAN, error : BOOLEAN,
       conn : [Servers -> {"none", "connecting", "connected", "failed"}]]
  /\ reg_stream \in [kind : {"none", "simple", "safe"}, server : {0} \cup Servers,
       gate : Gates, id : Ids, pub : {0} \cup Servers, global : Ids,
       raw_sub : Ids, reg_sub : Ids]
  /\ reg_data \in [pub : {0} \cup Servers, pow : Ids, master : Ids, uid : Ids]
  /\ reg_net \subseteq Messages
  /\ reg_config \in [uid : Ids, master : Ids, cloud : Ids]
  /\ reg_history \in [requests : Ids, timeouts : 0..MaxTimeouts, losses : 0..MaxLosses,
       missing : Ids, ended : {"no", "result", "error"}]

(* RegisterClient and the constructor: the action starts marked, at the    *)
(* first server of the list.                                               *)
RegInit ==
  /\ reg_state = Marked("kConnection")
  /\ reg_iterator = 1
  /\ reg_link = [current |-> 0, success |-> FALSE, error |-> FALSE,
                 conn |-> [s \in Servers |-> "none"]]
  /\ reg_stream = [kind |-> "none", server |-> 0, gate |-> 0, id |-> 0, pub |-> 0,
                   global |-> 0, raw_sub |-> 0, reg_sub |-> 0]
  /\ reg_data = [pub |-> 0, pow |-> 0, master |-> 0, uid |-> 0]
  /\ reg_net = {}
  /\ reg_config = [uid |-> 0, master |-> 0, cloud |-> 0]
  /\ reg_history = [requests |-> 0, timeouts |-> 0, losses |-> 0, missing |-> 0,
                    ended |-> "no"]

-----------------------------------------------------------------------------
(* Update *)

NewId == reg_history.requests + 1

(* Write of a packet through the streams down to the transport's gate. *)
Written(kind, stream, pub, cloud) ==
  /\ reg_history' = [reg_history EXCEPT !.requests = NewId]
  /\ reg_net' = reg_net \cup
       {[id |-> NewId, kind |-> kind, server |-> reg_stream'.server,
         gate |-> reg_stream'.gate, stream |-> stream, pub |-> pub,
         cloud |-> cloud, stage |-> "queued"]}

(* IterateConnection: the next server, or failure at the end of the list.  *)
(* Connect is called before the subscriptions are made, so the error event *)
(* of a server without channels is not heard.                              *)
IterateConnection ==
  IF reg_iterator > RegServers
  THEN /\ reg_state' = Set(Acquire(reg_state), "kRegistrationFailed")
       /\ UNCHANGED <<reg_iterator, reg_link>>
  ELSE /\ reg_link' = [current |-> reg_iterator, success |-> TRUE, error |-> TRUE,
            conn |-> [reg_link.conn EXCEPT ![reg_iterator] =
              IF reg_iterator \in NoChannels THEN "failed" ELSE "connecting"]]
       /\ reg_iterator' = reg_iterator + 1
       /\ reg_state' = Set(Acquire(reg_state), "kWaitingConnection")

(* Connected: a plain stream to the current server; what was written to    *)
(* the gate of the stream it replaces is reported to nobody any more.      *)
Connected ==
  /\ reg_stream' = [reg_stream EXCEPT !.kind = "simple", !.server = reg_link.current,
       !.gate = @ + 1, !.id = 0, !.pub = 0]
  /\ reg_state' = Set(Acquire(reg_state), "kGetKeys")

GetKeys ==
  /\ reg_state' = Set(Acquire(reg_state), "kWaitKeys")
  /\ reg_stream' = [reg_stream EXCEPT !.raw_sub = NewId]
  /\ Written("GetAsymmetricPublicKey", 0, 0, 0)

\* Mutant: the stream of an earlier request is used again.
RequestPowParamsSameStream ==
  /\ reg_state' = Acquire(reg_state)
  /\ reg_stream' = [reg_stream EXCEPT !.kind = "safe", !.server = reg_link.current,
       !.gate = @ + 1, !.id = IF @ = 0 THEN NewId ELSE @, !.pub = reg_data.pub,
       !.reg_sub = NewId]
  /\ Written("RequestProofOfWorkData", reg_stream'.id, reg_data.pub, 0)

(* RequestPowParams: new keys and a new encrypted stream to the current    *)
(* server, in place of the stream there was.                               *)
RequestPowParams ==
  /\ reg_state' = Acquire(reg_state)
  /\ reg_stream' = [reg_stream EXCEPT !.kind = "safe", !.server = reg_link.current,
       !.gate = @ + 1, !.id = NewId, !.pub = reg_data.pub, !.reg_sub = NewId]
  /\ Written("RequestProofOfWorkData", NewId, reg_data.pub, 0)

(* MakeRegistration: a new master key goes out through a new stream tied   *)
(* to the encrypted one.                                                   *)
MakeRegistration ==
  /\ reg_state' = Acquire(reg_state)
  /\ reg_data' = [reg_data EXCEPT !.master = NewId]
  /\ reg_stream' = [reg_stream EXCEPT !.global = NewId, !.reg_sub = NewId]
  /\ Written("Registration", reg_stream.id, reg_stream.pub, 0)

ResolveCloud ==
  /\ reg_state' = Acquire(reg_state)
  /\ reg_stream' = [reg_stream EXCEPT !.reg_sub = NewId]
  /\ Written("ResolveServers", reg_stream.id, reg_stream.pub, reg_data.uid)

(* Result and Error, after which the action is gone. *)
Finish(how) ==
  /\ reg_state' = Acquire(reg_state)
  /\ reg_history' = [reg_history EXCEPT !.ended = how]

(* Update of the action after a change of its state. *)
RegUpdate ==
  /\ reg_state.changed
  /\ \/ /\ reg_state.state = "kConnection" /\ IterateConnection
        /\ UNCHANGED <<reg_stream, reg_data, reg_net, reg_history>>
     \/ /\ reg_state.state \in {"kWaitingConnection", "kWaitKeys"}
        /\ reg_state' = Acquire(reg_state)
        /\ UNCHANGED <<reg_iterator, reg_link, reg_stream, reg_data, reg_net, reg_history>>
     \/ /\ reg_state.state = "kConnected" /\ Connected
        /\ UNCHANGED <<reg_iterator, reg_link, reg_data, reg_net, reg_history>>
     \/ /\ reg_state.state = "kRegistered" /\ Finish("result")
        /\ UNCHANGED <<reg_iterator, reg_link, reg_stream, reg_data, reg_net>>
     \/ /\ reg_state.state = "kRegistrationFailed" /\ Finish("error")
        /\ UNCHANGED <<reg_iterator, reg_link, reg_stream, reg_data, reg_net>>
     \/ /\ reg_history.requests < MaxRequests
        /\ \/ reg_state.state = "kGetKeys" /\ GetKeys /\ UNCHANGED reg_data
           \/ reg_state.state = "kGetPowParams" /\ RequestPowParams /\ UNCHANGED reg_data
           \/ reg_state.state = "kMakeRegistration" /\ MakeRegistration
           \/ reg_state.state = "kRequestCloudResolving" /\ ResolveCloud
              /\ UNCHANGED reg_data
        /\ UNCHANGED <<reg_iterator, reg_link>>
  /\ UNCHANGED reg_config

(* WaitKeys, once the answer is late: the request is repeated. *)
WaitKeys ==
  /\ reg_state.state = "kWaitKeys"
  /\ reg_history.timeouts < MaxTimeouts
  /\ reg_state' = Set(Acquire(reg_state), "kGetKeys")
  /\ reg_history' = [reg_history EXCEPT !.timeouts = @ + 1]
  /\ UNCHANGED <<reg_iterator, reg_link, reg_stream, reg_data, reg_net, reg_config>>

-----------------------------------------------------------------------------
(* Events of the transports *)

(* A transport connects, or connects again by itself after a loss; only    *)
(* the first time is heard.                                                *)
ConnectionSuccess(s) ==
  /\ reg_link.conn[s] = "connecting"
  /\ LET heard == s = reg_link.current /\ reg_link.success
     IN /\ reg_link' = [reg_link EXCEPT !.conn[s] = "connected",
                                        !.success = @ /\ ~heard]
        /\ reg_state' = IF heard THEN Set(reg_state, "kConnected") ELSE reg_state
  /\ UNCHANGED <<reg_iterator, reg_stream, reg_data, reg_net, reg_config, reg_history>>

\* Mutant: nobody hears that a transport has used up its channels.
ConnectionErrorUnheard(s) ==
  /\ reg_link.conn[s] = "connecting"
  /\ reg_link' = [reg_link EXCEPT !.conn[s] = "failed"]
  /\ UNCHANGED <<reg_state, reg_iterator, reg_stream, reg_data, reg_net, reg_config,
                 reg_history>>

(* A transport has used up its channels. *)
ConnectionError(s) ==
  /\ reg_link.conn[s] = "connecting"
  /\ LET heard == s = reg_link.current /\ reg_link.error
     IN /\ reg_link' = [reg_link EXCEPT !.conn[s] = "failed", !.error = @ /\ ~heard]
        /\ reg_state' = IF heard THEN Set(reg_state, "kConnection") ELSE reg_state
  /\ UNCHANGED <<reg_iterator, reg_stream, reg_data, reg_net, reg_config, reg_history>>

(* What becomes of the history when messages are lost: the request the     *)
(* registration waits for may be among them.                               *)
Missing(lost) ==
  IF \E m \in lost : m.id = reg_stream.reg_sub THEN reg_stream.reg_sub
  ELSE reg_history.missing

(* An established connection is lost with what it carried. *)
ConnectionLost(s) ==
  /\ reg_history.losses < MaxLosses
  /\ reg_link.conn[s] = "connected"
  /\ reg_link' = [reg_link EXCEPT !.conn[s] = "connecting"]
  /\ LET lost == {m \in reg_net : m.server = s /\ m.stage # "queued"}
     IN /\ reg_net' = reg_net \ lost
        /\ reg_history' = [reg_history EXCEPT !.losses = @ + 1,
                                              !.missing = Missing(lost)]
  /\ UNCHANGED <<reg_state, reg_iterator, reg_stream, reg_data, reg_config>>

WriteDone(m) ==
  /\ m.stage = "queued"
  /\ reg_link.conn[m.server] = "connected"
  /\ reg_net' = (reg_net \ {m}) \cup {[m EXCEPT !.stage = "sent"]}
  /\ UNCHANGED <<reg_state, reg_iterator, reg_link, reg_stream, reg_data, reg_config,
                 reg_history>>

(* A write fails: the write action tells its subscriber, as long as its    *)
(* gate is there.  A request for the keys moves on to the next server, any *)
(* other ends the registration.                                            *)
WriteError(m) ==
  /\ WritesFail
  /\ m.stage = "queued"
  /\ reg_net' = reg_net \ {m}
  /\ LET alive == m.gate = reg_stream.gate
         raw == alive /\ reg_stream.raw_sub = m.id
         reg == alive /\ reg_stream.reg_sub = m.id
     IN /\ reg_state' = IF raw THEN Set(reg_state, "kConnection")
                        ELSE IF reg THEN Set(reg_state, "kRegistrationFailed")
                        ELSE reg_state
        /\ reg_stream' = IF reg THEN [reg_stream EXCEPT !.reg_sub = 0] ELSE reg_stream
  /\ UNCHANGED <<reg_iterator, reg_link, reg_data, reg_config, reg_history>>

(* A write is stopped, as CheckTimeout of the send action does to one that *)
(* is in progress: the write action stops too, and the registration, which *)
(* subscribes to errors only, is not told.                                 *)
WriteStopped(m) ==
  /\ WritesFail
  /\ m.stage = "queued"
  /\ reg_net' = reg_net \ {m}
  /\ reg_history' = [reg_history EXCEPT !.missing = Missing({m})]
  /\ UNCHANGED <<reg_state, reg_iterator, reg_link, reg_stream, reg_data, reg_config>>

(* The server answers what it can decrypt. *)
Answer(m) ==
  /\ m.stage = "sent"
  /\ m.pub \in {0, m.server}
  /\ reg_net' = (reg_net \ {m}) \cup {[m EXCEPT !.stage = "answered"]}
  /\ UNCHANGED <<reg_state, reg_iterator, reg_link, reg_stream, reg_data, reg_config,
                 reg_history>>

-----------------------------------------------------------------------------
(* Answers *)

(* Whether the gates there are take an answer to its handler.  The answer  *)
(* with the keys is read off the transport by either kind of stream.       *)
TakesPlain(m) == m.kind \in RootApi /\ reg_stream.server = m.server

(* The others come through the encrypted stream of their request. *)
TakesSafe(m) ==
  /\ m.kind \notin RootApi
  /\ reg_stream.kind = "safe" /\ reg_stream.server = m.server
  /\ reg_stream.id = m.stream

(* The confirmation comes through the stream inside it. *)
TakesGlobal(m) == m.kind \in GlobalRegServerApi => reg_stream.global = m.id

Accepts(m) == TakesPlain(m) \/ (TakesSafe(m) /\ TakesGlobal(m))

OnGetKeysResponse(m) ==
  /\ m.kind \in RootApi
  /\ reg_data' = [reg_data EXCEPT !.pub = m.server]
  /\ reg_state' = Set(reg_state, "kGetPowParams")
  /\ UNCHANGED reg_config

OnResponsePowParams(m) ==
  /\ m.kind = "RequestProofOfWorkData"
  /\ reg_data' = [reg_data EXCEPT !.pow = m.stream]
  /\ reg_state' = Set(reg_state, "kMakeRegistration")
  /\ UNCHANGED reg_config

(* A signed key that does not verify ends the registration. *)
BadSignature(m) ==
  /\ SignaturesBad
  /\ m.kind \in {"GetAsymmetricPublicKey", "RequestProofOfWorkData"}
  /\ reg_state' = Set(reg_state, "kRegistrationFailed")
  /\ UNCHANGED <<reg_data, reg_config>>

OnConfirmRegistration(m) ==
  /\ m.kind = "Registration"
  /\ reg_data' = [reg_data EXCEPT !.uid = m.id]
  /\ reg_state' = Set(reg_state, "kRequestCloudResolving")
  /\ UNCHANGED reg_config

(* OnResolveCloudResponse, with SetConfig of the client. *)
OnResolveCloudResponse(m) ==
  /\ m.kind = "ResolveServers"
  /\ reg_config' = [uid |-> reg_data.uid, master |-> reg_data.master, cloud |-> m.cloud]
  /\ reg_state' = Set(reg_state, "kRegistered")
  /\ UNCHANGED reg_data

(* An answer arrives: at its handler, or nowhere. *)
Deliver(m) ==
  /\ m.stage = "answered"
  /\ reg_link.conn[m.server] = "connected"
  /\ reg_net' = reg_net \ {m}
  /\ \/ /\ Accepts(m)
        /\ \/ OnGetKeysResponse(m) \/ OnResponsePowParams(m) \/ BadSignature(m)
           \/ OnConfirmRegistration(m) \/ OnResolveCloudResponse(m)
     \/ ~Accepts(m) /\ UNCHANGED <<reg_state, reg_data, reg_config>>
  /\ UNCHANGED <<reg_iterator, reg_link, reg_stream, reg_history>>

RegNext ==
  /\ reg_history.ended = "no"
  /\ \/ RegUpdate \/ WaitKeys
     \/ \E s \in Servers : ConnectionSuccess(s) \/ ConnectionError(s) \/ ConnectionLost(s)
     \/ \E m \in reg_net : WriteDone(m) \/ WriteError(m) \/ WriteStopped(m)
                          \/ Answer(m) \/ Deliver(m)

(* What the program and a network that answers go on doing: everything but *)
(* a lost connection and a failed or stopped write.                        *)
RegProgress ==
  /\ reg_history.ended = "no"
  /\ \/ RegUpdate \/ WaitKeys
     \/ \E s \in Servers : ConnectionSuccess(s) \/ ConnectionError(s)
     \/ \E m \in reg_net : WriteDone(m) \/ Answer(m) \/ Deliver(m)

RegSpec == RegInit /\ [][RegNext]_regVars /\ WF_regVars(RegProgress)

-----------------------------------------------------------------------------
(* Properties *)

(* The client is configured with the parts of one registration: the uid    *)
(* the server gave, the master key it was given for that uid, and the      *)
(* cloud of that uid, whatever requests were repeated, servers changed and *)
(* answers late (OnResolveCloudResponse).                                  *)
ConfigConsistent ==
  reg_config.uid = reg_config.master /\ reg_config.uid = reg_config.cloud

(* When MakeRegistration or ResolveCloud is due, the stream is the         *)
(* encrypted one, it is the one the proof-of-work parameters came through, *)
(* and its server can read it: a master key never goes out in the clear.   *)
SecretsThroughSafeStream ==
  reg_state.changed /\ reg_state.state \in {"kMakeRegistration", "kRequestCloudResolving"}
    => /\ reg_stream.kind = "safe" /\ reg_data.pow = reg_stream.id
       /\ reg_stream.pub = reg_stream.server

(* The parameters are asked of a server with another server's key: its     *)
(* answer to GetKeys came after the next server was taken.                 *)
Misdirected == reg_stream.pub # reg_stream.server /\ reg_stream.kind = "safe"

(* The request it waits for was stopped, or lost with its connection. *)
Unanswerable == reg_history.missing # 0 /\ reg_history.missing = reg_stream.reg_sub

(* The bounds stop the model: no request can be written, or repeated. *)
RegBounded ==
  \/ reg_history.requests = MaxRequests /\ reg_state.changed
  \/ reg_history.timeouts = MaxTimeouts /\ reg_state.state = "kWaitKeys"

(* The registration is over, or held up by one of the causes there are. *)
RegOver ==
  \/ reg_history.ended # "no"
  \/ Unanswerable \/ Misdirected \/ reg_link.current \in NoChannels
  \/ RegBounded

(* The registration ends, whatever requests for the keys are lost, stopped *)
(* or late and whatever writes fail.  Three things hold it up for ever in  *)
(* the code, and are excepted: a server without channels, whose error      *)
(* comes before the subscription; the key of another server; and a later   *)
(* request that is lost with its connection or stopped, for only the       *)
(* request for the keys is ever repeated and only errors are subscribed to *)
(* (registration.cpp:286, 369, 407).                                       *)
RegistrationEnds == []<>RegOver
=============================================================================
