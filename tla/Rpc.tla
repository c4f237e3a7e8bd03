---------------------------------- MODULE Rpc ----------------------------------
(***************************************************************************)
(* Remote procedure calls between olad and its clients: the two            *)
(* RpcChannels of a connection (common/rpc/RpcChannel.cpp), the RpcServer  *)
(* that owns the server's channels, and the ClientBroker                   *)
(* (olad/ClientBroker.cpp), which keeps the answer of an RDM request from  *)
(* a session that has ended.                                               *)
(*                                                                         *)
(* Each end of a connection may call the other: clients call the server,   *)
(* and the server sends them DMX data by UpdateDmxData().  Both ends run   *)
(* in an event loop, so that a handler with all it calls is one step.      *)
(* Messages are read whole and in order; what has been sent before a       *)
(* descriptor is closed is read before the end of the stream is seen.      *)
(* Calls are numbered by m_sequence, taken not to wrap.                    *)
(***************************************************************************)
EXTENDS Naturals, Sequences, FiniteSetsExt

CONSTANTS
  Session,       \* connections, each used once
  Address,       \* where Client objects may be allocated
  Callers,       \* bound: the channels that calls are made on
  MaxCalls       \* bound: calls made at all ends

ASSUME ConstantsAssumption ==
  /\ "none" \notin Address
  /\ MaxCalls \in Nat

End == {"client", "server"}
Chan == Session \X End
Peer(c) == <<c[1], IF c[2] = "client" THEN "server" ELSE "client">>

NoAddress == "none"
Failed == 0    \* the result of a call that failed; others are the call's number

VARIABLES
  channel,      \* "none", "open", "failed" (m_descriptor is NULL), "closed" or "deleted"
  m_on_close,   \* the channels whose close handler has not been run
  polled,       \* the channels whose descriptor is in the SelectServer
  wire,         \* the messages on their way to a channel
  m_sequence,
  m_responses,  \* the calls of a channel that have not been answered
  m_requests,   \* the requests a channel has not answered
  serving,      \* the RDM requests of the service, with the ClientBroker's key
  m_clients,    \* the ClientBroker's clients
  client,       \* the address of each session's Client
  m_connected_sockets,
  cleanup,      \* the sessions that CleanupChannel() is queued for
  outcome,      \* history: the results each call's callback was run with
  up,           \* the RpcServer exists
  removed,      \* history: how often ClientRemoved() was called for a session
  dropped,      \* history: the calls, <<channel, id>>, that the other end has
                \* read and not answered
  misused       \* history: <<session, what>>, what was used after its deletion

channelVars == <<channel, m_on_close, polled, m_connected_sockets, cleanup,
                 m_clients, removed>>
callVars == <<m_sequence, m_responses, outcome>>
vars == <<channelVars, callVars, wire, m_requests, serving, client, up, dropped, misused>>

Init ==
  /\ channel = [c \in Chan |-> "none"]
  /\ m_on_close = {}
  /\ polled = {}
  /\ wire = [c \in Chan |-> <<>>]
  /\ m_sequence = [c \in Chan |-> 0]
  /\ m_responses = [c \in Chan |-> {}]
  /\ m_requests = [c \in Chan |-> {}]
  /\ serving = {}
  /\ m_clients = {}
  /\ client = [s \in Session |-> NoAddress]
  /\ m_connected_sockets = {}
  /\ cleanup = {}
  /\ up = TRUE
  /\ outcome = [c \in Chan |-> <<>>]
  /\ removed = [s \in Session |-> 0]
  /\ dropped = {}
  /\ misused = {}

-----------------------------------------------------------------------------
(* Closing a channel.                                                       *)

\* RpcServer::ChannelClosed() with OlaServer::ClientRemoved(): the session's
\* Client is forgotten and deleted, and the deletion of the channel queued.
\* registered are the channels in the SelectServer by then.
ChannelClosed(s, registered) ==
  /\ m_clients' = m_clients \ {client[s]}
  /\ removed' = [removed EXCEPT ![s] = @ + 1]
  /\ polled' = registered \ {<<s, "server">>}
  /\ m_connected_sockets' = m_connected_sockets \ {s}
  /\ cleanup' = cleanup \cup {s}

\* The handler is taken, and run if there was one.
HandleChannelClose(c, registered) ==
  /\ m_on_close' = m_on_close \ {c}
  /\ IF c \in m_on_close /\ c[2] = "server" THEN ChannelClosed(c[1], registered)
     ELSE /\ polled' = registered
          /\ UNCHANGED <<m_clients, removed, m_connected_sockets, cleanup>>

-----------------------------------------------------------------------------
(* SendMsg(): rest is what is on the wire by then.                          *)

Sent(c, message, rest) ==
  /\ channel[c] = "open"
  /\ wire' = [rest EXCEPT ![Peer(c)] = Append(@, message)]
  /\ UNCHANGED channelVars

\* The message does not go out as a whole: the channel is closed.
SendFails(c, rest) ==
  /\ channel[c] = "open"
  /\ channel' = [channel EXCEPT ![c] = "failed"]
  /\ HandleChannelClose(c, polled)
  /\ wire' = rest

\* The descriptor has gone: nothing is sent.
NotSent(c, rest) ==
  /\ channel[c] # "open"
  /\ wire' = rest
  /\ UNCHANGED channelVars

SendMsg(c, message, rest) ==
  Sent(c, message, rest) \/ SendFails(c, rest) \/ NotSent(c, rest)

\* Whoever sends goes on with the channel once SendMsg() has returned: what is
\* misused if it was deleted before, or has been inside the call.
Uses(c, what) ==
  IF "deleted" \in {channel[c], channel'[c]} THEN {<<c[1], what>>} ELSE {}

-----------------------------------------------------------------------------
(* The calling end.                                                         *)

\* How many calls have been made.
Calls == MapThenSumSet(LAMBDA c : m_sequence[c], Chan)

\* The callback of a call is run.
Completed(c, id, result) == [outcome EXCEPT ![c][id] = Append(@, result)]

\* The Client whose SendDMX() calls is deleted by ClientRemoved() in its own call
\* stack if the send fails, while UpdateDependants() iterates over it.
UsesClient(c) ==
  IF c[2] = "server" /\ client[c[1]] \notin m_clients' THEN {<<c[1], "client">>} ELSE {}

\* CallMethod(): a call that could not be sent fails at once, others wait for
\* their answer; only the server's sinks (Client::SendDMX()) are called by it.
CallMethod(c) ==
  /\ c \in Callers
  /\ channel[c] \in {"open", "failed", "closed"}
  /\ c[2] = "server" => client[c[1]] \in m_clients
  /\ Calls < MaxCalls
  /\ m_sequence' = [m_sequence EXCEPT ![c] = @ + 1]
  /\ LET id == m_sequence'[c]
         message == [type |-> "request", id |-> id, body |-> id]
     IN  \/ /\ Sent(c, message, wire)
            /\ m_responses' = [m_responses EXCEPT ![c] = @ \cup {id}]
            /\ outcome' = [outcome EXCEPT ![c] = Append(@, <<>>)]
         \/ /\ SendFails(c, wire) \/ NotSent(c, wire)
            /\ outcome' = [outcome EXCEPT ![c] = Append(@, <<Failed>>)]
            /\ UNCHANGED m_responses
  /\ misused' = misused \cup Uses(c, "channel") \cup UsesClient(c)
  /\ UNCHANGED <<m_requests, serving, client, up, dropped>>

\* A streaming method (StreamDmxData()) has no answer and no callback.
CallStreaming(s) ==
  LET c == <<s, "client">>
  IN  /\ c \in Callers
      /\ channel[c] \in {"open", "failed", "closed"}
      /\ Calls < MaxCalls
      /\ m_sequence' = [m_sequence EXCEPT ![c] = @ + 1]
      /\ outcome' = [outcome EXCEPT ![c] = Append(@, <<>>)]
      /\ SendMsg(c, [type |-> "stream", id |-> m_sequence'[c], body |-> m_sequence'[c]],
                 wire)
      /\ UNCHANGED <<m_responses, m_requests, serving, client, up, dropped, misused>>

\* A message is there to be read by channel c.
Readable(c) == c \in polled /\ channel[c] = "open" /\ wire[c] # <<>>
Read(c) == [wire EXCEPT ![c] = Tail(@)]

\* Mutant: an answer is taken for the oldest call.
HandleResponseInOrder(c) ==
  LET msg == Head(wire[c])
      first == CHOOSE i \in m_responses[c] : \A j \in m_responses[c] : i <= j
  IN  /\ Readable(c)
      /\ msg.type \in {"response", "failed", "not implemented"}
      /\ m_responses[c] # {}
      /\ m_responses' = [m_responses EXCEPT ![c] = @ \ {first}]
      /\ outcome' = Completed(c, first, IF msg.type = "response" THEN msg.body ELSE Failed)
      /\ wire' = Read(c)
      /\ UNCHANGED <<channelVars, m_sequence, m_requests, serving, client, up, dropped,
                     misused>>

\* HandleResponse(), HandleFailedResponse() and HandleNotImplemented(): an
\* answer to a call that is not outstanding is ignored.
HandleResponse(c) ==
  LET msg == Head(wire[c])
  IN  /\ Readable(c)
      /\ msg.type \in {"response", "failed", "not implemented"}
      /\ m_responses' = [m_responses EXCEPT ![c] = @ \ {msg.id}]
      /\ outcome' = IF msg.id \notin m_responses[c] THEN outcome
                    ELSE Completed(c, msg.id, IF msg.type = "response" THEN msg.body
                                              ELSE Failed)
      /\ wire' = Read(c)
      /\ UNCHANGED <<channelVars, m_sequence, m_requests, serving, client, up, dropped,
                     misused>>

-----------------------------------------------------------------------------
(* The serving end.                                                         *)

\* RequestComplete(), SendRequestFailed() and DeleteOutstandingRequest(): what
\* the service made of the request is sent.
RequestComplete(c, type, request, rest) ==
  /\ SendMsg(c, [type |-> type, id |-> request.id, body |-> request.body], rest)
  /\ m_requests' = [m_requests EXCEPT ![c] = @ \ {request.id}]

\* Mutant: a method that does not exist is not answered.
HandleRequestSilent(c) ==
  /\ Readable(c)
  /\ Head(wire[c]).type = "request"
  /\ \/ \E type \in {"response", "failed"} :
          RequestComplete(c, type, Head(wire[c]), Read(c))
     \/ wire' = Read(c) /\ UNCHANGED <<channelVars, m_requests>>
  /\ UNCHANGED <<callVars, serving, client, up, dropped, misused>>

\* HandleRequest() for a method that is answered before it returns, with
\* success or an error, and for one that does not exist.  Without a service, or
\* when the request cannot be parsed, nothing is answered and nothing is kept.
HandleRequest(c) ==
  /\ Readable(c)
  /\ Head(wire[c]).type = "request"
  /\ \/ /\ \E type \in {"response", "failed", "not implemented"} :
               RequestComplete(c, type, Head(wire[c]), Read(c))
        /\ UNCHANGED dropped
     \/ /\ dropped' = dropped \cup {<<Peer(c), Head(wire[c]).id>>}
        /\ wire' = Read(c)
        /\ UNCHANGED <<channelVars, m_requests>>
  /\ misused' = misused \cup Uses(c, "channel")
  /\ UNCHANGED <<callVars, serving, client, up>>

\* ForceDiscovery(), RDMCommand() and RDMDiscoveryCommand() go by way of the
\* ClientBroker and are answered later.
HandleRDMRequest(s) ==
  LET c == <<s, "server">>
      msg == Head(wire[c])
  IN  /\ Readable(c)
      /\ msg.type = "request"
      /\ m_requests' = [m_requests EXCEPT ![c] = @ \cup {msg.id}]
      /\ serving' = serving \cup {[chan |-> c, id |-> msg.id, body |-> msg.body,
                                   client |-> client[s]]}
      /\ wire' = Read(c)
      /\ UNCHANGED <<channelVars, callVars, client, up, dropped, misused>>

\* A streaming request is handled or ignored, and answered only if there is no
\* such method.
HandleStreamRequest(c) ==
  /\ Readable(c)
  /\ Head(wire[c]).type = "stream"
  /\ \/ wire' = Read(c) /\ UNCHANGED channelVars
     \/ SendMsg(c, [type |-> "not implemented", id |-> Head(wire[c]).id,
                    body |-> Head(wire[c]).body], Read(c))
  /\ misused' = misused \cup Uses(c, "channel")
  /\ UNCHANGED <<callVars, m_requests, serving, client, up, dropped>>

\* DescriptorReady() of a client whose send has failed, and which is still in its
\* SelectServer: ReadHeader() dereferences NULL, and the client's process ends.
ReadWithoutDescriptor(s) ==
  LET c == <<s, "client">>
  IN  /\ c \in polled
      /\ channel[c] = "failed"
      /\ wire[c] # <<>>
      /\ channel' = [channel EXCEPT ![c] = "deleted"]
      /\ polled' = polled \ {c}
      /\ UNCHANGED <<m_on_close, m_connected_sockets, cleanup, m_clients, removed,
                     callVars, wire, m_requests, serving, client, up, dropped, misused>>

\* Mutant: the broker does not look whether the client still exists.
KeyExistsAlways(r) == TRUE

\* The ClientBroker's test, which knows a Client by its address.
KeyExists(r) == r.client \in m_clients

\* ClientBroker::RequestComplete() and DiscoveryComplete(): the RDM request or
\* the discovery has ended.
RDMComplete(r) ==
  /\ r \in serving
  /\ serving' = serving \ {r}
  /\ IF KeyExists(r)
     THEN /\ RequestComplete(r.chan, "response", r, wire)
          /\ misused' = misused \cup Uses(r.chan, "answer")
     ELSE UNCHANGED <<channelVars, wire, m_requests, misused>>
  /\ UNCHANGED <<callVars, client, up, dropped>>

-----------------------------------------------------------------------------
(* Connections.                                                             *)

\* The addresses of the Client objects that exist.
Allocated == {client[s] : s \in {t \in Session : removed[t] = 0}}

\* A client connects: RpcServer::AddClient() and OlaServer::NewClient(), with the
\* new Client at any free address.  Nobody looks whether the SelectServer took
\* the descriptor.
AddClient(s) ==
  /\ up
  /\ channel[<<s, "server">>] = "none"
  /\ \E a \in Address \ Allocated :
       /\ client' = [client EXCEPT ![s] = a]
       /\ m_clients' = m_clients \cup {a}
  /\ channel' = [c \in Chan |-> IF c[1] = s THEN "open" ELSE channel[c]]
  /\ m_on_close' = m_on_close \cup {c \in Chan : c[1] = s}
  /\ \E ends \in {End, {"client"}} : polled' = polled \cup ({s} \X ends)
  /\ m_connected_sockets' = m_connected_sockets \cup {s}
  /\ UNCHANGED <<callVars, wire, m_requests, serving, cleanup, removed, up, dropped,
                 misused>>

\* The descriptor is closed: a client stops, or a message is too large.
Close(c) ==
  /\ channel[c] = "open"
  /\ c[2] = "server" => c \in polled
  /\ channel' = [channel EXCEPT ![c] = "closed"]
  /\ UNCHANGED <<m_on_close, polled, m_connected_sockets, cleanup, m_clients, removed,
                 callVars, wire, m_requests, serving, client, up, dropped, misused>>


\* The end of the stream: the peer has closed its descriptor and everything has
\* been read, or it is the channel's own that is closed.
Ended(c) ==
  \/ channel[c] = "closed"
  \/ /\ channel[c] \in {"open", "failed"}
     /\ wire[c] = <<>>
     /\ channel[Peer(c)] \in {"closed", "deleted"}

\* The SelectServer takes a closed descriptor out and runs its OnClose callback.
OnClose(c) ==
  /\ c \in polled
  /\ Ended(c)
  /\ HandleChannelClose(c, polled \ {c})
  /\ UNCHANGED <<channel, callVars, wire, m_requests, serving, client, up, dropped,
                 misused>>

\* The SelectServer runs CleanupChannel(): channel and descriptor are deleted.
CleanupChannel(s) ==
  /\ s \in cleanup
  /\ cleanup' = cleanup \ {s}
  /\ channel' = [channel EXCEPT ![<<s, "server">>] = "deleted"]
  /\ misused' = IF channel[<<s, "server">>] = "deleted"
                THEN misused \cup {<<s, "channel">>} ELSE misused
  /\ UNCHANGED <<m_on_close, polled, m_connected_sockets, m_clients, removed,
                 callVars, wire, m_requests, serving, client, up, dropped>>

\* ~RpcServer() runs the OnClose callbacks of all connections, and what they
\* have queued.
Destroy ==
  /\ up
  /\ up' = FALSE
  /\ LET ends == m_connected_sockets \X {"server"}
         deleted == IF ends = {} THEN {} ELSE ends \cup (cleanup \X {"server"})
     IN  /\ m_clients' = m_clients \ {client[s] : s \in m_connected_sockets}
         /\ removed' = [s \in Session |->
                          removed[s] + IF s \in m_connected_sockets THEN 1 ELSE 0]
         /\ m_on_close' = m_on_close \ ends
         /\ polled' = polled \ ends
         /\ cleanup' = IF ends = {} THEN cleanup ELSE {}
         /\ channel' = [c \in Chan |-> IF c \in deleted THEN "deleted" ELSE channel[c]]
         /\ misused' = misused \cup
              {<<s, "channel">> : s \in {t \in m_connected_sockets :
                                            <<t, "server">> \notin m_on_close}}
  /\ m_connected_sockets' = {}
  /\ UNCHANGED <<callVars, wire, m_requests, serving, client, dropped>>

-----------------------------------------------------------------------------
Reads(c) ==
  \/ HandleResponse(c)
  \/ HandleRequest(c)
  \/ HandleStreamRequest(c)
  \/ c[2] = "server" /\ HandleRDMRequest(c[1])
  \/ c[2] = "client" /\ ReadWithoutDescriptor(c[1])

Next ==
  \/ \E s \in Session : AddClient(s) \/ CallStreaming(s) \/ CleanupChannel(s)
  \/ \E c \in Chan : CallMethod(c) \/ Reads(c) \/ Close(c) \/ OnClose(c)
  \/ \E r \in serving : RDMComplete(r)
  \/ Destroy

Spec == Init /\ [][Next]_vars

\* The event loops read what is there to read, see closed descriptors and run
\* their callbacks, and RDM requests come to an end.
FairSpec ==
  /\ Spec
  /\ \A c \in Chan : WF_vars(Reads(c)) /\ WF_vars(OnClose(c))
  /\ \A s \in Session : WF_vars(CleanupChannel(s))
  /\ \A s \in Session, id \in 1..MaxCalls :
       WF_vars(\E r \in serving : r.chan[1] = s /\ r.id = id /\ RDMComplete(r))

-----------------------------------------------------------------------------
(* Properties.                                                              *)

\* RpcChannel: the callback of a call is run at most once, with the answer to
\* that call or as failed, in whatever order the answers come in.
OwnReply ==
  \A c \in Chan : \A id \in DOMAIN outcome[c] :
    /\ Len(outcome[c][id]) <= 1
    /\ Len(outcome[c][id]) = 1 => outcome[c][id][1] \in {id, Failed}

\* "the callback to run if the key still exists" (ClientBroker.cpp): the answer
\* of a slow RDM request reaches a channel that has been deleted meanwhile only
\* if another session's Client has been put at the address that the broker knows
\* the request by.  "We schedule deletion during the next run of the event loop
\* to break out of the stack" (RpcServer.cpp): no channel is deleted inside a
\* call that goes on to use it, or deleted twice, and a session ends once,
\* whether a descriptor closes, a message cannot be sent, the server is
\* destroyed, or all of them.  Its Client is deleted inside a call that goes on
\* to use it only by the failure of the Client's own send.  The server does not
\* read from a channel that has lost its descriptor.
NoUseAfterDelete ==
  \A s \in Session :
    LET c == <<s, "server">>
    IN  /\ removed[s] <= 1
        /\ <<s, "channel">> \notin misused
        /\ <<s, "answer">> \in misused => \E t \in Session \ {s} : client[t] = client[s]
        /\ <<s, "client">> \in misused => channel[c] \in {"failed", "deleted"}
        /\ channel[c] = "failed" => c \notin polled

\* A call is answered unless its connection is lost, or was never read by the
\* server, or the other end has read the call and could make nothing of it.
CallsComplete ==
  \A c \in Chan, id \in 1..MaxCalls :
    id \in m_responses[c]
      ~> \/ id \notin m_responses[c]
         \/ \E e \in End : channel[<<c[1], e>>] # "open" \/ <<c[1], e>> \notin polled
         \/ <<c, id>> \in dropped

=============================================================================
