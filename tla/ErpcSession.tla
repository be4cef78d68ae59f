----------------------------- MODULE ErpcSession -----------------------------
(***************************************************************************)
(* eRPC's sessions and RPCs over UBTransport: clients create sessions,     *)
(* send requests, retransmit them, destroy the sessions or themselves, and *)
(* may come back as a new incarnation; servers accept sessions, run each   *)
(* request's handler once, re-send responses, and bury sessions.           *)
(*                                                                         *)
(* Session-management packets are UDP: `udp' is the set of all that were   *)
(* ever sent, so each may be lost, duplicated, delayed and reordered.  A   *)
(* session has one sslot, whose request numbers are 1, 2, ...; a client    *)
(* has one session at a time, a server lives forever.  The timing wheel,   *)
(* credits and background threads only delay steps.                        *)
(***************************************************************************)
EXTENDS UBTransport

CONSTANTS
  Client,         \* the endpoints that create sessions; the others are servers
  Unmappable,     \* the endpoints that may fail to map another machine
  RequestBlock,   \* the block of a client's request MsgBuffer, or NoBlock
  MaxSessions,    \* bound: sessions of one incarnation of a client
  MaxRequests,    \* bound: requests on one session
  MaxRetries      \* bound: retransmissions on one session

ASSUME SessionAssumption ==
  /\ Client \subseteq Endpoint /\ Unmappable \subseteq Endpoint
  /\ RequestBlock \in Block \cup {NoBlock}
  /\ MaxSessions \in Nat /\ MaxRequests \in Nat /\ MaxRetries \in Nat

VARIABLES
  made,      \* how many sessions this incarnation of a client has created
  csess,     \* the session of each client
  ssess,     \* session_vec_ of each server
  udp,       \* session-management packets
  ring,      \* packets that rx_burst handed up and process_comps_st has not seen
  content    \* history: the response that was last written to each block

layer == <<made, csess, ssess, udp, ring, content>>
vars == <<transport, layer>>

Server == Endpoint \ Client

\* A client's session; `pending' is whether it is in sm_pending_reqs_, `cont' whether its
\* continuation is running with packets left to process, and `answer' is history: the
\* response of the last continuation.
NoSession == [num |-> 0, state |-> "none", pending |-> FALSE,
              server |-> NoEndpoint, snum |-> 0, gen |-> 0,
              req |-> 0, waiting |-> FALSE, retries |-> 0, answer |-> <<>>,
              resp |-> NoBlock, adopted |-> 0, cont |-> FALSE]

Init ==
  /\ TransportInit
  /\ made = [c \in Client |-> 0]
  /\ csess = [c \in Client |-> NoSession]
  /\ ssess = [s \in Server |-> <<>>]
  /\ udp = {}
  /\ ring = [e \in Endpoint |-> <<>>]
  /\ content = [e \in Endpoint |-> [b \in Block |-> <<>>]]

\* The thread is in the event loop, outside process_comps_st.
Ready(e) == At(e, "idle") /\ ring[e] = <<>>

\* The client's application runs: outside the event loop, or in a continuation.
InApplication(c) == At(c, "idle") /\ (ring[c] = <<>> \/ csess[c].cont)

\* A session's uniq_token_ is as good as its client, that client's incarnation and its
\* session number.
Token(c) == <<c, entry[c].generation, csess[c].num>>
Packet(type, token, server, snum, gen) ==
  [type |-> type, token |-> token, server |-> server, snum |-> snum, gen |-> gen]

\* Mutant of ForSession: the session's number is not looked at.
ForAnySession(m, c) == m.token[1] = c /\ csess[c].state # "none"

\* Mutant of ForSession: a session that is being closed gets no responses any more.
ForOpenSession(m, c) ==
  m.token[1] = c /\ csess[c].state \in {"connecting", "connected"} /\ m.token[3] = csess[c].num

\* A response is for the session with its number, if that is still in session_vec_; the
\* token is not compared.
ForSession(m, c) == m.token[1] = c /\ csess[c].state # "none" /\ m.token[3] = csess[c].num

\* resolve_remote_routing_info fails, because the endpoint is gone or its machine cannot
\* be mapped.
MayNotResolve(e, p, gen) ==
  ~CanEnsure(e, p, gen) \/ (e \in Unmappable /\ ~Cached(e, p, gen))

-----------------------------------------------------------------------------
\* The client's side of session management

\* create_session_st.  The application's request buffer lives as long as the session.
CreateSession(c, s) ==
  /\ Ready(c)
  /\ csess[c].state = "none" /\ made[c] < MaxSessions
  /\ IF RequestBlock = NoBlock THEN UNCHANGED block
     ELSE CanAlloc(c, RequestBlock) /\ block' = Alloc(c, RequestBlock)
  /\ RegisterRxPeer(c, s)
  /\ made' = [made EXCEPT ![c] = @ + 1]
  /\ csess' = [csess EXCEPT ![c] = [NoSession EXCEPT !.num = made[c] + 1,
                                      !.state = "connecting", !.pending = TRUE,
                                      !.server = s]]
  /\ udp' = udp \cup {Packet("connect", <<c, entry[c].generation, made[c] + 1>>, s, 0, 0)}
  /\ UNCHANGED <<entry, queue, up, failed, remote, pend, call, ssess, ring, content>>

BuryClientSession(c) ==
  /\ UnregisterRxPeer(c, csess[c].server, Free(block, c, RequestBlock))
  /\ csess' = [csess EXCEPT ![c] = NoSession]

\* handle_connect_resp_st.  Every response first takes its session out of
\* sm_pending_reqs_ (handle_sm_rx_st); the disconnect request puts it in again.
HandleConnectResp(c, m) ==
  /\ Ready(c)
  /\ ForSession(m, c) /\ csess[c].state = "connecting" /\ csess[c].server = m.server
  /\ \/ /\ m.type = "refused"
        /\ BuryClientSession(c)
        /\ UNCHANGED udp
     \/ /\ m.type = "accepted" /\ CanEnsure(c, m.server, m.gen)
        /\ Resolve(c, m.server, m.gen)
        /\ csess' = [csess EXCEPT ![c].state = "connected", ![c].pending = FALSE,
                                  ![c].snum = m.snum, ![c].gen = m.gen]
        /\ UNCHANGED <<block, pend, rx, udp>>
     \/ /\ m.type = "accepted" /\ MayNotResolve(c, m.server, m.gen)
        /\ csess' = [csess EXCEPT ![c].state = "closing", ![c].pending = TRUE, ![c].snum = m.snum]
        /\ udp' = udp \cup {Packet("disconnect", Token(c), m.server, m.snum, 0)}
        /\ UNCHANGED <<block, remote, pend, rx>>
  /\ UNCHANGED <<entry, queue, up, failed, call, made, ssess, ring, content>>

\* A connect response that the session no longer waits for is ignored, but it too takes
\* the session out of sm_pending_reqs_, and with it the disconnect request.
IgnoreConnectResp(c, m) ==
  /\ Ready(c)
  /\ m.type \in {"accepted", "refused"} /\ ForSession(m, c) /\ csess[c].state # "connecting"
  /\ csess' = [csess EXCEPT ![c].pending = FALSE]
  /\ UNCHANGED <<transport, made, ssess, udp, ring, content>>

\* destroy_session_st, from the application or from a continuation: every request has its
\* response, and the application has freed the one it adopted.
DestroySession(c) ==
  /\ InApplication(c)
  /\ csess[c].state = "connected" /\ ~csess[c].waiting /\ csess[c].resp = NoBlock
  /\ PrepareDisconnect(c, csess[c].server)
  /\ csess' = [csess EXCEPT ![c].state = "closing", ![c].pending = TRUE]
  /\ udp' = udp \cup {Packet("disconnect", Token(c), csess[c].server, csess[c].snum, 0)}
  /\ UNCHANGED <<entry, queue, up, failed, rx, call, made, ssess, ring, content>>

\* handle_disconnect_resp_st, which asserts that the session is closing.
HandleDisconnectResp(c, m) ==
  /\ Ready(c)
  /\ m.type = "disconnected" /\ ForSession(m, c)
  /\ IF csess[c].state = "closing"
       THEN BuryClientSession(c) /\ UNCHANGED failed
       ELSE /\ failed' = failed \cup {c}
            /\ csess' = [csess EXCEPT ![c].pending = FALSE]
            /\ UNCHANGED <<block, remote, pend, rx>>
  /\ UNCHANGED <<entry, queue, up, call, made, ssess, udp, ring, content>>

-----------------------------------------------------------------------------
\* The server's side of session management

Seen(s, token) == \E i \in DOMAIN ssess[s] : ssess[s][i].token = token

\* Out of memory: no block for the session's response buffer.
Exhausted(s) == \A b \in Block : block[s][b].refs # 0

\* handle_connect_req_st.  A duplicate changes nothing: the first answer is still in udp.
HandleConnectReq(s, m) ==
  /\ Ready(s)
  /\ m.type = "connect" /\ m.server = s /\ ~Seen(s, m.token)
  /\ LET c == m.token[1]
         gen == m.token[2]
         answer(type, snum) == udp' = udp \cup {Packet(type, m.token, s, snum, entry[s].generation)}
     IN \/ /\ MayNotResolve(s, c, gen)
           /\ answer("refused", 0)
           /\ UNCHANGED <<block, remote, rx, ssess>>
        \/ /\ CanEnsure(s, c, gen) /\ Exhausted(s)
           /\ Resolve(s, c, gen)
           /\ answer("refused", 0)
           /\ UNCHANGED <<block, rx, ssess>>
        \/ \E b \in Block :
             /\ CanEnsure(s, c, gen) /\ CanAlloc(s, b)
             /\ Resolve(s, c, gen)
             /\ block' = Alloc(s, b)
             /\ RegisterRxPeer(s, c)
             /\ ssess' = [ssess EXCEPT ![s] = Append(@,
                  [token |-> m.token, live |-> TRUE, req |-> 0, busy |-> FALSE,
                   done |-> FALSE, held |-> NoBlock, resp |-> b, runs |-> 0])]
             /\ answer("accepted", Len(ssess[s]) + 1)
  /\ UNCHANGED <<entry, queue, up, failed, pend, call, made, csess, ring, content>>

\* handle_disconnect_req_st.  For a buried session the answer is in udp already.
HandleDisconnectReq(s, m) ==
  /\ Ready(s)
  /\ m.type = "disconnect" /\ m.server = s /\ ssess[s][m.snum].live
  /\ LET S == ssess[s][m.snum]
         c == S.token[1]
     IN /\ UnregisterRxPeer(s, c, Free(Free(block, c, S.held), s, S.resp))
        /\ ssess' = [ssess EXCEPT ![s][m.snum] =
                       [S EXCEPT !.live = FALSE, !.busy = FALSE, !.held = NoBlock, !.resp = NoBlock]]
  /\ udp' = udp \cup {Packet("disconnected", m.token, s, m.snum, 0)}
  /\ UNCHANGED <<entry, queue, up, failed, call, made, csess, ring, content>>

-----------------------------------------------------------------------------
\* Requests

RequestHdr(c) == [kind |-> "req", to |-> csess[c].snum, num |-> csess[c].req, token |-> Token(c)]
ResponseHdr(s, i) ==
  [kind |-> "resp", to |-> ssess[s][i].token[3], num |-> ssess[s][i].req,
   token |-> ssess[s][i].token]

\* tx_burst with one packet, or the exception it throws.  `blocks' is the blocks as the
\* caller leaves them, `thrown' as they are if there is an exception.
Transmit(e, p, gen, b, hdr, blocks, thrown) ==
  IF CanEnsure(e, p, gen) THEN TxBurst(e, p, gen, b, hdr, blocks)
  ELSE TxUnavailable(e, p, gen, thrown)

\* enqueue_request and kick_req_st, then the transmission.
EnqueueRequest(c) ==
  /\ ring[c] = <<>>
  /\ csess[c].state = "connected" /\ ~csess[c].waiting /\ csess[c].req < MaxRequests
  /\ csess' = [csess EXCEPT ![c].req = @ + 1, ![c].waiting = TRUE]
  /\ Transmit(c, csess[c].server, csess[c].gen, RequestBlock,
              [RequestHdr(c) EXCEPT !.num = @ + 1], block, block)
  /\ UNCHANGED <<made, ssess, udp, ring, content>>

\* pkt_loss_scan_st finds the RTO over, however early.
Retransmit(c) ==
  /\ ring[c] = <<>>
  /\ csess[c].state = "connected" /\ csess[c].waiting /\ csess[c].retries < MaxRetries
  /\ csess' = [csess EXCEPT ![c].retries = @ + 1]
  /\ Transmit(c, csess[c].server, csess[c].gen, RequestBlock, RequestHdr(c), block, block)
  /\ UNCHANGED <<made, ssess, udp, ring, content>>

-----------------------------------------------------------------------------
\* process_comps_st, one packet

Arrived(e, kind) == ring[e] # <<>> /\ Head(ring[e]).hdr.kind = kind
Processed(e) == ring' = [ring EXCEPT ![e] = Tail(@)]

\* The packet's payload reference is given back; the block's machine has to be mapped.
ReleasePacket(e) ==
  LET d == Head(ring[e]) IN
    IF d.block = NoBlock \/ remote[e][d.src].mapped
      THEN block' = Free(block, d.src, d.block) /\ UNCHANGED failed
      ELSE failed' = failed \cup {e} /\ UNCHANGED block

Discard(e) ==
  /\ At(e, "idle")
  /\ ReleasePacket(e)
  /\ Processed(e)
  /\ UNCHANGED <<entry, queue, up, remote, pend, rx, call, made, ssess, udp, content>>

\* The packet's server session is connected.
ServerSession(s) ==
  LET i == Head(ring[s]).hdr.to IN i \in DOMAIN ssess[s] /\ ssess[s][i].live

\* Mutant of Stale: the current request is not told from a new one.
StaleIfOlder(S, num) == num < S.req

\* process_small_req_st has seen the request, and has no response to send again.
Stale(S, num) == num < S.req \/ (num = S.req /\ ~S.done)

DiscardRequest(s) ==
  /\ Arrived(s, "req")
  /\ ServerSession(s) =>
       LET h == Head(ring[s]).hdr IN Stale(ssess[s][h.to], h.num)
  /\ Discard(s)
  /\ UNCHANGED csess

\* A retransmission of the current request: its response is sent again.
ResendResponse(s) ==
  /\ Arrived(s, "req") /\ ServerSession(s)
  /\ LET d == Head(ring[s])
         S == ssess[s][d.hdr.to]
     IN /\ d.hdr.num = S.req /\ S.done
        /\ Transmit(s, S.token[1], S.token[2], S.resp, ResponseHdr(s, d.hdr.to),
                    Free(block, d.src, d.block), block)
  /\ Processed(s)
  /\ UNCHANGED <<made, csess, ssess, udp, content>>

\* A new request, whose handler is called; it holds the request's payload until it
\* enqueues the response.
AcceptRequest(s) ==
  /\ At(s, "idle")
  /\ Arrived(s, "req") /\ ServerSession(s)
  /\ LET d == Head(ring[s])
         S == ssess[s][d.hdr.to]
     IN /\ ~Stale(S, d.hdr.num) /\ ~(d.hdr.num = S.req /\ S.done)
        /\ ssess' = [ssess EXCEPT ![s][d.hdr.to] =
             [S EXCEPT !.req = d.hdr.num, !.busy = TRUE, !.done = FALSE, !.held = d.block,
                       !.runs = S.runs + 1]]
  /\ Processed(s)
  /\ UNCHANGED <<transport, made, csess, udp, content>>

\* bury_req_msgbuf_server_st
BuryRequest(s, i) == Free(block, ssess[s][i].token[1], ssess[s][i].held)

\* The handler writes the response and calls enqueue_response.
EnqueueResponse(s, i) ==
  /\ ring[s] = <<>>
  /\ i \in DOMAIN ssess[s] /\ ssess[s][i].live /\ ssess[s][i].busy
  /\ LET S == ssess[s][i] IN
       /\ Transmit(s, S.token[1], S.token[2], S.resp, ResponseHdr(s, i),
                   BuryRequest(s, i), BuryRequest(s, i))
       /\ content' = [content EXCEPT ![s][S.resp] = <<S.token, S.req>>]
       /\ ssess' = [ssess EXCEPT ![s][i] =
            [S EXCEPT !.busy = FALSE, !.done = TRUE, !.held = NoBlock]]
  /\ UNCHANGED <<made, csess, udp, ring>>

\* Mutant of InOrder: any response of the session will do.
AnyOrder(c, h) == csess[c].waiting

\* in_order_client
InOrder(c, h) == h.num = csess[c].req /\ csess[c].waiting

ForClient(c) ==
  LET h == Head(ring[c]).hdr IN
    csess[c].state = "connected" /\ h.to = csess[c].num /\ InOrder(c, h)

DiscardResponse(c) ==
  /\ Arrived(c, "resp") /\ ~ForClient(c)
  /\ Discard(c)
  /\ csess' = [csess EXCEPT ![c].cont = FALSE]

\* process_resp_one_st, and the continuation: the payload is adopted by an empty response
\* MsgBuffer, or copied.
AcceptResponse(c) ==
  /\ At(c, "idle")
  /\ Arrived(c, "resp") /\ ForClient(c)
  /\ LET d == Head(ring[c]) IN
       \/ /\ csess[c].resp = NoBlock
          /\ csess' = [csess EXCEPT ![c].waiting = FALSE, ![c].cont = Len(ring[c]) > 1,
                                    ![c].answer = <<d.hdr.token, d.hdr.num>>,
                                    ![c].resp = d.block, ![c].adopted = d.hdr.num]
          /\ UNCHANGED <<block, failed>>
       \/ /\ ReleasePacket(c)
          /\ csess' = [csess EXCEPT ![c].waiting = FALSE, ![c].cont = Len(ring[c]) > 1,
                                    ![c].answer = <<d.hdr.token, d.hdr.num>>]
  /\ Processed(c)
  /\ UNCHANGED <<entry, queue, up, remote, pend, rx, call, made, ssess, udp, content>>

\* The application frees the response that it adopted.
FreeResponse(c) ==
  /\ InApplication(c)
  /\ csess[c].resp # NoBlock
  /\ block' = Free(block, csess[c].server, csess[c].resp)
  /\ csess' = [csess EXCEPT ![c].resp = NoBlock]
  /\ UNCHANGED <<entry, queue, up, failed, remote, pend, rx, call, made, ssess, udp, ring, content>>

-----------------------------------------------------------------------------
\* The Rpc object

Begin(e) == Construct(e) /\ UNCHANGED layer

\* ~Rpc of a client, which has its responses and has freed its buffers; its session may
\* still be open.
DestroyRpc(c) ==
  /\ ring[c] = <<>> /\ ~csess[c].waiting /\ csess[c].resp = NoBlock
  /\ Destroy(c, IF csess[c].state = "none" THEN block ELSE Free(block, c, RequestBlock))
  /\ made' = [made EXCEPT ![c] = 0]
  /\ csess' = [csess EXCEPT ![c] = NoSession]
  /\ UNCHANGED <<ssess, udp, ring, content>>

Drain(e) == (BeginDrain(e) \/ DrainCheck(e) \/ DrainPush(e) \/ TxFlush(e)) /\ UNCHANGED layer

BeginPoll(e) == ring[e] = <<>> /\ RxBegin(e) /\ UNCHANGED layer

Receive(e, s) ==
  /\ RxDequeue(e, s)
  /\ ring' = [ring EXCEPT ![e] = IF RxAccepts(e, s) THEN Append(@, RxHead(e, s)) ELSE @]
  /\ UNCHANGED <<made, csess, ssess, udp, content>>

Poll(e) == (RxEmpty(e) /\ UNCHANGED layer) \/ (\E s \in Endpoint : Receive(e, s))

ClientStep(c) ==
  \/ \E s \in Server : CreateSession(c, s)
  \/ \E m \in udp :
       HandleConnectResp(c, m) \/ IgnoreConnectResp(c, m) \/ HandleDisconnectResp(c, m)
  \/ DestroySession(c) \/ EnqueueRequest(c) \/ Retransmit(c)
  \/ DiscardResponse(c) \/ AcceptResponse(c) \/ FreeResponse(c) \/ DestroyRpc(c)

ServerStep(s) ==
  \/ \E m \in udp : HandleConnectReq(s, m) \/ HandleDisconnectReq(s, m)
  \/ DiscardRequest(s) \/ ResendResponse(s) \/ AcceptRequest(s)
  \/ \E i \in DOMAIN ssess[s] : EnqueueResponse(s, i)

Next ==
  \/ \E e \in Endpoint : Begin(e) \/ Drain(e) \/ BeginPoll(e) \/ Poll(e)
  \/ \E c \in Client : ClientStep(c)
  \/ \E s \in Server : ServerStep(s)

Spec == Init /\ [][Next]_vars

\* The event loops of both sides keep running: they drain, poll and process what arrived,
\* and the handler enqueues its response.
Processing(e) ==
  \/ Drain(e) \/ Poll(e)
  \/ e \in Client /\ (DiscardResponse(e) \/ AcceptResponse(e))
  \/ e \in Server /\ (DiscardRequest(e) \/ ResendResponse(e) \/ AcceptRequest(e))

\* pkt_loss_scan_st sends the disconnect request of a session again and again while it is
\* pending, and the server answers each: one of them arrives, and one of the answers.
\* Nothing is sent again for a session that is not pending.
DisconnectDelivered(c, s) ==
  csess[c].pending /\ \E m \in udp : m.token = Token(c) /\ HandleDisconnectReq(s, m)
AnswerDelivered(c) == csess[c].pending /\ \E m \in udp : HandleDisconnectResp(c, m)

FairSpec ==
  /\ Spec
  /\ \A e \in Endpoint : WF_vars(Processing(e)) /\ SF_vars(BeginPoll(e))
  /\ \A s \in Server : SF_vars(\E i \in DOMAIN ssess[s] : EnqueueResponse(s, i))
  /\ \A c \in Client :
       SF_vars(AnswerDelivered(c)) /\ \A s \in Server : SF_vars(DisconnectDelivered(c, s))

-----------------------------------------------------------------------------
\* Properties

\* The state stays within its types; no reference count is taken below zero (the
\* allocator would throw "refcount underflow").
TypeOK ==
  /\ \A e \in Endpoint, b \in Block : block[e][b].refs \in Nat
  /\ \A c \in Client :
       /\ made[c] \in 0 .. MaxSessions /\ csess[c].num \in 0 .. made[c]
       /\ csess[c].state \in {"none", "connecting", "connected", "closing"}
       /\ csess[c].req \in 0 .. MaxRequests /\ csess[c].retries \in 0 .. MaxRetries
  /\ \A s \in Server : \A i \in DOMAIN ssess[s] :
       /\ ssess[s][i].req \in 0 .. MaxRequests
       /\ ssess[s][i].live <=> ssess[s][i].resp # NoBlock
       /\ {ssess[s][i].held, ssess[s][i].resp} \subseteq Block \cup {NoBlock}
  /\ failed \subseteq up

\* Who uses block b of e: its MsgBuffer, the descriptors under way, the packets that were
\* received, the handlers that read it as their request, the application that adopted it.
References(e, b) ==
  PendingOf(e, b) \cup PublishedOf(e, b)
  \cup {<<"buffer", c, 1>> : c \in {d \in Client \cap {e} : csess[d].state # "none" /\ RequestBlock = b}}
  \cup {<<"response", e, i>> : i \in IF e \in Client THEN {}
          ELSE {j \in DOMAIN ssess[e] : ssess[e][j].resp = b}}
  \cup UNION {{<<"packet", p, i>> : i \in {j \in DOMAIN ring[p] :
          ring[p][j].src = e /\ ring[p][j].block = b}} : p \in Endpoint}
  \cup UNION {{<<"handler", s, i>> : i \in {j \in DOMAIN ssess[s] :
          ssess[s][j].token[1] = e /\ ssess[s][j].held = b}} : s \in Server}
  \cup {<<"adopted", c, 1>> : c \in {d \in Client : csess[d].server = e /\ csess[d].resp = b}}

\* A payload is not freed, and its block reused, while somebody uses it: the reference
\* count covers all of them, through retransmissions, duplicate responses, dropped
\* packets and the end of the session, and is never taken below zero.
ReferencesCovered ==
  /\ TypeOK
  /\ \A e \in Endpoint, b \in Block : block[e][b].refs >= Cardinality(References(e, b))

\* Every reference belongs to somebody who will give it back: the README promises that
\* also a packet dropped on an error path releases its reference.
ReferencesAccounted ==
  \A e \in Endpoint, b \in Block : block[e][b].refs <= Cardinality(References(e, b))

\* The handler has run exactly once for each request up to the current one, although
\* requests are retransmitted and arrive again before and after their response.
HandlerRunsOnce ==
  \A s \in Server : \A i \in DOMAIN ssess[s] : ssess[s][i].runs = ssess[s][i].req

\* The continuation of a request is called with the response to this very request of this
\* very session, not with a duplicate response to an earlier one.
AnsweredByItsResponse ==
  \A c \in Client : csess[c].state = "connected" /\ csess[c].req > 0 /\ ~csess[c].waiting =>
    csess[c].answer = <<Token(c), csess[c].req>>

\* When the disconnect response arrives, the server has given up its mapping of the
\* client's machine: the client can delete its region (handle_disconnect_req_st).  A
\* connect request that the server refused is an exception: its duplicate may be accepted
\* later, and then the server has a session, and a mapping, that nobody will close.
DisconnectedIsUnmapped ==
  [][\A c \in Client \cap up' : csess[c].state = "closing" /\ csess'[c].state = "none" =>
       \/ ~remote[csess[c].server][c].mapped
       \/ \E m \in udp : m.type = "refused" /\ m.token[1] = c /\ m.server = csess[c].server]_vars

\* A response stays what it was while the application owns it: the continuation gives
\* the application the ownership of the response buffer.
ResponseIsOwned ==
  \A c \in Client : csess[c].resp # NoBlock =>
    content[csess[c].server][csess[c].resp] = <<Token(c), csess[c].adopted>>

\* A connected session is connected to the server session that was made for it.
SessionsPaired ==
  \A c \in Client : csess[c].state = "connected" =>
    ssess[csess[c].server][csess[c].snum].token = Token(c)

\* A request is answered, as long as its session lasts.
RequestIsAnswered == \A c \in Client : csess[c].waiting ~> ~csess[c].waiting

\* A session that is being closed goes away, although any of the packets may be lost: the
\* request is sent again, and the server answers for a buried session too.  Two things can
\* prevent it.  A late connect response makes the client forget that the request is
\* under way (IgnoreConnectResp).  Or the thread dies of a response of the same burst as
\* the one whose continuation closed the session, which it releases into memory that
\* destroy_session has unmapped.
DisconnectCompletes ==
  \A c \in Client :
    csess[c].state = "closing"
      ~> (csess[c].state # "closing" \/ ~csess[c].pending \/ c \in failed)
=============================================================================
