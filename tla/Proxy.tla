--------------------------------- MODULE Proxy ---------------------------------
(***************************************************************************)
(* The desktop proxies (cmd/httpproxy.go, cmd/portfw.go, cmd/socks.go) and *)
(* the resolver of the SOCKS proxy (internal/dns.go): what becomes of one  *)
(* accepted connection, and the buffer pool all relays share.              *)
(*                                                                         *)
(* A connection has a client side and a dest side; the goroutine that      *)
(* copies from a side bears its name.  The handler itself copies from      *)
(* "dest", a goroutine it starts copies from "client".  Abstracted: flags, *)
(* the tunnel below (see MasqueTunnel), HTTP headers, the next request on  *)
(* a connection net/http keeps, and what go-socks5 does once a name is     *)
(* resolved.  A peer that neither reads nor goes away is left out: a write *)
(* ends.                                                                   *)
(***************************************************************************)
EXTENDS Integers, Sequences, FiniteSets

CONSTANTS
    Conns,      \* accepted connections
    Asks,       \* what the connections ask for, together: bound of the model
    Servers,    \* the DNS servers of TunnelDNSResolver
    Buffers,    \* the buffers of proxyCopyBufPool
    MaxSent,    \* bound of the model: messages a peer sends
    None        \* no buffer, no message

\* CONNECT, another HTTP request, a forwarded port, a SOCKS name to resolve;
\* and no connection at all.
Kinds == {"connect", "plain", "forward", "socks", "none"}
Sides == {"client", "dest"}
Other(s) == IF s = "client" THEN "dest" ELSE "client"

ASSUME ProxyAssumption ==
    /\ Asks \subseteq [Conns -> Kinds]
    /\ IsFiniteSet(Conns) /\ IsFiniteSet(Servers) /\ IsFiniteSet(Buffers)
    /\ MaxSent \in Nat /\ Cardinality(Buffers) >= 2 * Cardinality(Conns)

VARIABLES
    kind,       \* per connection: what it asks for
    at,         \* per connection: where its handler is
    sock,       \* per side: the proxy's end is "none", "open", "kept" by
                \* net/http for another request, or "closed"
    peer,       \* per side: the other end is "open", "half" closed (its
                \* answer to a plain request is complete) or "gone"
    sent, read, \* per side: messages the peer has sent, and those taken from it
    got,        \* per side: what has arrived there, in order
    lost,       \* per connection: messages of its client that Hijack dropped
    copy,       \* per side: where the copy from it is
    buf,        \* per side: the buffer of that copy
    content,    \* per buffer: the message in it
    pool,       \* the buffers in the pool
    asking,     \* per connection: DNS servers asked that have not answered
    results,    \* per connection: the channel results, TRUE for an address
    failures    \* per connection: failures received from it

peers == <<sock, peer, sent, read, got, lost>>
copies == <<copy, buf, content, pool>>
dns == <<asking, results, failures>>
vars == <<kind, at, peers, copies, dns>>

PerSide(x) == [c \in Conns |-> [s \in Sides |-> x]]

Init ==
    /\ kind \in Asks
    /\ at = [c \in Conns |-> "idle"]
    /\ sock = PerSide("none") /\ peer = PerSide("open")
    /\ sent = PerSide(0) /\ read = PerSide(0) /\ got = PerSide(<<>>)
    /\ lost = [c \in Conns |-> 0]
    /\ copy = PerSide("none") /\ buf = PerSide(None)
    /\ content = [b \in Buffers |-> None] /\ pool = Buffers
    /\ asking = [c \in Conns |-> {}] /\ results = [c \in Conns |-> <<>>]
    /\ failures = [c \in Conns |-> 0]

Goto(c, place) == at' = [at EXCEPT ![c] = place]
Put(f, c, s, x) == [f EXCEPT ![c] = [@ EXCEPT ![s] = x]]
\* The sockets there are get these states.
Settle(c, client, dest) ==
    sock' = [sock EXCEPT ![c] = [s \in Sides |-> IF @[s] = "none" THEN "none"
                                                ELSE IF s = "client" THEN client ELSE dest]]
CloseBoth(c) == Settle(c, "closed", "closed")

-----------------------------------------------------------------------------
(* Up to the relay.                                                        *)

\* The listener accepts.
Accept(c) ==
    /\ at[c] = "idle" /\ kind[c] \notin {"socks", "none"}
    /\ sock' = Put(sock, c, "client", "open") /\ Goto(c, "dial")
    /\ UNCHANGED <<kind, peer, sent, read, got, lost, copies, dns>>

\* The SOCKS server accepts, and asks its resolver for the name, which fails at
\* once when it has no servers.
AcceptSocks(c) ==
    /\ at[c] = "idle" /\ kind[c] = "socks"
    /\ sock' = Put(sock, c, "client", "open")
    /\ Goto(c, IF Servers = {} THEN "unresolved" ELSE "resolve")
    /\ asking' = [asking EXCEPT ![c] = Servers]
    /\ UNCHANGED <<kind, peer, sent, read, got, lost, copies, results, failures>>

\* resolver.LookupIP, if the proxy has one, and DialContext.
Dial(c) ==
    /\ at[c] = "dial" /\ sock' = Put(sock, c, "dest", "open") /\ Goto(c, "start")
    /\ UNCHANGED <<kind, peer, sent, read, got, lost, copies, dns>>

\* authenticate or the parsing of the address refuses, or the lookup or the
\* dial fails, both of which a plain request leaves to Do, as the sending.  A
\* forwarded connection is closed; that of an HTTP request goes back to the
\* server, which keeps it.
GiveUp(c) ==
    /\ \/ at[c] = "dial"
       \/ at[c] = "start" /\ kind[c] = "plain"
    /\ Goto(c, "over") /\ Settle(c, IF kind[c] = "forward" THEN "closed" ELSE "kept", "closed")
    /\ UNCHANGED <<kind, peer, sent, read, got, lost, copies, dns>>

\* Hijack fails, and the server keeps the client, or the client cannot be told.
HijackFails(c) ==
    /\ at[c] = "start" /\ kind[c] = "connect" /\ Goto(c, "over")
    /\ \E client \in {"kept", "closed"} : Settle(c, client, "closed")
    /\ UNCHANGED <<kind, peer, sent, read, got, lost, copies, dns>>

\* The client of CONNECT is taken from the server, and told.  The reader that
\* Hijack returns, with what it has already read of the client, is dropped.
Hijack(c) ==
    /\ at[c] = "start" /\ kind[c] = "connect" /\ Goto(c, "relay")
    /\ \E n \in 0 .. sent[c]["client"] :
          lost' = [lost EXCEPT ![c] = n] /\ read' = Put(read, c, "client", n)
    /\ copy' = [copy EXCEPT ![c] = [s \in Sides |-> "get"]]
    /\ UNCHANGED <<kind, sock, peer, sent, got, buf, content, pool, dns>>

\* A plain request has been sent by Do, which leaves one direction to copy.
StartRelay(c) ==
    /\ at[c] = "start" /\ kind[c] # "connect" /\ Goto(c, "relay")
    /\ copy' = [copy EXCEPT ![c] = [s \in Sides |-> IF s = "client" /\ kind[c] = "plain" THEN "done" ELSE "get"]]
    /\ UNCHANGED <<kind, peers, buf, content, pool, dns>>

-----------------------------------------------------------------------------
(* One copy.                                                               *)

\* Seeded bug: the buffer goes back at once, the defer is missing.
GetCopyBufPutsBack(c, s) ==
    /\ copy[c][s] = "get" /\ copy' = Put(copy, c, s, "read")
    /\ buf' = Put(buf, c, s, CHOOSE b \in pool : TRUE)
    /\ UNCHANGED <<kind, at, peers, content, pool, dns>>

\* Buffers in the pool are alike.
GetCopyBuf(c, s) ==
    LET b == CHOOSE x \in pool : TRUE IN
    /\ copy[c][s] = "get" /\ copy' = Put(copy, c, s, "read")
    /\ buf' = Put(buf, c, s, b) /\ pool' = pool \ {b}
    /\ UNCHANGED <<kind, at, peers, content, dns>>

Read(c, s) ==
    /\ copy[c][s] = "read" /\ sock[c][s] = "open" /\ read[c][s] < sent[c][s]
    /\ copy' = Put(copy, c, s, "write")
    /\ read' = Put(read, c, s, read[c][s] + 1)
    /\ content' = [content EXCEPT ![buf[c][s]] = <<c, s, read[c][s] + 1>>]
    /\ UNCHANGED <<kind, at, sock, peer, sent, got, lost, buf, pool, dns>>

\* What is written to a peer that has gone is lost.
Write(c, s) ==
    LET to == Other(s) IN
    /\ copy[c][s] = "write" /\ sock[c][to] = "open"
    /\ copy' = Put(copy, c, s, "read")
    /\ got' = IF peer[c][to] = "gone" THEN got
              ELSE Put(got, c, to, Append(got[c][to], content[buf[c][s]]))
    /\ UNCHANGED <<kind, at, sock, peer, sent, read, lost, buf, content, pool, dns>>

\* The end of the stream, or an error of either end.  The server cancels the
\* context of a plain request, with which Do reads, once its client ends.
CopyEnds(c, s) ==
    \/ copy[c][s] = "read" /\ \/ sock[c][s] = "closed" \/ peer[c][s] = "gone"
                              \/ peer[c][s] = "half" /\ read[c][s] = sent[c][s]
                              \/ kind[c] = "plain" /\ peer[c]["client"] # "open"
    \/ copy[c][s] = "write" /\ (sock[c][Other(s)] = "closed" \/ peer[c][Other(s)] = "gone")

\* ... after which the goroutine returns: the deferred putCopyBuf, but for the
\* closes.
PutCopyBuf(c, s) ==
    /\ CopyEnds(c, s) /\ copy' = Put(copy, c, s, "done")
    /\ pool' = pool \cup {buf[c][s]} /\ buf' = Put(buf, c, s, None)
    /\ content' = [content EXCEPT ![buf[c][s]] = None]
    /\ IF s = "dest" THEN Goto(c, "over") ELSE UNCHANGED at
    /\ UNCHANGED <<kind, peer, sent, read, got, lost, dns>>

\* Seeded bug: only the handler closes, the goroutine of CONNECT does not.
ReturnHandlerCloses(c, s) ==
    /\ PutCopyBuf(c, s)
    /\ IF s = "dest" THEN CloseBoth(c) ELSE UNCHANGED sock

\* Seeded bug: whichever copy of a forwarded port ends first closes both ends.
ReturnAlwaysCloses(c, s) == PutCopyBuf(c, s) /\ CloseBoth(c)

\* Both copies of CONNECT close both ends, on a forwarded port the handler does.
\* A plain request closes the body of its answer: the connection goes back to
\* the HTTP client when it has been read to its end, the client to the server.
Return(c, s) ==
    /\ PutCopyBuf(c, s)
    /\ \/ kind[c] = "connect" /\ CloseBoth(c)
       \/ kind[c] = "forward" /\ s = "dest" /\ CloseBoth(c)
       \/ kind[c] = "forward" /\ s = "client" /\ UNCHANGED sock
       \/ /\ kind[c] = "plain" /\ s = "dest"
          /\ Settle(c, "kept", IF peer[c][s] = "half" /\ read[c][s] = sent[c][s] THEN "kept" ELSE "closed")

-----------------------------------------------------------------------------
(* TunnelDNSResolver.Resolve: all servers at once, the first address wins. *)

\* A lookup ends, by itself, by the timeout or because Resolve has returned.
\* The channel has room for all of them.
LookupEnds(c, v, ok) ==
    /\ v \in asking[c] /\ Len(results[c]) < Cardinality(Servers)
    /\ asking' = [asking EXCEPT ![c] = @ \ {v}]
    /\ results' = [results EXCEPT ![c] = Append(@, ok)]
    /\ UNCHANGED <<kind, at, peers, copies, failures>>

\* The receive of the loop.  With an address, or with the last failure, Resolve
\* returns (and go-socks5 takes over).
Receive(c) ==
    /\ at[c] = "resolve" /\ results[c] # <<>>
    /\ results' = [results EXCEPT ![c] = Tail(@)]
    /\ failures' = [failures EXCEPT ![c] = IF Head(results[c]) THEN @ ELSE @ + 1]
    /\ IF Head(results[c]) THEN Goto(c, "resolved")
       ELSE IF failures'[c] = Cardinality(Servers) THEN Goto(c, "unresolved") ELSE UNCHANGED at
    /\ UNCHANGED <<kind, peers, copies, asking>>

-----------------------------------------------------------------------------
(* The peers.                                                              *)

\* Before the relay as well.  A plain request is one step of its client, the
\* sending of it one of Do.
PeerSends(c, s) ==
    /\ sock[c][s] = "open" /\ peer[c][s] = "open" /\ sent[c][s] < MaxSent
    /\ kind[c] = "plain" => s = "dest"
    /\ sent' = Put(sent, c, s, sent[c][s] + 1)
    /\ UNCHANGED <<kind, at, sock, peer, read, got, lost, copies, dns>>

PeerEnds(c, s) ==
    /\ sock[c][s] \in {"open", "kept"}
    /\ \E how \in {"half", "gone"} : peer[c][s] \notin {how, "gone"} /\ peer' = Put(peer, c, s, how)
    /\ UNCHANGED <<kind, at, sock, sent, read, got, lost, copies, dns>>

\* net/http closes a connection it has kept: the client of a request, the
\* destination after IdleConnTimeout, or when their peer has.
CloseIdle(c, s) ==
    /\ sock[c][s] = "kept" /\ sock' = Put(sock, c, s, "closed")
    /\ UNCHANGED <<kind, at, peer, sent, read, got, lost, copies, dns>>

Handle(c) ==
    \/ Dial(c) \/ GiveUp(c) \/ HijackFails(c) \/ Hijack(c) \/ StartRelay(c) \/ Receive(c)

Copy(c, s) == GetCopyBuf(c, s) \/ Read(c, s) \/ Write(c, s) \/ Return(c, s)

Next == \E c \in Conns :
    \/ Accept(c) \/ AcceptSocks(c) \/ Handle(c)
    \/ \E v \in Servers, ok \in BOOLEAN : LookupEnds(c, v, ok)
    \/ \E s \in Sides : Copy(c, s) \/ PeerSends(c, s) \/ PeerEnds(c, s) \/ CloseIdle(c, s)

Spec == Init /\ [][Next]_vars

\* Goroutines are scheduled, a lookup ends at its timeout, and an idle
\* destination is closed at its own; the server has no timeouts, and closes a
\* client only when that has gone.
FairSpec ==
    /\ Spec
    /\ \A c \in Conns :
        /\ WF_vars(Handle(c)) /\ \A s \in Sides : WF_vars(Copy(c, s))
        /\ \A v \in Servers : WF_vars(\E ok \in BOOLEAN : LookupEnds(c, v, ok))
        /\ WF_vars(CloseIdle(c, "dest")) /\ WF_vars(peer[c]["client"] # "open" /\ CloseIdle(c, "client"))

-----------------------------------------------------------------------------
\* How much of what a side sends never reaches its copy.
Skipped(c, s) == IF s = "client" THEN lost[c] ELSE 0

\* What arrives at an end is what the other end of the same connection has
\* sent, in order and without gaps, although all relays draw their buffers
\* from one pool: no buffer is in two hands (httpproxy.go:25-35).  All of it
\* from the first message on, but for the client of a CONNECT: what it has sent
\* before the hijack may be missing in front (httpproxy.go:342).
StreamsAreNotMixed ==
    \A c \in Conns :
        /\ lost[c] > 0 => kind[c] = "connect"
        /\ \A s \in Sides :
              /\ Skipped(c, Other(s)) + Len(got[c][s]) <= read[c][Other(s)]
              /\ \A i \in DOMAIN got[c][s] : got[c][s][i] = <<c, Other(s), Skipped(c, Other(s)) + i>>

\* A destination that has ended its stream properly has had all of it relayed
\* when the handler returns, to a client that is still there; on a forwarded
\* port also to one that has closed its own direction, which the HTTP proxy
\* treats as the end of the connection.  And a name is given up only when every
\* server has failed, in whatever order they answer.
AnswerIsDelivered ==
    \A c \in Conns :
        /\ (/\ at[c] = "over" /\ copy[c]["dest"] = "done" /\ peer[c]["dest"] = "half"
            /\ peer[c]["client"] \in IF kind[c] = "forward" THEN {"open", "half"} ELSE {"open"})
           => Len(got[c]["client"]) = sent[c]["dest"]
        /\ at[c] = "unresolved" => asking[c] = {} /\ results[c] = <<>>

\* Every goroutine and socket of the connection is gone, but for a client that
\* stays, of an HTTP request that was not hijacked: the server keeps it.
Ended(c) ==
    /\ at[c] \in {"over", "resolved", "unresolved"} /\ asking[c] = {}
    /\ kind[c] # "socks" =>
          /\ \A s \in Sides : copy[c][s] \in {"none", "done"}
          /\ sock[c]["dest"] \in {"none", "closed"}
          /\ sock[c]["client"] = "kept" => peer[c]["client"] = "open"
          /\ sock[c]["client"] \in {"kept", "closed"}

\* A connection whose destination has ended, and an HTTP request either end of
\* which has, is taken down altogether, with both copies and both sockets, at
\* whatever place it is found; only a client that stays may be kept for another
\* request.  And all lookups of a SOCKS name end, also those nobody waits for.
ConnectionEnds ==
    \A c \in Conns :
        (\/ at[c] = "resolve"
         \/ /\ at[c] \in {"dial", "start", "relay"}
            /\ \/ peer[c]["dest"] # "open"
               \/ kind[c] # "forward" /\ peer[c]["client"] # "open") ~> Ended(c)
================================================================================
