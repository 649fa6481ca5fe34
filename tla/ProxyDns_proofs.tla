---------------------------- MODULE ProxyDns_proofs ----------------------------
(***************************************************************************)
(* Proofs about Proxy, for any finite sets of connections, buffers and     *)
(* servers, and at the end about DnsRace, for any finite set of servers.   *)
(***************************************************************************)
EXTENDS Proxy, DnsRace, FiniteSetTheorems, SequenceTheorems, TLAPS

Places == {"idle", "dial", "start", "resolve", "relay", "over", "resolved", "unresolved"}
Messages == Conns \X Sides \X Nat
SocketStates == {"none", "open", "kept", "closed"}
EachSide(T) == [Conns -> [Sides -> T]]

\* Types.
TypeOK ==
    /\ kind \in [Conns -> Kinds] /\ at \in [Conns -> Places]
    /\ sock \in EachSide(SocketStates) /\ peer \in EachSide({"open", "half", "gone"})
    /\ sent \in EachSide(Nat) /\ read \in EachSide(Nat) /\ got \in EachSide(Seq(Messages))
    /\ lost \in [Conns -> Nat]
    /\ copy \in EachSide({"none", "get", "read", "write", "done"})
    /\ buf \in EachSide(Buffers \cup {None})
    /\ content \in [Buffers -> Messages \cup {None}] /\ pool \in SUBSET Buffers
    /\ asking \in [Conns -> SUBSET Servers] /\ results \in [Conns -> Seq(BOOLEAN)]
    /\ failures \in [Conns -> Nat]

Holds(c, s) == copy[c][s] \in {"read", "write"}

\* No buffer is in two hands, and none is lost.
BuffersFit ==
    /\ \A c \in Conns, s \in Sides : Holds(c, s) => buf[c][s] \in Buffers \ pool
    /\ \A c, d \in Conns, s, r \in Sides :
        Holds(c, s) /\ Holds(d, r) /\ buf[c][s] = buf[d][r] => c = d /\ s = r
    /\ \A b \in Buffers \ pool : \E c \in Conns, s \in Sides : Holds(c, s) /\ buf[c][s] = b

\* What a copy holds is the message it read last, which arrives next, counted
\* from the first that was not dropped.
StreamFits(c, s) ==
    LET n == Len(got[c][Other(s)])
        k == Skipped(c, s)
        inHand == IF copy[c][s] = "write" THEN 1 ELSE 0
    IN /\ copy[c][s] = "write" => content[buf[c][s]] = <<c, s, read[c][s]>>
       /\ k + n + inHand <= read[c][s]
       /\ \A i \in 1 .. n : got[c][Other(s)][i] = <<c, s, k + i>>
       /\ copy[c][s] # "done" /\ peer[c][Other(s)] # "gone" => k + n + inHand = read[c][s]

StreamsFit == \A c \in Conns, s \in Sides : StreamFits(c, s)

\* While the handler relays, only the goroutine of CONNECT can have closed the
\* sockets, and it does so when an end has gone that ends the relay.
RelayFits ==
    \A c \in Conns :
        /\ (at[c] = "relay") <=> (copy[c]["dest"] \in {"get", "read", "write"})
        /\ copy[c]["dest"] = "done" => at[c] = "over"
        /\ (copy[c]["client"] = "none") <=> (copy[c]["dest"] = "none")
        /\ (\E s \in Sides : sock[c][s] \in {"kept", "closed"}) =>
            \/ at[c] = "over"
            \/ /\ at[c] = "relay" /\ kind[c] = "connect"
               /\ peer[c]["client"] # "open" \/ peer[c]["dest"] = "gone"
        /\ at[c] = "over" =>
            \/ sock[c]["dest"] \in {"none", "closed"}
            \/ sock[c]["dest"] = "kept" /\ peer[c]["dest"] # "open"

\* Only Hijack drops anything, before the first read.
DroppedFits ==
    \A c \in Conns :
        /\ copy[c]["client"] = "none" => lost[c] = 0 /\ read[c]["client"] = 0
        /\ lost[c] > 0 => kind[c] = "connect"

\* Every server asked has answered, waits in the channel, or has been counted.
AnswersFit ==
    \A c \in Conns :
        /\ at[c] = "idle" => asking[c] = {} /\ results[c] = <<>> /\ failures[c] = 0
        /\ at[c] \in {"resolve", "unresolved"} =>
            Cardinality(asking[c]) + Len(results[c]) + failures[c] = Cardinality(Servers)
        /\ at[c] = "unresolved" => failures[c] = Cardinality(Servers)

\* The first half of AnswerIsDelivered, which is inductive with the rest.
Delivered ==
    \A c \in Conns :
        (/\ at[c] = "over" /\ copy[c]["dest"] = "done" /\ peer[c]["dest"] = "half"
         /\ peer[c]["client"] \in IF kind[c] = "forward" THEN {"open", "half"} ELSE {"open"})
           => Len(got[c]["client"]) = sent[c]["dest"]

IInv == TypeOK /\ BuffersFit /\ StreamsFit /\ RelayFits /\ DroppedFits /\ AnswersFit /\ Delivered

\* What Put and Settle change.
LEMMA PutFacts ==
    ASSUME NEW T, NEW f \in EachSide(T), NEW c \in Conns, NEW s \in Sides, NEW x \in T
    PROVE  /\ Put(f, c, s, x) \in EachSide(T)
           /\ Put(f, c, s, x)[c][s] = x
           /\ \A d \in Conns, r \in Sides : d # c \/ r # s => Put(f, c, s, x)[d][r] = f[d][r]
BY DEF Put, EachSide

LEMMA SameStreams ==
    ASSUME StreamsFit, UNCHANGED <<peer, read, got, lost, copy, buf, content>>
    PROVE  StreamsFit'
<1> SUFFICES ASSUME NEW c \in Conns, NEW s \in Sides PROVE StreamFits(c, s)'
  BY DEF StreamsFit
<1>1. StreamFits(c, s)
  BY DEF StreamsFit
<1> QED
  BY <1>1 DEF StreamFits, Skipped

LEMMA DroppedKept ==
    ASSUME DroppedFits, UNCHANGED <<kind, lost>>,
           \A d \in Conns : copy'[d]["client"] = "none" =>
               copy[d]["client"] = "none" /\ read'[d]["client"] = read[d]["client"]
    PROVE  DroppedFits'
BY DEF DroppedFits

LEMMA SettleFacts ==
    ASSUME TypeOK, NEW c \in Conns, NEW x \in {"kept", "closed"}, NEW y \in {"kept", "closed"},
           Settle(c, x, y)
    PROVE  /\ sock' \in EachSide(SocketStates)
           /\ \A d \in Conns : d # c => sock'[d] = sock[d]
           /\ \A s \in Sides : sock'[c][s] = IF sock[c][s] = "none" THEN "none"
                                              ELSE IF s = "client" THEN x ELSE y
<1>1. sock \in [Conns -> [Sides -> SocketStates]]
  BY DEF TypeOK, EachSide
<1>2. x \in SocketStates /\ y \in SocketStates /\ "none" \in SocketStates
  BY DEF SocketStates
<1> QED
  BY <1>1, <1>2 DEF Settle, EachSide

\* What is counted as dropped stays where nothing is dropped.
LEMMA SkippedFacts ==
    ASSUME TypeOK, NEW c \in Conns, NEW s \in Sides
    PROVE  Skipped(c, s) \in Nat /\ (lost' = lost => Skipped(c, s)' = Skipped(c, s))
BY DEF TypeOK, Skipped

LEMMA GotoFacts ==
    ASSUME TypeOK, NEW c \in Conns, NEW p \in Places, Goto(c, p)
    PROVE  /\ at' \in [Conns -> Places] /\ at'[c] = p
           /\ \A d \in Conns : d # c => at'[d] = at[d]
BY DEF TypeOK, Goto

LEMMA OtherFacts ==
    ASSUME NEW s \in Sides
    PROVE  Other(s) \in Sides /\ Other(s) # s /\ Other(Other(s)) = s
           /\ \A r \in Sides : r = s \/ r = Other(s)
BY DEF Sides, Other

\* A buffer is free for whoever has none: there are two for each connection,
\* and each copy holds at most one (getCopyBuf never waits, httpproxy.go:25-35).
LEMMA PoolHasOne ==
    ASSUME BuffersFit, NEW c \in Conns, NEW s \in Sides, ~Holds(c, s)
    PROVE  pool # {}
<1> DEFINE All == Conns \X Sides
           Others == All \ {<<c, s>>}
<1> SUFFICES ASSUME pool = {} PROVE FALSE
  OBVIOUS
<1>1. IsFiniteSet(Sides) /\ Cardinality(Sides) = 2
  <2>1. Sides = {"client"} \cup {"dest"}
    BY DEF Sides
  <2>2. IsFiniteSet({"client"}) /\ Cardinality({"client"}) = 1 /\ "dest" \notin {"client"}
    BY FS_Singleton
  <2> HIDE DEF Sides
  <2> QED
    BY <2>1, <2>2, FS_AddElement
<1>2. IsFiniteSet(All) /\ Cardinality(All) = Cardinality(Conns) * 2
  BY <1>1, FS_Product, ProxyAssumption
<1>3. IsFiniteSet(Others) /\ Cardinality(Others) = Cardinality(All) - 1
  <2>1. <<c, s>> \in All
    OBVIOUS
  <2> HIDE DEF All
  <2> QED
    BY <1>2, <2>1, FS_RemoveElement
<1>4. Cardinality(Others) < Cardinality(Buffers)
  <2>1. Cardinality(Conns) \in Nat /\ Cardinality(Buffers) \in Nat
    BY FS_CardinalityType, ProxyAssumption
  <2> QED
    BY <1>2, <1>3, <2>1, ProxyAssumption
<1> DEFINE InHandOf(b) == CHOOSE h \in Others : Holds(h[1], h[2]) /\ buf[h[1]][h[2]] = b
           g == [b \in Buffers |-> InHandOf(b)]
<1>5. ASSUME NEW b \in Buffers
      PROVE  InHandOf(b) \in Others /\ buf[InHandOf(b)[1]][InHandOf(b)[2]] = b
  <2>1. PICK d \in Conns, r \in Sides : Holds(d, r) /\ buf[d][r] = b
    BY DEF BuffersFit
  <2>2. <<d, r>> \in Others /\ <<d, r>>[1] = d /\ <<d, r>>[2] = r
    BY <2>1
  <2>3. \E h \in Others : Holds(h[1], h[2]) /\ buf[h[1]][h[2]] = b
    BY <2>1, <2>2
  <2> QED
    BY <2>3
<1>6. g \in [Buffers -> Others]
  BY <1>5
<1>7. \A b \in Buffers : buf[g[b][1]][g[b][2]] = b
  BY <1>5
<1> HIDE DEF Others, g
<1>8. \E a, b \in Buffers : a # b /\ g[a] = g[b]
  BY <1>3, <1>4, <1>6, FS_PigeonHole, ProxyAssumption
<1> QED
  BY <1>7, <1>8

-----------------------------------------------------------------------------
(* The invariant holds initially.                                          *)

LEMMA InitHolds == Init => IInv
<1> SUFFICES ASSUME Init PROVE IInv
  OBVIOUS
<1>1. TypeOK
  BY ProxyAssumption DEF Init, TypeOK, EachSide, PerSide, Places, Sides, SocketStates
<1>2. BuffersFit
  BY DEF Init, BuffersFit, Holds, PerSide
<1>3. StreamsFit
  BY OtherFacts DEF Init, StreamsFit, StreamFits, PerSide, Skipped
<1>4. RelayFits
  BY DEF Init, RelayFits, PerSide, Sides
<1>5. AnswersFit
  BY DEF Init, AnswersFit
<1>6. Delivered
  BY DEF Init, Delivered
<1>7. DroppedFits
  BY DEF Init, DroppedFits, PerSide, Sides
<1> QED
  BY <1>1, <1>2, <1>3, <1>4, <1>5, <1>6, <1>7 DEF IInv

-----------------------------------------------------------------------------
(* Up to the relay.                                                        *)

LEMMA OpenFacts ==
    ASSUME TypeOK, NEW c \in Conns, NEW s \in Sides, sock' = Put(sock, c, s, "open")
    PROVE  /\ sock' \in EachSide(SocketStates) /\ sock'[c][s] = "open"
           /\ \A d \in Conns, r \in Sides : d # c \/ r # s => sock'[d][r] = sock[d][r]
<1> DEFINE T == SocketStates
<1>1. sock \in EachSide(T) /\ "open" \in T
  BY DEF TypeOK, SocketStates
<1> HIDE DEF T
<1>2. /\ sock' \in EachSide(T) /\ sock'[c][s] = "open"
      /\ \A d \in Conns, r \in Sides : d # c \/ r # s => sock'[d][r] = sock[d][r]
  BY <1>1, PutFacts
<1> QED
  BY <1>2 DEF T

\* Nothing the invariant speaks of changes with a socket that opens.
LEMMA AcceptKeeps ==
    ASSUME IInv, NEW c \in Conns, Accept(c)
    PROVE  IInv'
<1> USE DEF IInv
<1>1. /\ sock' \in EachSide(SocketStates) /\ sock'[c]["client"] = "open"
      /\ \A d \in Conns, r \in Sides : d # c \/ r # "client" => sock'[d][r] = sock[d][r]
  BY OpenFacts DEF Accept, Sides
<1>2. /\ at' \in [Conns -> Places] /\ at'[c] = "dial" /\ at[c] = "idle"
      /\ \A d \in Conns : d # c => at'[d] = at[d]
  BY GotoFacts DEF Accept, Places
<1>3. TypeOK'
  BY <1>1, <1>2 DEF Accept, TypeOK, copies, dns
<1>4. BuffersFit'
  BY DEF Accept, BuffersFit, Holds, copies
<1>5. StreamsFit'
  <2>1. UNCHANGED <<peer, read, got, lost, copy, buf, content>>
    BY DEF Accept, peers, copies
  <2> QED
    BY <2>1, SameStreams
<1>6. RelayFits'
  <2>1. "client" \in Sides /\ "dest" \in Sides /\ UNCHANGED <<kind, peer, copy>>
    BY DEF Accept, Sides, copies
  <2>2. \A d \in Conns, r \in Sides : sock'[d][r] \in {"kept", "closed"} => sock[d][r] \in {"kept", "closed"}
    BY <1>1
  <2>3. \A d \in Conns : at'[d] = "over" => at[d] = "over" /\ sock'[d]["dest"] = sock[d]["dest"]
    BY <1>1, <1>2, <2>1
  <2>4. \A d \in Conns : \/ at'[d] = at[d]
                         \/ at[d] \notin {"relay", "over"} /\ at'[d] \notin {"relay", "over"}
    BY <1>2
  <2> QED
    BY <2>1, <2>2, <2>3, <2>4 DEF RelayFits
<1>7. AnswersFit'
  BY <1>1, <1>2 DEF Accept, AnswersFit, dns
<1>8. Delivered'
  BY <1>1, <1>2 DEF Accept, Delivered, copies
<1>9. DroppedFits'
  BY DroppedKept DEF Accept, copies
<1> QED
  BY <1>3, <1>4, <1>5, <1>6, <1>7, <1>8, <1>9

LEMMA AcceptSocksKeeps ==
    ASSUME IInv, NEW c \in Conns, AcceptSocks(c)
    PROVE  IInv'
<1> USE DEF IInv
<1>1. /\ sock' \in EachSide(SocketStates) /\ sock'[c]["client"] = "open"
      /\ \A d \in Conns, r \in Sides : d # c \/ r # "client" => sock'[d][r] = sock[d][r]
  BY OpenFacts DEF AcceptSocks, Sides
<1>2. /\ at' \in [Conns -> Places] /\ at[c] = "idle"
      /\ at'[c] = IF Servers = {} THEN "unresolved" ELSE "resolve"
      /\ \A d \in Conns : d # c => at'[d] = at[d]
  BY GotoFacts DEF AcceptSocks, Places
<1>3. TypeOK'
  BY <1>1, <1>2 DEF AcceptSocks, TypeOK, copies
<1>4. BuffersFit'
  BY DEF AcceptSocks, BuffersFit, Holds, copies
<1>5. StreamsFit'
  <2>1. UNCHANGED <<peer, read, got, lost, copy, buf, content>>
    BY DEF AcceptSocks, peers, copies
  <2> QED
    BY <2>1, SameStreams
<1>6. RelayFits'
  <2>1. "client" \in Sides /\ "dest" \in Sides /\ UNCHANGED <<kind, peer, copy>>
    BY DEF AcceptSocks, Sides, copies
  <2>2. \A d \in Conns, r \in Sides : sock'[d][r] \in {"kept", "closed"} => sock[d][r] \in {"kept", "closed"}
    BY <1>1
  <2>3. \A d \in Conns : at'[d] = "over" => at[d] = "over" /\ sock'[d]["dest"] = sock[d]["dest"]
    BY <1>1, <1>2, <2>1
  <2>4. \A d \in Conns : \/ at'[d] = at[d]
                         \/ at[d] \notin {"relay", "over"} /\ at'[d] \notin {"relay", "over"}
    BY <1>2
  <2> QED
    BY <2>1, <2>2, <2>3, <2>4 DEF RelayFits
<1>7. AnswersFit'
  <2>1. results[c] = <<>> /\ failures[c] = 0 /\ asking'[c] = Servers
        /\ \A d \in Conns : d # c => asking'[d] = asking[d]
    BY <1>2 DEF AcceptSocks, AnswersFit, TypeOK
  <2>2. Cardinality(Servers) \in Nat /\ (Servers = {} => Cardinality(Servers) = 0)
    BY FS_CardinalityType, FS_EmptySet, ProxyAssumption
  <2> QED
    BY <1>2, <2>1, <2>2 DEF AcceptSocks, AnswersFit
<1>8. Delivered'
  BY <1>1, <1>2 DEF AcceptSocks, Delivered, copies
<1>9. DroppedFits'
  BY DroppedKept DEF AcceptSocks, copies
<1> QED
  BY <1>3, <1>4, <1>5, <1>6, <1>7, <1>8, <1>9

LEMMA DialKeeps ==
    ASSUME IInv, NEW c \in Conns, Dial(c)
    PROVE  IInv'
<1> USE DEF IInv
<1>1. /\ sock' \in EachSide(SocketStates) /\ sock'[c]["dest"] = "open"
      /\ \A d \in Conns, r \in Sides : d # c \/ r # "dest" => sock'[d][r] = sock[d][r]
  BY OpenFacts DEF Dial, Sides
<1>2. /\ at' \in [Conns -> Places] /\ at'[c] = "start" /\ at[c] = "dial"
      /\ \A d \in Conns : d # c => at'[d] = at[d]
  BY GotoFacts DEF Dial, Places
<1>3. TypeOK'
  BY <1>1, <1>2 DEF Dial, TypeOK, copies, dns
<1>4. BuffersFit'
  BY DEF Dial, BuffersFit, Holds, copies
<1>5. StreamsFit'
  <2>1. UNCHANGED <<peer, read, got, lost, copy, buf, content>>
    BY DEF Dial, peers, copies
  <2> QED
    BY <2>1, SameStreams
<1>6. RelayFits'
  <2>1. "client" \in Sides /\ "dest" \in Sides /\ UNCHANGED <<kind, peer, copy>>
    BY DEF Dial, Sides, copies
  <2>2. \A d \in Conns, r \in Sides : sock'[d][r] \in {"kept", "closed"} => sock[d][r] \in {"kept", "closed"}
    BY <1>1
  <2>3. \A d \in Conns : at'[d] = "over" => at[d] = "over" /\ sock'[d]["dest"] = sock[d]["dest"]
    BY <1>1, <1>2, <2>1
  <2>4. \A d \in Conns : \/ at'[d] = at[d]
                         \/ at[d] \notin {"relay", "over"} /\ at'[d] \notin {"relay", "over"}
    BY <1>2
  <2> QED
    BY <2>1, <2>2, <2>3, <2>4 DEF RelayFits
<1>7. AnswersFit'
  BY <1>1, <1>2 DEF Dial, AnswersFit, dns
<1>8. Delivered'
  BY <1>1, <1>2 DEF Dial, Delivered, copies
<1>9. DroppedFits'
  BY DroppedKept DEF Dial, copies
<1> QED
  BY <1>3, <1>4, <1>5, <1>6, <1>7, <1>8, <1>9

\* Before the relay there is nothing to deliver.
Fails(c) ==
    /\ at[c] \in {"dial", "start"} /\ Goto(c, "over")
    /\ \E client \in {"kept", "closed"} : Settle(c, client, "closed")
    /\ UNCHANGED <<kind, peer, sent, read, got, lost, copies, dns>>

LEMMA FailKeeps ==
    ASSUME IInv, NEW c \in Conns, Fails(c)
    PROVE  IInv'
<1> USE DEF IInv
<1>1. /\ sock' \in EachSide(SocketStates)
      /\ \A d \in Conns : d # c => sock'[d] = sock[d]
      /\ sock'[c]["dest"] \in {"none", "closed"}
  <2>1. PICK x \in {"kept", "closed"} : Settle(c, x, "closed")
    BY DEF Fails
  <2>2. TypeOK /\ "closed" \in {"kept", "closed"} /\ "dest" \in Sides
    BY DEF Sides
  <2> HIDE DEF IInv
  <2>3. /\ sock' \in EachSide(SocketStates)
        /\ \A d \in Conns : d # c => sock'[d] = sock[d]
        /\ \A s \in Sides : sock'[c][s] = IF sock[c][s] = "none" THEN "none"
                                           ELSE IF s = "client" THEN x ELSE "closed"
    BY <2>1, <2>2, SettleFacts
  <2> QED
    BY <2>2, <2>3
<1>2. /\ at' \in [Conns -> Places] /\ at'[c] = "over" /\ at[c] \in {"dial", "start"}
      /\ \A d \in Conns : d # c => at'[d] = at[d]
  BY GotoFacts DEF Fails, Places
<1>3. UNCHANGED <<kind, peer, sent, read, got, lost, copy, buf, content, pool, asking, results, failures>>
  BY DEF Fails, copies, dns
<1>4. TypeOK'
  BY <1>1, <1>2, <1>3 DEF TypeOK
<1>5. BuffersFit'
  BY <1>3 DEF BuffersFit, Holds
<1>6. StreamsFit'
  BY <1>3, SameStreams
<1>7. RelayFits'
  BY <1>1, <1>2, <1>3 DEF RelayFits
<1>8. AnswersFit'
  BY <1>1, <1>2, <1>3 DEF AnswersFit
<1>9. Delivered'
  BY <1>1, <1>2, <1>3 DEF Delivered, RelayFits
<1>10. DroppedFits'
  BY <1>3, DroppedKept
<1> QED
  BY <1>4, <1>5, <1>6, <1>7, <1>8, <1>9, <1>10

\* A number of messages, or what has arrived, changes for one side.
LEMMA ReadFacts ==
    ASSUME TypeOK, NEW c \in Conns, NEW s \in Sides, NEW n \in Nat, read' = Put(read, c, s, n)
    PROVE  /\ read' \in EachSide(Nat) /\ read'[c][s] = n
           /\ \A d \in Conns, r \in Sides : d # c \/ r # s => read'[d][r] = read[d][r]
<1>1. read \in EachSide(Nat)
  BY DEF TypeOK
<1> QED
  BY <1>1, PutFacts

LEMMA GotFacts ==
    ASSUME TypeOK, NEW c \in Conns, NEW s \in Sides, NEW q \in Seq(Messages), got' = Put(got, c, s, q)
    PROVE  /\ got' \in EachSide(Seq(Messages)) /\ got'[c][s] = q
           /\ \A d \in Conns, r \in Sides : d # c \/ r # s => got'[d][r] = got[d][r]
<1>1. got \in EachSide(Seq(Messages))
  BY DEF TypeOK
<1> QED
  BY <1>1, PutFacts

LEMMA StartRelayKeeps ==
    ASSUME IInv, NEW c \in Conns, StartRelay(c)
    PROVE  IInv'
<1> USE DEF IInv
<1>1. /\ copy' \in EachSide({"none", "get", "read", "write", "done"})
      /\ copy'[c]["dest"] = "get" /\ copy'[c]["client"] \in {"get", "done"}
      /\ \A d \in Conns : d # c => copy'[d] = copy[d]
  BY DEF StartRelay, TypeOK, EachSide, Sides
<1>2. /\ at' \in [Conns -> Places] /\ at'[c] = "relay" /\ at[c] = "start"
      /\ \A d \in Conns : d # c => at'[d] = at[d]
  BY GotoFacts DEF StartRelay, Places
<1>3. UNCHANGED <<kind, sock, peer, sent, read, got, lost, buf, content, pool, asking, results, failures>>
  BY DEF StartRelay, peers, dns
<1>4. copy[c]["dest"] = "none" /\ copy[c]["client"] = "none"
  <2>1. copy[c]["dest"] \in {"none", "get", "read", "write", "done"}
    BY DEF TypeOK, EachSide, Sides
  <2> QED
    BY <2>1, <1>2 DEF RelayFits
<1>5. \A d \in Conns, r \in Sides : IF d = c THEN copy[d][r] = "none" /\ copy'[d][r] \in {"get", "done"}
                                    ELSE copy'[d][r] = copy[d][r]
  BY <1>1, <1>4 DEF Sides
<1>6. TypeOK'
  BY <1>1, <1>2, <1>3 DEF TypeOK
<1>7. BuffersFit'
  <2>1. \A d \in Conns, r \in Sides : Holds(d, r)' = Holds(d, r)
    BY <1>5 DEF Holds
  <2> QED
    BY <2>1, <1>3 DEF BuffersFit
<1>8. StreamsFit'
  <2> SUFFICES ASSUME NEW d \in Conns, NEW r \in Sides PROVE StreamFits(d, r)'
    BY DEF StreamsFit
  <2>1. StreamFits(d, r)
    BY DEF StreamsFit
  <2>2. \/ copy'[d][r] = copy[d][r]
        \/ copy[d][r] = "none" /\ copy'[d][r] \in {"get", "done"}
    BY <1>5
  <2> QED
    BY <2>1, <2>2, <1>3 DEF StreamFits, Skipped
<1>9. RelayFits'
  BY <1>1, <1>2, <1>3 DEF RelayFits
<1>10. AnswersFit'
  BY <1>2, <1>3 DEF AnswersFit
<1>11. Delivered'
  BY <1>1, <1>2, <1>3 DEF Delivered
<1>12. DroppedFits'
  BY <1>1, <1>3, DroppedKept
<1> QED
  BY <1>6, <1>7, <1>8, <1>9, <1>10, <1>11, <1>12

LEMMA HijackKeeps ==
    ASSUME IInv, NEW c \in Conns, Hijack(c)
    PROVE  IInv'
<1> USE DEF IInv
<1>0. "client" \in Sides /\ "dest" \in Sides
  BY DEF Sides
<1>1. PICK n \in 0 .. sent[c]["client"] :
         lost' = [lost EXCEPT ![c] = n] /\ read' = Put(read, c, "client", n)
  BY DEF Hijack
<1>2. /\ kind[c] = "connect" /\ copy' = [copy EXCEPT ![c] = [s \in Sides |-> "get"]]
      /\ UNCHANGED <<kind, sock, peer, sent, got, buf, content, pool, asking, results, failures>>
  BY DEF Hijack, dns
<1>3. /\ at' \in [Conns -> Places] /\ at'[c] = "relay" /\ at[c] = "start"
      /\ \A d \in Conns : d # c => at'[d] = at[d]
  BY GotoFacts DEF Hijack, Places
<1>4. n \in Nat /\ lost' \in [Conns -> Nat] /\ lost'[c] = n
      /\ \A d \in Conns : d # c => lost'[d] = lost[d]
  <2>1. sent[c]["client"] \in Nat /\ lost \in [Conns -> Nat]
    BY <1>0 DEF TypeOK, EachSide
  <2>2. n \in Nat
    BY <2>1
  <2> QED
    BY <1>1, <2>1, <2>2
<1>5. /\ read' \in EachSide(Nat) /\ read'[c]["client"] = n
      /\ \A d \in Conns, r \in Sides : d # c \/ r # "client" => read'[d][r] = read[d][r]
  BY <1>0, <1>1, <1>4, ReadFacts
<1>6. /\ copy' \in EachSide({"none", "get", "read", "write", "done"})
      /\ copy'[c]["dest"] = "get" /\ copy'[c]["client"] = "get"
      /\ \A d \in Conns : d # c => copy'[d] = copy[d]
  BY <1>0, <1>2 DEF TypeOK, EachSide
<1>7. copy[c]["dest"] = "none" /\ copy[c]["client"] = "none"
  <2>1. copy[c]["dest"] \in {"none", "get", "read", "write", "done"}
    BY <1>0 DEF TypeOK, EachSide
  <2> QED
    BY <2>1, <1>3 DEF RelayFits
<1>8. \A d \in Conns, r \in Sides : IF d = c THEN copy[d][r] = "none" /\ copy'[d][r] = "get"
                                    ELSE copy'[d][r] = copy[d][r]
  BY <1>6, <1>7 DEF Sides
<1>9. TypeOK'
  BY <1>2, <1>3, <1>4, <1>5, <1>6 DEF TypeOK
<1>10. BuffersFit'
  <2>1. \A d \in Conns, r \in Sides : Holds(d, r)' = Holds(d, r)
    BY <1>8 DEF Holds
  <2> QED
    BY <2>1, <1>2 DEF BuffersFit
<1>11. StreamsFit'
  <2> SUFFICES ASSUME NEW d \in Conns, NEW r \in Sides PROVE StreamFits(d, r)'
    BY DEF StreamsFit
  <2>1. StreamFits(d, r)
    BY DEF StreamsFit
  <2>2. CASE d = c /\ r = "client"
    <3>1. lost[c] = 0 /\ read[c]["client"] = 0 /\ Other("client") = "dest"
      BY <1>7 DEF DroppedFits, Other
    <3>2. got[c]["dest"] \in Seq(Messages) /\ Len(got[c]["dest"]) \in Nat
      <4>1. got[c]["dest"] \in Seq(Messages)
        BY <1>0 DEF TypeOK, EachSide
      <4> QED
        BY <4>1
    <3> DEFINE k == Len(got[c]["dest"])
    <3>3. 0 + k + 0 <= 0
      BY <2>1, <2>2, <3>1, <1>7 DEF StreamFits, Skipped
    <3>4. k = 0
      <4>1. k \in Nat
        BY <3>2
      <4> HIDE DEF k
      <4> QED
        BY <3>3, <4>1
    <3>5. Skipped(c, "client")' = n /\ copy'[c]["client"] = "get" /\ read'[c]["client"] = n
      BY <1>4, <1>5, <1>6 DEF Skipped
    <3>6. got' = got
      BY <1>2
    <3>7. n + 0 + 0 = n /\ n + 0 + 0 <= n
      <4> HIDE DEF IInv
      <4> QED
        BY <1>4
    <3> QED
      BY <2>2, <3>1, <3>4, <3>5, <3>6, <3>7 DEF StreamFits
  <2>3. CASE d # c \/ r # "client"
    <3>1. Skipped(d, r)' = Skipped(d, r)
      BY <2>3, <1>4 DEF Skipped
    <3>2. \/ copy'[d][r] = copy[d][r]
          \/ copy[d][r] = "none" /\ copy'[d][r] = "get"
      BY <1>8
    <3>3. read'[d][r] = read[d][r]
      BY <2>3, <1>5
    <3> QED
      BY <2>1, <3>1, <3>2, <3>3, <1>2 DEF StreamFits
  <2> QED
    BY <2>2, <2>3
<1>12. RelayFits'
  BY <1>2, <1>3, <1>6 DEF RelayFits
<1>13. DroppedFits'
  BY <1>0, <1>2, <1>4, <1>5, <1>6 DEF DroppedFits
<1>14. AnswersFit'
  BY <1>2, <1>3 DEF AnswersFit
<1>15. Delivered'
  BY <1>2, <1>3, <1>6 DEF Delivered
<1> QED
  BY <1>9, <1>10, <1>11, <1>12, <1>13, <1>14, <1>15

-----------------------------------------------------------------------------
(* One copy.                                                               *)

\* The copy of one side moves on.
LEMMA CopyFacts ==
    ASSUME TypeOK, NEW c \in Conns, NEW s \in Sides,
           NEW p \in {"none", "get", "read", "write", "done"}, copy' = Put(copy, c, s, p)
    PROVE  /\ copy' \in EachSide({"none", "get", "read", "write", "done"}) /\ copy'[c][s] = p
           /\ \A d \in Conns, r \in Sides : d # c \/ r # s => copy'[d][r] = copy[d][r]
<1> DEFINE T == {"none", "get", "read", "write", "done"}
<1>1. copy \in EachSide(T) /\ p \in T
  BY DEF TypeOK
<1> HIDE DEF T
<1>2. /\ copy' \in EachSide(T) /\ copy'[c][s] = p
      /\ \A d \in Conns, r \in Sides : d # c \/ r # s => copy'[d][r] = copy[d][r]
  BY <1>1, PutFacts
<1> QED
  BY <1>2 DEF T

LEMMA BufFacts ==
    ASSUME TypeOK, NEW c \in Conns, NEW s \in Sides,
           NEW b \in Buffers \cup {None}, buf' = Put(buf, c, s, b)
    PROVE  /\ buf' \in EachSide(Buffers \cup {None}) /\ buf'[c][s] = b
           /\ \A d \in Conns, r \in Sides : d # c \/ r # s => buf'[d][r] = buf[d][r]
<1> DEFINE T == Buffers \cup {None}
<1>1. buf \in EachSide(T) /\ b \in T
  BY DEF TypeOK
<1> HIDE DEF T
<1>2. /\ buf' \in EachSide(T) /\ buf'[c][s] = b
      /\ \A d \in Conns, r \in Sides : d # c \/ r # s => buf'[d][r] = buf[d][r]
  BY <1>1, PutFacts
<1> QED
  BY <1>2 DEF T

\* A copy that moves between two places of the relay moves nothing else there.
LEMMA RelayKept ==
    ASSUME TypeOK, RelayFits, NEW c \in Conns, NEW s \in Sides,
           copy' \in EachSide({"none", "get", "read", "write", "done"}),
           copy[c][s] \in {"get", "read", "write"}, copy'[c][s] \in {"get", "read", "write"},
           \A d \in Conns, r \in Sides : d # c \/ r # s => copy'[d][r] = copy[d][r],
           UNCHANGED <<kind, at, sock, peer>>
    PROVE  RelayFits'
<1>1. ASSUME NEW d \in Conns, NEW r \in Sides
      PROVE  \/ copy'[d][r] = copy[d][r]
             \/ copy[d][r] \in {"get", "read", "write"} /\ copy'[d][r] \in {"get", "read", "write"}
  OBVIOUS
<1>2. "client" \in Sides /\ "dest" \in Sides
  BY DEF Sides
<1> QED
  BY <1>1, <1>2 DEF RelayFits

LEMMA GetCopyBufKeeps ==
    ASSUME IInv, NEW c \in Conns, NEW s \in Sides, GetCopyBuf(c, s)
    PROVE  IInv'
<1> USE DEF IInv
<1>1. PICK b \in pool : buf' = Put(buf, c, s, b) /\ pool' = pool \ {b}
  <2>1. pool # {}
    BY PoolHasOne DEF GetCopyBuf, Holds
  <2> DEFINE b == CHOOSE x \in pool : TRUE
  <2>2. b \in pool
    BY <2>1
  <2>3. buf' = Put(buf, c, s, b) /\ pool' = pool \ {b}
    BY DEF GetCopyBuf
  <2> QED
    BY <2>2, <2>3
<1>2. b \in Buffers
  BY DEF TypeOK
<1>3. copy[c][s] = "get" /\ copy' = Put(copy, c, s, "read")
      /\ UNCHANGED <<kind, at, sock, peer, sent, read, got, lost, content, asking, results, failures>>
  BY DEF GetCopyBuf, peers, dns
<1>4. /\ copy' \in EachSide({"none", "get", "read", "write", "done"}) /\ copy'[c][s] = "read"
      /\ \A d \in Conns, r \in Sides : d # c \/ r # s => copy'[d][r] = copy[d][r]
  BY <1>3, CopyFacts
<1>5. /\ buf' \in EachSide(Buffers \cup {None}) /\ buf'[c][s] = b
      /\ \A d \in Conns, r \in Sides : d # c \/ r # s => buf'[d][r] = buf[d][r]
  BY <1>1, <1>2, BufFacts
<1>6. TypeOK'
  BY <1>1, <1>3, <1>4, <1>5 DEF TypeOK
<1>7. BuffersFit'
  <2>1. \A d \in Conns, r \in Sides : IF d = c /\ r = s THEN ~Holds(d, r) /\ Holds(d, r)'
                                      ELSE Holds(d, r)' = Holds(d, r)
    BY <1>3, <1>4 DEF Holds
  <2>2. ASSUME NEW d \in Conns, NEW r \in Sides, Holds(d, r)'
        PROVE  buf'[d][r] \in Buffers \ pool'
    BY <2>1, <2>2, <1>1, <1>2, <1>5 DEF BuffersFit
  <2>3. ASSUME NEW d \in Conns, NEW e \in Conns, NEW r \in Sides, NEW q \in Sides,
               Holds(d, r)', Holds(e, q)', buf'[d][r] = buf'[e][q]
        PROVE  d = e /\ r = q
    BY <2>1, <2>3, <1>1, <1>2, <1>5 DEF BuffersFit
  <2>4. ASSUME NEW x \in Buffers \ pool'
        PROVE  \E d \in Conns, r \in Sides : Holds(d, r)' /\ buf'[d][r] = x
    <3>1. CASE x = b
      BY <3>1, <2>1, <1>5
    <3>2. CASE x # b
      <4>1. PICK d \in Conns, r \in Sides : Holds(d, r) /\ buf[d][r] = x
        BY <3>2, <2>4, <1>1 DEF BuffersFit
      <4> QED
        BY <4>1, <2>1, <1>5
    <3> QED
      BY <3>1, <3>2
  <2> QED
    BY <2>2, <2>3, <2>4 DEF BuffersFit, Holds
<1>8. StreamsFit'
  <2> SUFFICES ASSUME NEW d \in Conns, NEW r \in Sides PROVE StreamFits(d, r)'
    BY DEF StreamsFit
  <2>1. StreamFits(d, r)
    BY DEF StreamsFit
  <2>2. CASE d = c /\ r = s
    BY <2>1, <2>2, <1>3, <1>4 DEF StreamFits, Skipped
  <2>3. CASE d # c \/ r # s
    BY <2>1, <2>3, <1>3, <1>4, <1>5 DEF StreamFits, Skipped
  <2> QED
    BY <2>2, <2>3
<1>9. RelayFits'
  BY <1>3, <1>4, RelayKept
<1>10. AnswersFit'
  BY <1>3 DEF AnswersFit
<1>11. Delivered'
  BY <1>3, <1>4, OtherFacts DEF Delivered, RelayFits, Sides
<1>12. DroppedFits'
  BY <1>3, <1>4, DroppedKept DEF Sides
<1> QED
  BY <1>6, <1>7, <1>8, <1>9, <1>10, <1>11, <1>12

\* A copy that goes on with its buffer leaves the pool as it is.
LEMMA BuffersKept ==
    ASSUME BuffersFit, NEW c \in Conns, NEW s \in Sides,
           copy[c][s] \in {"read", "write"}, copy'[c][s] \in {"read", "write"},
           \A d \in Conns, r \in Sides : d # c \/ r # s => copy'[d][r] = copy[d][r],
           UNCHANGED <<buf, pool>>
    PROVE  BuffersFit'
<1>1. \A d \in Conns, r \in Sides : Holds(d, r)' = Holds(d, r)
  BY DEF Holds
<1> QED
  BY <1>1 DEF BuffersFit

LEMMA ReadKeeps ==
    ASSUME IInv, NEW c \in Conns, NEW s \in Sides, Read(c, s)
    PROVE  IInv'
<1> USE DEF IInv
<1> DEFINE n == read[c][s] + 1
           m == <<c, s, n>>
<1>1. n \in Nat /\ m \in Messages
  <2>1. read[c][s] \in Nat
    BY DEF TypeOK, EachSide
  <2> QED
    BY <2>1 DEF Messages
<1>2. /\ copy[c][s] = "read" /\ copy' = Put(copy, c, s, "write") /\ read' = Put(read, c, s, n)
      /\ content' = [content EXCEPT ![buf[c][s]] = m]
      /\ UNCHANGED <<kind, at, sock, peer, sent, got, lost, buf, pool, asking, results, failures>>
  BY DEF Read, dns
<1>3. /\ copy' \in EachSide({"none", "get", "read", "write", "done"}) /\ copy'[c][s] = "write"
      /\ \A d \in Conns, r \in Sides : d # c \/ r # s => copy'[d][r] = copy[d][r]
  BY <1>2, CopyFacts
<1>4. /\ read' \in EachSide(Nat) /\ read'[c][s] = n
      /\ \A d \in Conns, r \in Sides : d # c \/ r # s => read'[d][r] = read[d][r]
  BY <1>1, <1>2, ReadFacts
<1>5. Holds(c, s) /\ buf[c][s] \in Buffers
  BY <1>2 DEF BuffersFit, Holds
<1>6. /\ content' \in [Buffers -> Messages \cup {None}] /\ content'[buf[c][s]] = m
      /\ \A b \in Buffers : b # buf[c][s] => content'[b] = content[b]
  <2>1. content \in [Buffers -> Messages \cup {None}]
    BY DEF TypeOK
  <2> HIDE DEF m
  <2> QED
    BY <2>1, <1>1, <1>2, <1>5
<1> HIDE DEF n
<1>7. TypeOK'
  BY <1>2, <1>3, <1>4, <1>6 DEF TypeOK
<1>8. BuffersFit'
  BY <1>2, <1>3, BuffersKept
<1>9. StreamsFit'
  <2> SUFFICES ASSUME NEW d \in Conns, NEW r \in Sides PROVE StreamFits(d, r)'
    BY DEF StreamsFit
  <2>1. StreamFits(d, r) /\ Other(r) \in Sides
    BY OtherFacts DEF StreamsFit
  <2>2. CASE d = c /\ r = s
    <3>1. got[c][Other(s)] \in Seq(Messages) /\ read[c][s] \in Nat
      BY <2>1, <2>2 DEF TypeOK, EachSide
    <3>2. Len(got[c][Other(s)]) \in Nat
      BY <3>1
    <3>3. Skipped(c, s) \in Nat /\ Skipped(c, s)' = Skipped(c, s)
      BY <1>2, SkippedFacts
    <3> QED
      BY <2>1, <2>2, <1>2, <1>3, <1>4, <1>6, <3>1, <3>2, <3>3 DEF StreamFits, n
  <2>3. CASE d # c \/ r # s
    <3>1. copy[d][r] = "write" => content'[buf[d][r]] = content[buf[d][r]]
      <4> HAVE copy[d][r] = "write"
      <4>1. Holds(d, r)
        BY DEF Holds
      <4> QED
        BY <4>1, <2>3, <1>5, <1>6 DEF BuffersFit
    <3> QED
      BY <2>1, <2>3, <1>2, <1>3, <1>4, <3>1 DEF StreamFits, Skipped
  <2> QED
    BY <2>2, <2>3
<1>10. RelayFits'
  BY <1>2, <1>3, RelayKept DEF TypeOK
<1>11. AnswersFit'
  BY <1>2 DEF AnswersFit
<1>12. Delivered'
  <2>1. \A d \in Conns : copy'[d]["dest"] = "done" => copy[d]["dest"] = "done"
    BY <1>3 DEF Sides
  <2> QED
    BY <2>1, <1>2 DEF Delivered
<1>13. DroppedFits'
  BY <1>2, <1>3, <1>4, DroppedKept DEF Sides
<1> QED
  BY <1>7, <1>8, <1>9, <1>10, <1>11, <1>12, <1>13

LEMMA WriteKeeps ==
    ASSUME IInv, NEW c \in Conns, NEW s \in Sides, Write(c, s)
    PROVE  IInv'
<1> USE DEF IInv
<1> DEFINE to == Other(s)
           m == content[buf[c][s]]
<1>1. to \in Sides /\ to # s /\ Other(to) = s /\ \A r \in Sides : r # s => Other(r) # to
  BY OtherFacts
<1>2. /\ copy[c][s] = "write" /\ copy' = Put(copy, c, s, "read")
      /\ UNCHANGED <<kind, at, sock, peer, sent, read, lost, buf, content, pool, asking, results, failures>>
      /\ IF peer[c][to] = "gone" THEN got' = got ELSE got' = Put(got, c, to, Append(got[c][to], m))
  BY DEF Write, dns
<1>3. /\ copy' \in EachSide({"none", "get", "read", "write", "done"}) /\ copy'[c][s] = "read"
      /\ \A d \in Conns, r \in Sides : d # c \/ r # s => copy'[d][r] = copy[d][r]
  BY <1>2, CopyFacts
<1>4. StreamFits(c, s) /\ m = <<c, s, read[c][s]>> /\ m \in Messages /\ read[c][s] \in Nat
  <2>1. StreamFits(c, s)
    BY DEF StreamsFit
  <2>2. read[c][s] \in Nat
    BY DEF TypeOK, EachSide
  <2>3. m = <<c, s, read[c][s]>>
    BY <2>1, <1>2 DEF StreamFits
  <2>4. <<c, s, read[c][s]>> \in Messages
    BY <2>2 DEF Messages
  <2> QED
    BY <2>1, <2>2, <2>3, <2>4
<1>5. got[c][to] \in Seq(Messages) /\ Len(got[c][to]) \in Nat
  <2>1. got[c][to] \in Seq(Messages)
    BY <1>1 DEF TypeOK, EachSide
  <2> QED
    BY <2>1
<1>6. /\ got' \in EachSide(Seq(Messages))
      /\ got'[c][to] = IF peer[c][to] = "gone" THEN got[c][to] ELSE Append(got[c][to], m)
      /\ \A d \in Conns, r \in Sides : d # c \/ r # to => got'[d][r] = got[d][r]
  <2> HIDE DEF to, m
  <2>1. CASE peer[c][to] = "gone"
    BY <2>1, <1>2 DEF TypeOK
  <2>2. CASE peer[c][to] # "gone"
    <3>1. Append(got[c][to], m) \in Seq(Messages)
      <4>1. \A q \in Seq(Messages), x \in Messages : Append(q, x) \in Seq(Messages)
        OBVIOUS
      <4>2. m \in Messages
        BY <1>4
      <4>3. got[c][to] \in Seq(Messages)
        BY <1>5
      <4> QED
        BY <4>1, <4>2, <4>3
    <3>2. got' = Put(got, c, to, Append(got[c][to], m))
      BY <2>2, <1>2
    <3>3. to \in Sides /\ TypeOK
      BY <1>1
    <3> DEFINE q == Append(got[c][to], m)
    <3>4. q \in Seq(Messages) /\ got' = Put(got, c, to, q)
      BY <3>1, <3>2
    <3> HIDE DEF IInv, q
    <3>5. /\ got' \in EachSide(Seq(Messages)) /\ got'[c][to] = q
          /\ \A d \in Conns, r \in Sides : d # c \/ r # to => got'[d][r] = got[d][r]
      BY <3>3, <3>4, GotFacts
    <3> QED
      BY <2>2, <3>5 DEF q
  <2> QED
    BY <2>1, <2>2
<1>7. TypeOK'
  BY <1>2, <1>3, <1>6 DEF TypeOK
<1>8. BuffersFit'
  BY <1>2, <1>3, BuffersKept
<1>9. StreamsFit'
  <2> SUFFICES ASSUME NEW d \in Conns, NEW r \in Sides PROVE StreamFits(d, r)'
    BY DEF StreamsFit
  <2>1. CASE d = c /\ r = s
    <3> DEFINE k == Len(got[c][to])
               j == Skipped(c, s)
    <3>0. j \in Nat /\ Skipped(c, s)' = j
      BY <1>2, SkippedFacts
    <3>1. CASE peer[c][to] = "gone"
      <4>1. j + k + 1 <= read[c][s] /\ \A i \in 1 .. k : got[c][to][i] = <<c, s, j + i>>
        BY <1>2, <1>4 DEF StreamFits
      <4>2. got'[c][to] = got[c][to]
        BY <3>1, <1>6
      <4> HIDE DEF j
      <4>3. j + k + 0 <= read[c][s]
        BY <3>0, <4>1, <1>4, <1>5
      <4> HIDE DEF k
      <4>4. Len(got'[c][to]) = k
        BY <4>2 DEF k
      <4>5. /\ copy'[c][s] = "read" /\ read'[c][s] = read[c][s] /\ peer'[c][to] = "gone"
        BY <3>1, <1>2, <1>3
      <4> HIDE DEF IInv
      <4> QED
        BY <2>1, <3>0, <4>1, <4>2, <4>3, <4>4, <4>5 DEF StreamFits
    <3>2. CASE peer[c][to] # "gone"
      <4>1. j + k + 1 = read[c][s] /\ \A i \in 1 .. k : got[c][to][i] = <<c, s, j + i>>
        BY <3>2, <1>2, <1>4 DEF StreamFits
      <4>2. /\ Len(got'[c][to]) = k + 1
            /\ \A i \in 1 .. k : got'[c][to][i] = got[c][to][i]
            /\ got'[c][to][k + 1] = m
        <5> HIDE DEF m, to, IInv
        <5>1. got'[c][to] = Append(got[c][to], m)
          BY <3>2, <1>6
        <5>2. got[c][to] \in Seq(Messages) /\ m \in Messages
          BY <1>4, <1>5
        <5> QED
          BY <5>1, <5>2, AppendProperties
      <4>3. k \in Nat /\ j + (k + 1) = read[c][s]
        BY <4>1, <3>0, <1>5
      <4> HIDE DEF j, k
      <4>4. \A i \in 1 .. k + 1 : got'[c][to][i] = <<c, s, j + i>>
        <5> TAKE i \in 1 .. k + 1
        <5>1. i \in 1 .. k \/ i = k + 1
          BY <4>3
        <5> QED
          BY <5>1, <4>1, <4>2, <4>3, <1>4
      <4>5. StreamFits(c, s)'
        <5>1. copy'[c][s] = "read" /\ read'[c][s] = read[c][s] /\ read[c][s] \in Nat
          BY <1>2, <1>3, <1>4
        <5>2. j + (k + 1) + 0 = read[c][s]
          BY <4>3, <3>0
        <5>3. j + (k + 1) + 0 <= read[c][s]
          BY <5>1, <5>2
        <5> HIDE DEF m, IInv
        <5> QED
          BY <3>0, <4>2, <4>4, <5>1, <5>2, <5>3 DEF StreamFits
      <4> QED
        BY <2>1, <4>5
    <3> QED
      BY <3>1, <3>2
  <2>2. CASE d # c \/ r # s
    <3>1. StreamFits(d, r) /\ Other(r) \in Sides
      BY OtherFacts DEF StreamsFit
    <3>2. got'[d][Other(r)] = got[d][Other(r)]
      BY <2>2, <3>1, <1>1, <1>6
    <3> QED
      BY <2>2, <3>1, <3>2, <1>2, <1>3 DEF StreamFits, Skipped
  <2> QED
    BY <2>1, <2>2
<1>10. RelayFits'
  BY <1>2, <1>3, RelayKept DEF TypeOK
<1>11. AnswersFit'
  BY <1>2 DEF AnswersFit
<1>12. Delivered'
  <2>1. ASSUME NEW d \in Conns, copy'[d]["dest"] = "done"
        PROVE  copy[d]["dest"] = "done" /\ got'[d]["client"] = got[d]["client"]
    <3>1. "dest" \in Sides /\ "client" \in Sides /\ Other("dest") = "client" /\ Other("client") = "dest"
      BY DEF Sides, Other
    <3>2. d # c \/ s # "dest"
      BY <2>1, <1>3
    <3>3. d # c \/ to # "client"
      BY <3>1, <3>2, <1>1
    <3> QED
      BY <2>1, <3>1, <3>2, <3>3, <1>3, <1>6
  <2> QED
    BY <2>1, <1>2 DEF Delivered
<1>13. DroppedFits'
  BY <1>2, <1>3, DroppedKept DEF Sides
<1> QED
  BY <1>7, <1>8, <1>9, <1>10, <1>11, <1>12, <1>13

\* With the end of the stream read and written there is nothing left to deliver,
\* and the relay has ended for no other reason.
LEMMA AllIsDelivered ==
    ASSUME IInv, NEW c \in Conns, CopyEnds(c, "dest"), at[c] = "relay",
           peer[c]["dest"] = "half",
           peer[c]["client"] \in IF kind[c] = "forward" THEN {"open", "half"} ELSE {"open"}
    PROVE  Len(got[c]["client"]) = sent[c]["dest"]
<1>1. "client" \in Sides /\ "dest" \in Sides /\ Other("dest") = "client"
  BY DEF Sides, Other
<1>2. sock[c]["client"] # "closed" /\ sock[c]["dest"] # "closed"
  BY <1>1 DEF IInv, RelayFits
<1>3. copy[c]["dest"] = "read" /\ read[c]["dest"] = sent[c]["dest"]
  BY <1>1, <1>2 DEF CopyEnds
<1>4. StreamFits(c, "dest") /\ got[c]["client"] \in Seq(Messages)
  BY <1>1 DEF IInv, StreamsFit, TypeOK, EachSide
<1>5. Len(got[c]["client"]) \in Nat
  BY <1>4
<1>6. 0 + Len(got[c]["client"]) + 0 = read[c]["dest"]
  BY <1>1, <1>3, <1>4 DEF StreamFits, Skipped
<1> QED
  BY <1>3, <1>5, <1>6

LEMMA ReturnKeeps ==
    ASSUME IInv, NEW c \in Conns, NEW s \in Sides, Return(c, s)
    PROVE  IInv'
<1> USE DEF IInv
<1> DEFINE b == buf[c][s]
<1>1. /\ CopyEnds(c, s) /\ copy' = Put(copy, c, s, "done")
      /\ pool' = pool \cup {b} /\ buf' = Put(buf, c, s, None)
      /\ content' = [content EXCEPT ![b] = None]
      /\ IF s = "dest" THEN Goto(c, "over") ELSE at' = at
      /\ UNCHANGED <<kind, peer, sent, read, got, lost, asking, results, failures>>
  BY DEF Return, PutCopyBuf, dns
<1>2. copy[c][s] \in {"read", "write"} /\ Holds(c, s)
  BY <1>1 DEF CopyEnds, Holds
<1>3. b \in Buffers \ pool
  BY <1>2 DEF BuffersFit
<1>4. /\ copy' \in EachSide({"none", "get", "read", "write", "done"}) /\ copy'[c][s] = "done"
      /\ \A d \in Conns, r \in Sides : d # c \/ r # s => copy'[d][r] = copy[d][r]
  BY <1>1, CopyFacts
<1>5. /\ buf' \in EachSide(Buffers \cup {None}) /\ buf'[c][s] = None
      /\ \A d \in Conns, r \in Sides : d # c \/ r # s => buf'[d][r] = buf[d][r]
  BY <1>1, BufFacts
<1>6. /\ content' \in [Buffers -> Messages \cup {None}]
      /\ \A x \in Buffers : x # b => content'[x] = content[x]
  <2>1. content \in [Buffers -> Messages \cup {None}]
    BY DEF TypeOK
  <2> HIDE DEF b
  <2> QED
    BY <2>1, <1>1, <1>3
<1>7. /\ sock' \in EachSide(SocketStates) /\ \A d \in Conns : d # c => sock'[d] = sock[d]
      /\ s = "client" => (sock' = sock \/ kind[c] = "connect")
      /\ (s = "dest" \/ kind[c] = "connect") =>
            \/ sock'[c]["dest"] \in {"none", "closed"}
            \/ sock'[c]["dest"] = "kept" /\ peer[c]["dest"] # "open"
  <2>1. TypeOK /\ sock \in EachSide(SocketStates) /\ "dest" \in Sides
    BY DEF TypeOK, Sides
  <2>2. CASE CloseBoth(c) /\ (kind[c] = "connect" \/ s = "dest")
    BY <2>1, <2>2, SettleFacts DEF CloseBoth
  <2>3. CASE s = "client" /\ kind[c] = "forward" /\ sock' = sock
    BY <2>1, <2>3
  <2>4. CASE s = "dest" /\ peer[c]["dest"] = "half" /\ Settle(c, "kept", "kept")
    BY <2>1, <2>4, SettleFacts
  <2>5. CASE s = "dest" /\ Settle(c, "kept", "closed")
    BY <2>1, <2>5, SettleFacts
  <2> QED
    BY <2>2, <2>3, <2>4, <2>5 DEF Return
<1>8. /\ at' \in [Conns -> Places] /\ \A d \in Conns : d # c => at'[d] = at[d]
      /\ at'[c] = IF s = "dest" THEN "over" ELSE at[c]
  BY <1>1, GotoFacts DEF TypeOK, Places
<1>9. /\ at[c] \in {"relay", "over"} /\ copy[c]["dest"] # "none"
      /\ s = "dest" => at[c] = "relay"
  <2>1. copy[c]["dest"] \in {"none", "get", "read", "write", "done"}
    BY DEF TypeOK, EachSide, Sides
  <2>2. copy[c]["dest"] # "none"
    BY <1>2 DEF RelayFits, Sides
  <2>3. copy[c]["dest"] = "done" => at[c] = "over"
    BY DEF RelayFits
  <2>4. copy[c]["dest"] \in {"get", "read", "write"} => at[c] = "relay"
    BY DEF RelayFits
  <2> QED
    BY <2>1, <2>2, <2>3, <2>4, <1>2
<1>10. TypeOK'
  BY <1>1, <1>3, <1>4, <1>5, <1>6, <1>7, <1>8 DEF TypeOK
<1>11. BuffersFit'
  <2>1. /\ ~Holds(c, s)'
        /\ \A d \in Conns, r \in Sides : d # c \/ r # s => (Holds(d, r)' = Holds(d, r))
    BY <1>4 DEF Holds
  <2>2. ASSUME NEW d \in Conns, NEW r \in Sides, Holds(d, r)'
        PROVE  buf'[d][r] \in Buffers \ pool'
    <3>1. (d # c \/ r # s) /\ Holds(d, r)
      BY <2>1, <2>2
    <3>2. buf[d][r] # b /\ buf[d][r] \in Buffers \ pool
      BY <3>1, <1>2 DEF BuffersFit
    <3> QED
      BY <3>1, <3>2, <1>1, <1>5
  <2>3. ASSUME NEW d \in Conns, NEW e \in Conns, NEW r \in Sides, NEW q \in Sides,
               Holds(d, r)', Holds(e, q)', buf'[d][r] = buf'[e][q]
        PROVE  d = e /\ r = q
    BY <2>1, <2>3, <1>5 DEF BuffersFit
  <2>4. ASSUME NEW x \in Buffers \ pool'
        PROVE  \E d \in Conns, r \in Sides : Holds(d, r)' /\ buf'[d][r] = x
    <3>1. x \in Buffers \ pool /\ x # b
      BY <2>4, <1>1
    <3>2. PICK d \in Conns, r \in Sides : Holds(d, r) /\ buf[d][r] = x
      BY <3>1 DEF BuffersFit
    <3>3. d # c \/ r # s
      BY <3>1, <3>2
    <3> QED
      BY <3>2, <3>3, <2>1, <1>5
  <2> QED
    BY <2>2, <2>3, <2>4 DEF BuffersFit, Holds
<1>12. StreamsFit'
  <2> SUFFICES ASSUME NEW d \in Conns, NEW r \in Sides PROVE StreamFits(d, r)'
    BY DEF StreamsFit
  <2>1. StreamFits(d, r) /\ Other(r) \in Sides
    BY OtherFacts DEF StreamsFit
  <2>2. CASE d = c /\ r = s
    <3> DEFINE k == Len(got[c][Other(s)])
               j == Skipped(c, s)
    <3>0. j \in Nat /\ Skipped(c, s)' = j
      BY <1>1, SkippedFacts
    <3>1. k \in Nat /\ read[c][s] \in Nat
      <4>1. got[c][Other(s)] \in Seq(Messages) /\ read[c][s] \in Nat
        BY <2>1, <2>2 DEF TypeOK, EachSide
      <4> QED
        BY <4>1
    <3>2. j + k + (IF copy[c][s] = "write" THEN 1 ELSE 0) <= read[c][s]
          /\ \A i \in 1 .. k : got[c][Other(s)][i] = <<c, s, j + i>>
      BY <2>1, <2>2 DEF StreamFits
    <3>3. j + k + 0 <= read[c][s]
      <4> HIDE DEF k, j
      <4>1. CASE copy[c][s] = "write"
        BY <4>1, <3>0, <3>1, <3>2
      <4>2. CASE copy[c][s] # "write"
        BY <4>2, <3>0, <3>1, <3>2
      <4> QED
        BY <4>1, <4>2
    <3>4. /\ copy'[c][s] = "done" /\ read'[c][s] = read[c][s]
          /\ got'[c][Other(s)] = got[c][Other(s)]
      BY <1>1, <1>4
    <3> QED
      BY <2>2, <3>0, <3>2, <3>3, <3>4 DEF StreamFits
  <2>3. CASE d # c \/ r # s
    <3>1. copy[d][r] = "write" => content'[buf[d][r]] = content[buf[d][r]]
      <4> HAVE copy[d][r] = "write"
      <4>1. Holds(d, r)
        BY DEF Holds
      <4>2. buf[d][r] # b /\ buf[d][r] \in Buffers
        BY <4>1, <2>3, <1>2 DEF BuffersFit
      <4> QED
        BY <4>2, <1>6
    <3> QED
      BY <2>1, <2>3, <1>1, <1>4, <1>5, <3>1 DEF StreamFits, Skipped
  <2> QED
    BY <2>2, <2>3
<1>13. RelayFits'
  <2>0. "client" \in Sides /\ "dest" \in Sides /\ s \in {"client", "dest"}
    BY DEF Sides
  <2> SUFFICES ASSUME NEW d \in Conns
               PROVE  (/\ (at[d] = "relay") <=> (copy[d]["dest"] \in {"get", "read", "write"})
                       /\ copy[d]["dest"] = "done" => at[d] = "over"
                       /\ (copy[d]["client"] = "none") <=> (copy[d]["dest"] = "none")
                       /\ (\E r \in Sides : sock[d][r] \in {"kept", "closed"}) =>
                           \/ at[d] = "over"
                           \/ /\ at[d] = "relay" /\ kind[d] = "connect"
                              /\ peer[d]["client"] # "open" \/ peer[d]["dest"] = "gone"
                       /\ at[d] = "over" =>
                           \/ sock[d]["dest"] \in {"none", "closed"}
                           \/ sock[d]["dest"] = "kept" /\ peer[d]["dest"] # "open")'
    BY DEF RelayFits
  <2>1. CASE d # c
    <3>1. copy'[d]["dest"] = copy[d]["dest"] /\ copy'[d]["client"] = copy[d]["client"]
          /\ at'[d] = at[d] /\ sock'[d] = sock[d]
      BY <2>0, <2>1, <1>4, <1>7, <1>8
    <3> QED
      BY <3>1, <1>1 DEF RelayFits
  <2>2. CASE d = c /\ s = "dest"
    BY <2>0, <2>2, <1>1, <1>2, <1>4, <1>7, <1>8, <1>9 DEF RelayFits
  <2>3. CASE d = c /\ s = "client"
    <3>1. at'[c] = at[c] /\ copy'[c]["dest"] = copy[c]["dest"] /\ copy'[c]["client"] = "done"
      BY <2>0, <2>3, <1>4, <1>8
    <3>2. kind[c] # "connect" => sock' = sock
      BY <2>3, <1>7
    <3>3. at[c] = "relay" /\ kind[c] = "connect" => peer[c]["client"] # "open" \/ peer[c]["dest"] = "gone"
      <4> SUFFICES ASSUME at[c] = "relay", kind[c] = "connect"
                   PROVE  peer[c]["client"] # "open" \/ peer[c]["dest"] = "gone"
        OBVIOUS
      <4>1. (\E r \in Sides : sock[c][r] \in {"kept", "closed"}) => peer[c]["client"] # "open" \/ peer[c]["dest"] = "gone"
        BY DEF RelayFits
      <4> QED
        BY <4>1, <2>0, <2>3, <1>1 DEF CopyEnds, Other
    <3> QED
      <4>1. UNCHANGED <<kind, peer>>
        BY <1>1
      <4>2. CASE kind[c] = "connect"
        BY <4>1, <4>2, <2>3, <3>1, <3>3, <1>7, <1>9 DEF RelayFits
      <4>3. CASE kind[c] # "connect"
        BY <4>1, <4>3, <2>3, <3>1, <3>2, <1>9 DEF RelayFits
      <4> QED
        BY <4>2, <4>3
  <2> QED
    BY <2>0, <2>1, <2>2, <2>3
<1>14. AnswersFit'
  <2>1. \A d \in Conns : at'[d] = at[d] \/ at'[d] = "over"
    BY <1>8, <1>9
  <2> QED
    BY <2>1, <1>1 DEF AnswersFit
<1>15. Delivered'
  <2>0. "client" \in Sides /\ "dest" \in Sides /\ s \in {"client", "dest"}
    BY DEF Sides
  <2>1. ASSUME NEW d \in Conns, d # c \/ s # "dest"
        PROVE  at'[d] = at[d] /\ copy'[d]["dest"] = copy[d]["dest"]
    BY <2>0, <2>1, <1>4, <1>8
  <2>2. ASSUME s = "dest", peer[c]["dest"] = "half",
               peer[c]["client"] \in IF kind[c] = "forward" THEN {"open", "half"} ELSE {"open"}
        PROVE  Len(got[c]["client"]) = sent[c]["dest"]
    BY <2>2, <1>1, <1>9, AllIsDelivered
  <2> QED
    BY <2>1, <2>2, <1>1 DEF Delivered
<1>16. DroppedFits'
  BY <1>1, <1>2, <1>4, DroppedKept DEF Sides
<1> QED
  BY <1>10, <1>11, <1>12, <1>13, <1>14, <1>15, <1>16

-----------------------------------------------------------------------------
(* The resolver.                                                           *)

\* A step of a resolver or of a peer leaves the buffers alone.
LEMMA CopiesKept ==
    ASSUME BuffersFit, UNCHANGED copies
    PROVE  BuffersFit'
BY DEF BuffersFit, Holds, copies

LEMMA LookupEndsKeeps ==
    ASSUME IInv, NEW c \in Conns, NEW v \in Servers, NEW ok \in BOOLEAN, LookupEnds(c, v, ok)
    PROVE  IInv'
<1> USE DEF IInv
<1>1. /\ v \in asking[c] /\ asking' = [asking EXCEPT ![c] = @ \ {v}]
      /\ results' = [results EXCEPT ![c] = Append(@, ok)]
      /\ UNCHANGED <<kind, at, sock, peer, sent, read, got, lost, copy, buf, content, pool, failures>>
  BY DEF LookupEnds, peers, copies
<1>2. /\ asking' \in [Conns -> SUBSET Servers] /\ asking'[c] = asking[c] \ {v}
      /\ \A d \in Conns : d # c => asking'[d] = asking[d]
  BY <1>1 DEF TypeOK
<1>3. results[c] \in Seq(BOOLEAN) /\ Len(results[c]) \in Nat /\ Append(results[c], ok) \in Seq(BOOLEAN)
      /\ Len(Append(results[c], ok)) = Len(results[c]) + 1
  <2>1. results[c] \in Seq(BOOLEAN)
    BY DEF TypeOK
  <2> QED
    BY <2>1
<1>4. /\ results' \in [Conns -> Seq(BOOLEAN)] /\ results'[c] = Append(results[c], ok)
      /\ \A d \in Conns : d # c => results'[d] = results[d]
  BY <1>1, <1>3 DEF TypeOK
<1>5. TypeOK'
  BY <1>1, <1>2, <1>4 DEF TypeOK
<1>6. BuffersFit'
  BY <1>1 DEF BuffersFit, Holds
<1>7. StreamsFit'
  BY <1>1, SameStreams
<1>8. RelayFits'
  BY <1>1 DEF RelayFits
<1>9. AnswersFit'
  <2> SUFFICES ASSUME NEW d \in Conns
               PROVE  (/\ at[d] = "idle" => asking[d] = {} /\ results[d] = <<>> /\ failures[d] = 0
                       /\ at[d] \in {"resolve", "unresolved"} =>
                           Cardinality(asking[d]) + Len(results[d]) + failures[d] = Cardinality(Servers)
                       /\ at[d] = "unresolved" => failures[d] = Cardinality(Servers))'
    BY DEF AnswersFit
  <2>1. CASE d # c
    BY <2>1, <1>1, <1>2, <1>4 DEF AnswersFit
  <2>2. CASE d = c
    <3>1. IsFiniteSet(asking[c])
      <4>1. asking[c] \subseteq Servers
        BY DEF TypeOK
      <4> QED
        BY <4>1, FS_Subset, ProxyAssumption
    <3>2. Cardinality(asking[c] \ {v}) = Cardinality(asking[c]) - 1 /\ Cardinality(asking[c]) \in Nat
      BY <3>1, <1>1, FS_RemoveElement, FS_CardinalityType
    <3>3. failures[c] \in Nat /\ failures'[c] = failures[c] /\ at'[c] = at[c]
      BY <1>1 DEF TypeOK
    <3>4. at[c] # "idle"
      BY <1>1 DEF AnswersFit
    <3>5. Cardinality(asking'[c]) + Len(results'[c]) = Cardinality(asking[c]) + Len(results[c])
      <4>1. Len(results'[c]) = Len(results[c]) + 1
        BY <1>3, <1>4
      <4>2. Cardinality(asking'[c]) = Cardinality(asking[c]) - 1
        BY <3>2, <1>2
      <4> QED
        BY <4>1, <4>2, <3>2, <1>3
    <3> QED
      BY <2>2, <3>3, <3>4, <3>5 DEF AnswersFit
  <2> QED
    BY <2>1, <2>2
<1>10. Delivered'
  BY <1>1 DEF Delivered
<1>11. DroppedFits'
  BY <1>1, DroppedKept
<1> QED
  BY <1>5, <1>6, <1>7, <1>8, <1>9, <1>10, <1>11

LEMMA ReceiveKeeps ==
    ASSUME IInv, NEW c \in Conns, Receive(c)
    PROVE  IInv'
<1> USE DEF IInv
<1>1. /\ at[c] = "resolve" /\ results[c] # <<>> /\ results' = [results EXCEPT ![c] = Tail(@)]
      /\ failures' = [failures EXCEPT ![c] = IF Head(results[c]) THEN @ ELSE @ + 1]
  BY DEF Receive
<1>2. UNCHANGED <<kind, sock, peer, sent, read, got, lost, copy, buf, content, pool, asking>>
  BY DEF Receive, peers, copies
<1>3. /\ results[c] \in Seq(BOOLEAN) /\ Len(results[c]) \in Nat
      /\ Tail(results[c]) \in Seq(BOOLEAN) /\ Len(Tail(results[c])) = Len(results[c]) - 1
      /\ Head(results[c]) \in BOOLEAN
  <2>1. results[c] \in Seq(BOOLEAN)
    BY DEF TypeOK
  <2>2. results[c] # <<>>
    BY <1>1
  <2>3. Tail(results[c]) \in Seq(BOOLEAN) /\ Len(Tail(results[c])) = Len(results[c]) - 1
    BY <2>1, <2>2, HeadTailProperties
  <2>4. Head(results[c]) \in BOOLEAN
    BY <2>1, <2>2, HeadTailProperties
  <2>5. Len(results[c]) \in Nat
    BY <2>1
  <2> QED
    BY <2>1, <2>3, <2>4, <2>5
<1>4. /\ results' \in [Conns -> Seq(BOOLEAN)] /\ results'[c] = Tail(results[c])
      /\ \A d \in Conns : d # c => results'[d] = results[d]
  BY <1>1, <1>3 DEF TypeOK
<1>5. /\ failures[c] \in Nat /\ failures' \in [Conns -> Nat]
      /\ failures'[c] = IF Head(results[c]) THEN failures[c] ELSE failures[c] + 1
      /\ \A d \in Conns : d # c => failures'[d] = failures[d]
  <2>1. failures \in [Conns -> Nat]
    BY DEF TypeOK
  <2>2. failures[c] \in Nat /\ failures[c] + 1 \in Nat
    BY <2>1
  <2>3. CASE Head(results[c])
    <3>1. failures' = [failures EXCEPT ![c] = failures[c]]
      BY <2>3, <1>1
    <3> QED
      BY <3>1, <2>1, <2>2, <2>3
  <2>4. CASE ~Head(results[c])
    <3>1. failures' = [failures EXCEPT ![c] = failures[c] + 1]
      BY <2>4, <1>1
    <3> QED
      BY <3>1, <2>1, <2>2, <2>4
  <2> QED
    BY <2>3, <2>4
<1>6. /\ at' \in [Conns -> Places] /\ \A d \in Conns : d # c => at'[d] = at[d]
      /\ at'[c] = IF Head(results[c]) THEN "resolved"
                  ELSE IF failures'[c] = Cardinality(Servers) THEN "unresolved" ELSE "resolve"
  <2>1. CASE Head(results[c])
    BY <2>1, GotoFacts DEF Receive, Places
  <2>2. CASE ~Head(results[c]) /\ failures'[c] = Cardinality(Servers)
    BY <2>2, GotoFacts DEF Receive, Places
  <2>3. CASE ~Head(results[c]) /\ failures'[c] # Cardinality(Servers)
    BY <2>3, <1>1 DEF Receive, TypeOK
  <2> QED
    BY <2>1, <2>2, <2>3
<1>7. at'[c] \in {"resolve", "resolved", "unresolved"}
  BY <1>6
<1>8. TypeOK'
  BY <1>2, <1>4, <1>5, <1>6 DEF TypeOK
<1>9. BuffersFit'
  BY <1>2 DEF BuffersFit, Holds
<1>10. StreamsFit'
  BY <1>2, SameStreams
<1>11. RelayFits'
  <2>1. \A d \in Conns : \/ at'[d] = at[d]
                         \/ at[d] \notin {"relay", "over"} /\ at'[d] \notin {"relay", "over"}
    BY <1>1, <1>6, <1>7
  <2> QED
    BY <2>1, <1>2 DEF RelayFits
<1>12. AnswersFit'
  <2> SUFFICES ASSUME NEW d \in Conns
               PROVE  (/\ at[d] = "idle" => asking[d] = {} /\ results[d] = <<>> /\ failures[d] = 0
                       /\ at[d] \in {"resolve", "unresolved"} =>
                           Cardinality(asking[d]) + Len(results[d]) + failures[d] = Cardinality(Servers)
                       /\ at[d] = "unresolved" => failures[d] = Cardinality(Servers))'
    BY DEF AnswersFit
  <2>1. CASE d # c
    BY <2>1, <1>2, <1>4, <1>5, <1>6 DEF AnswersFit
  <2>2. CASE d = c /\ Head(results[c])
    BY <2>2, <1>6
  <2>3. CASE d = c /\ ~Head(results[c])
    <3>1. IsFiniteSet(asking[c])
      <4>1. asking[c] \subseteq Servers
        BY DEF TypeOK
      <4> QED
        BY <4>1, FS_Subset, ProxyAssumption
    <3>2. Cardinality(asking[c]) \in Nat
      BY <3>1, FS_CardinalityType
    <3>3. Len(results'[c]) = Len(results[c]) - 1 /\ failures'[c] = failures[c] + 1
      BY <2>3, <1>3, <1>4, <1>5
    <3>4. Cardinality(asking[c]) + Len(results[c]) + failures[c] = Cardinality(Servers)
      BY <1>1 DEF AnswersFit
    <3>5. Len(results[c]) \in Nat /\ failures[c] \in Nat /\ asking'[c] = asking[c]
      BY <1>2, <1>3, <1>5
    <3>6. Cardinality(asking'[c]) + Len(results'[c]) + failures'[c] = Cardinality(Servers)
      <4> DEFINE n == Cardinality(asking[c])
      <4>1. Cardinality(asking'[c]) = n
        BY <3>5
      <4>2. n \in Nat /\ n + Len(results[c]) + failures[c] = Cardinality(Servers)
        BY <3>2, <3>4
      <4> HIDE DEF n, IInv
      <4>3. n + (Len(results[c]) - 1) + (failures[c] + 1) = Cardinality(Servers)
        BY <4>2, <3>5
      <4> QED
        BY <4>1, <4>3, <3>3
    <3> QED
      BY <2>3, <3>6, <1>6, <1>7
  <2> QED
    BY <2>1, <2>2, <2>3
<1>13. Delivered'
  BY <1>1, <1>2, <1>6, <1>7 DEF Delivered
<1>14. DroppedFits'
  BY <1>2, DroppedKept
<1> QED
  BY <1>8, <1>9, <1>10, <1>11, <1>12, <1>13, <1>14

-----------------------------------------------------------------------------
(* The peers, and net/http, which closes what it has kept.                 *)

LEMMA PeerSendsKeeps ==
    ASSUME IInv, NEW c \in Conns, NEW s \in Sides, PeerSends(c, s)
    PROVE  IInv'
<1> USE DEF IInv
<1>1. /\ peer[c][s] = "open" /\ sent' = Put(sent, c, s, sent[c][s] + 1)
      /\ UNCHANGED <<kind, at, sock, peer, read, got, lost, copy, buf, content, pool, asking, results, failures>>
  BY DEF PeerSends, copies, dns
<1>2. /\ sent' \in EachSide(Nat)
      /\ \A d \in Conns, r \in Sides : d # c \/ r # s => sent'[d][r] = sent[d][r]
  <2>1. sent \in EachSide(Nat) /\ sent[c][s] + 1 \in Nat
    BY DEF TypeOK, EachSide
  <2> QED
    BY <2>1, <1>1, PutFacts
<1>3. TypeOK'
  BY <1>1, <1>2 DEF TypeOK
<1>4. BuffersFit'
  BY <1>1 DEF BuffersFit, Holds
<1>5. StreamsFit'
  BY <1>1, SameStreams
<1>6. RelayFits'
  BY <1>1 DEF RelayFits
<1>7. AnswersFit'
  BY <1>1 DEF AnswersFit
<1>8. Delivered'
  BY <1>1, <1>2 DEF Delivered, Sides
<1>9. DroppedFits'
  BY <1>1, DroppedKept
<1> QED
  BY <1>3, <1>4, <1>5, <1>6, <1>7, <1>8, <1>9

LEMMA PeerEndsKeeps ==
    ASSUME IInv, NEW c \in Conns, NEW s \in Sides, PeerEnds(c, s)
    PROVE  IInv'
<1> USE DEF IInv
<1>1. PICK how \in {"half", "gone"} : peer[c][s] \notin {how, "gone"} /\ peer' = Put(peer, c, s, how)
  BY DEF PeerEnds
<1>2. /\ sock[c][s] \in {"open", "kept"}
      /\ UNCHANGED <<kind, at, sock, sent, read, got, lost, copy, buf, content, pool, asking, results, failures>>
  BY DEF PeerEnds, copies, dns
<1>3. /\ peer' \in EachSide({"open", "half", "gone"}) /\ peer'[c][s] = how
      /\ \A d \in Conns, r \in Sides : d # c \/ r # s => peer'[d][r] = peer[d][r]
  <2> DEFINE T == {"open", "half", "gone"}
  <2>1. peer \in EachSide(T) /\ how \in T
    BY DEF TypeOK
  <2> HIDE DEF T
  <2>2. /\ peer' \in EachSide(T) /\ peer'[c][s] = how
        /\ \A d \in Conns, r \in Sides : d # c \/ r # s => peer'[d][r] = peer[d][r]
    BY <2>1, <1>1, PutFacts
  <2> QED
    BY <2>2 DEF T
<1>4. \A d \in Conns, r \in Sides : /\ peer[d][r] = "gone" => peer'[d][r] = "gone"
                                    /\ peer[d][r] # "open" => peer'[d][r] # "open"
  BY <1>1, <1>3
<1>5. TypeOK'
  BY <1>2, <1>3 DEF TypeOK
<1>6. BuffersFit'
  BY <1>2 DEF BuffersFit, Holds
<1>7. StreamsFit'
  <2> SUFFICES ASSUME NEW d \in Conns, NEW r \in Sides PROVE StreamFits(d, r)'
    BY DEF StreamsFit
  <2>1. StreamFits(d, r) /\ Other(r) \in Sides
    BY OtherFacts DEF StreamsFit
  <2>2. peer'[d][Other(r)] # "gone" => peer[d][Other(r)] # "gone"
    BY <2>1, <1>4
  <2> QED
    BY <2>1, <2>2, <1>2 DEF StreamFits, Skipped
<1>8. RelayFits'
  <2>1. "client" \in Sides /\ "dest" \in Sides
    BY DEF Sides
  <2> QED
    BY <2>1, <1>2, <1>4 DEF RelayFits
<1>9. AnswersFit'
  BY <1>2 DEF AnswersFit
<1>10. Delivered'
  <2>1. "client" \in Sides /\ "dest" \in Sides
    BY DEF Sides
  <2>2. ASSUME NEW d \in Conns, at[d] = "over", peer'[d]["dest"] = "half",
               peer'[d]["client"] \in IF kind[d] = "forward" THEN {"open", "half"} ELSE {"open"}
        PROVE  /\ peer[d]["dest"] = "half"
               /\ peer[d]["client"] \in IF kind[d] = "forward" THEN {"open", "half"} ELSE {"open"}
    <3>1. peer[d]["client"] \in IF kind[d] = "forward" THEN {"open", "half"} ELSE {"open"}
      <4>1. peer[d]["client"] \in {"open", "half", "gone"}
        BY <2>1 DEF TypeOK, EachSide
      <4> QED
        BY <2>1, <2>2, <4>1, <1>4
    <3>2. peer[d]["dest"] = "half"
      <4>1. CASE d = c /\ s = "dest"
        <5>1. sock[c]["dest"] = "kept" /\ peer[c]["dest"] # "open"
          BY <4>1, <2>2, <1>2 DEF RelayFits
        <5> QED
          BY <5>1, <4>1, <2>2, <1>1, <1>3, <2>1 DEF TypeOK, EachSide
      <4>2. CASE d # c \/ s # "dest"
        BY <4>2, <2>1, <2>2, <1>3
      <4> QED
        BY <4>1, <4>2
    <3> QED
      BY <3>1, <3>2
  <2> QED
    BY <2>2, <1>2 DEF Delivered
<1>11. DroppedFits'
  BY <1>2, DroppedKept
<1> QED
  BY <1>5, <1>6, <1>7, <1>8, <1>9, <1>10, <1>11

LEMMA CloseIdleKeeps ==
    ASSUME IInv, NEW c \in Conns, NEW s \in Sides, CloseIdle(c, s)
    PROVE  IInv'
<1> USE DEF IInv
<1>1. /\ sock[c][s] = "kept" /\ sock' = Put(sock, c, s, "closed")
      /\ UNCHANGED <<kind, at, peer, sent, read, got, lost, copy, buf, content, pool, asking, results, failures>>
  BY DEF CloseIdle, copies, dns
<1>2. /\ sock' \in EachSide(SocketStates) /\ sock'[c][s] = "closed"
      /\ \A d \in Conns, r \in Sides : d # c \/ r # s => sock'[d][r] = sock[d][r]
  <2>1. sock \in EachSide(SocketStates) /\ "closed" \in SocketStates
    BY DEF TypeOK, SocketStates
  <2> QED
    BY <2>1, <1>1, PutFacts
<1>3. TypeOK'
  BY <1>1, <1>2 DEF TypeOK
<1>4. BuffersFit'
  BY <1>1 DEF BuffersFit, Holds
<1>5. StreamsFit'
  BY <1>1, SameStreams
<1>6. RelayFits'
  <2>1. "client" \in Sides /\ "dest" \in Sides
    BY DEF Sides
  <2>2. \A d \in Conns, r \in Sides : sock'[d][r] \in {"kept", "closed"} => sock[d][r] \in {"kept", "closed"}
    BY <1>1, <1>2
  <2>3. \A d \in Conns : sock'[d]["dest"] = sock[d]["dest"] \/ sock'[d]["dest"] = "closed"
    BY <1>2, <2>1
  <2> QED
    BY <2>2, <2>3, <1>1 DEF RelayFits
<1>7. DroppedFits'
  BY <1>1, DroppedKept
<1>8. AnswersFit'
  BY <1>1 DEF AnswersFit
<1>9. Delivered'
  BY <1>1 DEF Delivered
<1> QED
  BY <1>3, <1>4, <1>5, <1>6, <1>7, <1>8, <1>9

-----------------------------------------------------------------------------
(* The theorems.                                                           *)

LEMMA StepKeeps == IInv /\ [Next]_vars => IInv'
<1> SUFFICES ASSUME IInv, [Next]_vars PROVE IInv'
  OBVIOUS
<1>1. CASE UNCHANGED vars
  <2>1. UNCHANGED <<kind, at, sock, peer, sent, read, got, lost, copy, buf, content, pool,
                    asking, results, failures>>
    BY <1>1 DEF vars, peers, copies, dns
  <2>2. TypeOK' /\ BuffersFit' /\ RelayFits' /\ DroppedFits'
    BY <2>1 DEF IInv, TypeOK, BuffersFit, Holds, RelayFits, DroppedFits
  <2>3. StreamsFit'
    BY <2>1, SameStreams DEF IInv
  <2>4. AnswersFit' /\ Delivered'
    BY <2>1 DEF IInv, AnswersFit, Delivered
  <2> QED
    BY <2>2, <2>3, <2>4 DEF IInv
<1>2. CASE Next
  <2> PICK c \in Conns :
        \/ Accept(c) \/ AcceptSocks(c) \/ Handle(c)
        \/ \E v \in Servers, ok \in BOOLEAN : LookupEnds(c, v, ok)
        \/ \E s \in Sides : Copy(c, s) \/ PeerSends(c, s) \/ PeerEnds(c, s) \/ CloseIdle(c, s)
    BY <1>2 DEF Next
  <2>1. CASE Accept(c)
    BY <2>1, AcceptKeeps
  <2>2. CASE AcceptSocks(c)
    BY <2>2, AcceptSocksKeeps
  <2>3. CASE Dial(c)
    BY <2>3, DialKeeps
  <2>4. CASE GiveUp(c)
    <3>1. Fails(c)
      BY <2>4 DEF GiveUp, Fails
    <3> QED
      BY <3>1, FailKeeps
  <2>5. CASE HijackFails(c)
    <3>1. Fails(c)
      BY <2>5 DEF HijackFails, Fails
    <3> QED
      BY <3>1, FailKeeps
  <2>6. CASE StartRelay(c) \/ Hijack(c)
    BY <2>6, StartRelayKeeps, HijackKeeps
  <2>7. CASE Receive(c)
    BY <2>7, ReceiveKeeps
  <2>8. CASE \E v \in Servers, ok \in BOOLEAN : LookupEnds(c, v, ok)
    BY <2>8, LookupEndsKeeps
  <2>9. CASE \E s \in Sides : Copy(c, s)
    BY <2>9, GetCopyBufKeeps, ReadKeeps, WriteKeeps, ReturnKeeps DEF Copy
  <2>10. CASE \E s \in Sides : PeerSends(c, s) \/ PeerEnds(c, s) \/ CloseIdle(c, s)
    BY <2>10, PeerSendsKeeps, PeerEndsKeeps, CloseIdleKeeps
  <2> QED
    BY <2>1, <2>2, <2>3, <2>4, <2>5, <2>6, <2>7, <2>8, <2>9, <2>10 DEF Handle
<1> QED
  BY <1>1, <1>2

\* The relays and resolvers stay within their invariant, however many
\* connections there are and however their steps interleave.
THEOREM Invariant == Spec => []IInv
<1>1. Init => IInv
  BY InitHolds
<1>2. IInv /\ [Next]_vars => IInv'
  BY StepKeeps
<1> QED
  BY <1>1, <1>2, PTL DEF Spec

\* Every variable stays within its type.
THEOREM TypeCorrect == Spec => []TypeOK
<1>1. IInv => TypeOK
  BY DEF IInv
<1> QED
  BY <1>1, Invariant, PTL

\* Although all relays draw their buffers from one pool, an end receives what
\* the other end of its own connection has sent, in order and without gaps: all
\* of it from the first message on, but for what Hijack drops in front of the
\* bytes of a CONNECT client, and only there.
THEOREM RelaysAreApart == Spec => []StreamsAreNotMixed
<1>1. IInv => StreamsAreNotMixed
  <2>0. ASSUME IInv, NEW c \in Conns
        PROVE  lost[c] > 0 => kind[c] = "connect"
    BY <2>0 DEF IInv, DroppedFits
  <2> SUFFICES ASSUME IInv, NEW c \in Conns, NEW s \in Sides
               PROVE  /\ Skipped(c, Other(s)) + Len(got[c][s]) <= read[c][Other(s)]
                      /\ \A i \in DOMAIN got[c][s] :
                            got[c][s][i] = <<c, Other(s), Skipped(c, Other(s)) + i>>
    BY <2>0 DEF StreamsAreNotMixed
  <2>1. Other(s) \in Sides /\ Other(Other(s)) = s
    BY OtherFacts
  <2>2. StreamFits(c, Other(s))
    BY <2>1 DEF IInv, StreamsFit
  <2>3. got[c][s] \in Seq(Messages) /\ read[c][Other(s)] \in Nat /\ Skipped(c, Other(s)) \in Nat
    BY <2>1, SkippedFacts DEF IInv, TypeOK, EachSide
  <2> DEFINE k == Len(got[c][s])
             j == Skipped(c, Other(s))
  <2>4. k \in Nat /\ DOMAIN got[c][s] = 1 .. k
    BY <2>3
  <2>5. /\ j + k + (IF copy[c][Other(s)] = "write" THEN 1 ELSE 0) <= read[c][Other(s)]
        /\ \A i \in 1 .. k : got[c][s][i] = <<c, Other(s), j + i>>
    BY <2>1, <2>2 DEF StreamFits
  <2>6. j \in Nat
    BY <2>3
  <2> HIDE DEF k, j
  <2>7. j + k <= read[c][Other(s)]
    <3>1. CASE copy[c][Other(s)] = "write"
      BY <3>1, <2>3, <2>4, <2>5, <2>6
    <3>2. CASE copy[c][Other(s)] # "write"
      BY <3>2, <2>3, <2>4, <2>5, <2>6
    <3> QED
      BY <3>1, <3>2
  <2> QED
    BY <2>4, <2>5, <2>7 DEF k, j
<1> QED
  BY <1>1, Invariant, PTL

\* A destination that ended its stream properly has had all of it relayed when
\* the handler returns, and a name is given up only after every server failed.
THEOREM NothingIsCutShort == Spec => []AnswerIsDelivered
<1>1. IInv => AnswerIsDelivered
  <2> SUFFICES ASSUME IInv, NEW c \in Conns, at[c] = "unresolved"
               PROVE  asking[c] = {} /\ results[c] = <<>>
    BY DEF AnswerIsDelivered, IInv, Delivered
  <2>1. asking[c] \subseteq Servers /\ results[c] \in Seq(BOOLEAN) /\ failures[c] \in Nat
    BY DEF IInv, TypeOK
  <2>2. IsFiniteSet(asking[c]) /\ Cardinality(asking[c]) \in Nat
    BY <2>1, FS_Subset, FS_CardinalityType, ProxyAssumption
  <2>3. Len(results[c]) \in Nat
    BY <2>1
  <2>4. /\ Cardinality(asking[c]) + Len(results[c]) + failures[c] = Cardinality(Servers)
        /\ failures[c] = Cardinality(Servers)
    BY DEF IInv, AnswersFit
  <2>5. Cardinality(asking[c]) = 0 /\ Len(results[c]) = 0
    <3> DEFINE a == Cardinality(asking[c])
               n == Len(results[c])
    <3>1. a \in Nat /\ n \in Nat /\ failures[c] \in Nat /\ a + n + failures[c] = failures[c]
      BY <2>1, <2>2, <2>3, <2>4
    <3> HIDE DEF a, n
    <3>2. a = 0 /\ n = 0
      BY <3>1
    <3> QED
      BY <3>2 DEF a, n
  <2>6. asking[c] = {}
    BY <2>2, <2>5, FS_EmptySet
  <2>7. results[c] = <<>>
    BY <2>1, <2>5, EmptySeq
  <2> QED
    BY <2>6, <2>7
<1> QED
  BY <1>1, Invariant, PTL

(***************************************************************************)
(* What a connection leaves behind.                                        *)
(***************************************************************************)

\* A relay has both sockets.  The first of the two copies of CONNECT that ends
\* has closed them, the handler that is over has closed them or given them back:
\* to the server that of an HTTP request that was not hijacked, to the client of
\* Go that of the destination of a plain one.
Sockets(c) ==
    /\ at[c] \in {"dial", "start", "relay", "over"} => kind[c] \in {"connect", "plain", "forward"}
    /\ at[c] = "dial" => sock[c]["client"] # "none"
    /\ at[c] = "start" \/ copy[c]["dest"] # "none" => \A s \in Sides : sock[c][s] # "none"
    /\ at[c] = "over" => \A s \in Sides : sock[c][s] # "open"
    /\ kind[c] = "connect" /\ (\E s \in Sides : copy[c][s] = "done") =>
            \A s \in Sides : sock[c][s] = "closed"
    /\ \A s \in Sides : sock[c][s] = "kept" =>
            /\ at[c] = "over"
            /\ \/ kind[c] = "plain"
               \/ kind[c] = "connect" /\ s = "client" /\ copy[c]["client"] = "none"

SocketsFit == \A c \in Conns : Sockets(c)

NothingIsHeld ==
    /\ \A c \in Conns : at[c] = "over" => \A s \in Sides : sock[c][s] # "open"
    /\ \A c \in Conns, s \in Sides : sock[c][s] = "kept" =>
            /\ at[c] = "over"
            /\ \/ kind[c] = "plain"
               \/ kind[c] = "connect" /\ s = "client" /\ copy[c]["client"] = "none"
    /\ \A c \in Conns : kind[c] = "connect" /\ (\E s \in Sides : copy[c][s] = "done") =>
            \A s \in Sides : sock[c][s] = "closed"
    /\ (\A c \in Conns, s \in Sides : copy[c][s] \notin {"read", "write"}) => pool = Buffers

\* Before the relay no copy has ended.
LEMMA NotYetDone ==
    ASSUME IInv, NEW c \in Conns, at[c] \notin {"relay", "over"}
    PROVE  \A s \in Sides : copy[c][s] = "none"
<1>1. copy[c]["dest"] \in {"none", "get", "read", "write", "done"} /\ "dest" \in Sides
  BY DEF IInv, TypeOK, EachSide, Sides
<1>2. copy[c]["dest"] = "none"
  BY <1>1 DEF IInv, RelayFits
<1>3. copy[c]["client"] = "none"
  BY <1>2 DEF IInv, RelayFits
<1> QED
  BY <1>2, <1>3 DEF Sides

\* A step of c concerns no other connection.
LEMMA ElsewhereFits ==
    ASSUME SocketsFit, NEW c \in Conns, Sockets(c)', UNCHANGED kind,
           \A d \in Conns : d # c => at'[d] = at[d] /\ sock'[d] = sock[d] /\ copy'[d] = copy[d]
    PROVE  SocketsFit'
<1> SUFFICES ASSUME NEW d \in Conns, d # c PROVE Sockets(d)'
  BY DEF SocketsFit
<1>1. Sockets(d)
  BY DEF SocketsFit
<1>2. kind'[d] = kind[d] /\ at'[d] = at[d] /\ sock'[d] = sock[d] /\ copy'[d] = copy[d]
  OBVIOUS
<1> QED
  BY <1>1, <1>2 DEF Sockets

LEMMA PutElsewhere ==
    ASSUME NEW T, NEW f \in EachSide(T), NEW c \in Conns, NEW s \in Sides, NEW x
    PROVE  /\ \A d \in Conns : d # c => Put(f, c, s, x)[d] = f[d]
           /\ Put(f, c, s, x)[c][s] = x
           /\ \A r \in Sides : r # s => Put(f, c, s, x)[c][r] = f[c][r]
BY DEF Put, EachSide

LEMMA AcceptFits ==
    ASSUME IInv, SocketsFit, NEW c \in Conns, Accept(c) \/ AcceptSocks(c) \/ Dial(c)
    PROVE  SocketsFit'
<1>1. sock \in EachSide(SocketStates) /\ at \in [Conns -> Places] /\ "client" \in Sides /\ "dest" \in Sides
  BY DEF IInv, TypeOK, Sides
<1>2. UNCHANGED <<copy, kind>> /\ at[c] \in {"idle", "dial"}
  BY DEF Accept, AcceptSocks, Dial, copies
<1>3. \A s \in Sides : copy[c][s] = "none"
  BY <1>2, NotYetDone
<1>4. CASE Accept(c) \/ AcceptSocks(c)
  <2>1. /\ sock' = Put(sock, c, "client", "open")
        /\ \/ at' = [at EXCEPT ![c] = "dial"] /\ kind[c] \notin {"socks", "none"}
           \/ at' = [at EXCEPT ![c] = "resolve"]
           \/ at' = [at EXCEPT ![c] = "unresolved"]
    BY <1>4 DEF Accept, AcceptSocks, Goto
  <2>2. (\A d \in Conns : d # c => sock'[d] = sock[d]) /\ sock'[c]["client"] = "open"
    BY <1>1, <2>1, PutElsewhere
  <2>3. \A s \in Sides : sock'[c][s] # "kept"
    <3>1. at[c] = "idle"
      BY <1>4 DEF Accept, AcceptSocks
    <3>2. sock'[c]["dest"] = sock[c]["dest"] /\ sock[c]["dest"] # "kept"
      BY <1>1, <2>1, <3>1, PutElsewhere DEF SocketsFit, Sockets
    <3> QED
      BY <2>2, <3>2 DEF Sides
  <2>4. kind[c] \in Kinds /\ at'[c] \in {"dial", "resolve", "unresolved"}
    BY <1>1, <2>1 DEF IInv, TypeOK
  <2>5. at'[c] = "dial" => kind[c] \in {"connect", "plain", "forward"}
    BY <1>1, <2>1, <2>4 DEF Kinds
  <2>6. Sockets(c)'
    BY <1>1, <1>2, <1>3, <2>2, <2>3, <2>4, <2>5 DEF Sockets
  <2> QED
    BY <1>1, <1>2, <2>1, <2>2, <2>6, ElsewhereFits
<1>5. CASE Dial(c)
  <2>1. /\ sock' = Put(sock, c, "dest", "open") /\ at[c] = "dial"
        /\ at' = [at EXCEPT ![c] = "start"]
    BY <1>5 DEF Dial, Goto
  <2>2. /\ \A d \in Conns : d # c => sock'[d] = sock[d]
        /\ sock'[c]["dest"] = "open" /\ sock'[c]["client"] = sock[c]["client"]
    BY <1>1, <2>1, PutElsewhere
  <2>3. \A s \in Sides : sock'[c][s] \notin {"none", "kept"}
    BY <1>1, <2>1, <2>2 DEF SocketsFit, Sockets, Sides
  <2>5. kind[c] \in {"connect", "plain", "forward"}
    BY <2>1 DEF SocketsFit, Sockets
  <2>4. Sockets(c)'
    BY <1>1, <1>2, <1>3, <2>1, <2>3, <2>5 DEF Sockets
  <2> QED
    BY <1>1, <1>2, <2>1, <2>2, <2>4, ElsewhereFits
<1> QED
  BY <1>4, <1>5

\* The two ways sockets are let go, with the type at hand.
LEMMA SettleEach ==
    ASSUME IInv, NEW c \in Conns, NEW x \in {"kept", "closed"}, NEW y \in {"kept", "closed"},
           Settle(c, x, y)
    PROVE  /\ \A d \in Conns : d # c => sock'[d] = sock[d]
           /\ \A s \in Sides : sock'[c][s] = IF sock[c][s] = "none" THEN "none"
                                              ELSE IF s = "client" THEN x ELSE y
BY SettleFacts DEF IInv

LEMMA GiveUpFits ==
    ASSUME IInv, SocketsFit, NEW c \in Conns, GiveUp(c) \/ HijackFails(c)
    PROVE  SocketsFit'
<1>1. /\ UNCHANGED <<copy, kind>> /\ at[c] \in {"start", "dial"}
      /\ at' = [at EXCEPT ![c] = "over"] /\ at \in [Conns -> Places]
  BY DEF GiveUp, HijackFails, copies, Goto, IInv, TypeOK
<1>2. PICK x \in {"kept", "closed"} : Settle(c, x, "closed") /\ (x = "kept" => kind[c] # "forward")
  BY DEF GiveUp, HijackFails
<1>3. \A s \in Sides : copy[c][s] = "none"
  BY <1>1, NotYetDone
<1>4. /\ \A d \in Conns : d # c => sock'[d] = sock[d]
      /\ \A s \in Sides : sock'[c][s] = IF sock[c][s] = "none" THEN "none"
                                         ELSE IF s = "client" THEN x ELSE "closed"
  BY <1>2, SettleEach
<1>5. kind[c] \in {"connect", "plain", "forward"} /\ at'[c] = "over"
  BY <1>1 DEF SocketsFit, Sockets
<1>6. /\ copy'[c]["client"] = "none" /\ copy'[c]["dest"] = "none"
      /\ \A s \in Sides : copy'[c][s] = "none"
  BY <1>1, <1>3 DEF Sides
<1>7. \A s \in Sides : /\ sock'[c][s] # "open"
                       /\ sock'[c][s] = "kept" => s = "client" /\ kind[c] # "forward"
  BY <1>2, <1>4
<1>8. Sockets(c)'
  BY <1>1, <1>5, <1>6, <1>7 DEF Sockets
<1> QED
  BY <1>1, <1>4, <1>8, ElsewhereFits

LEMMA StartFits ==
    ASSUME IInv, SocketsFit, NEW c \in Conns, StartRelay(c) \/ Hijack(c)
    PROVE  SocketsFit'
<1>1. /\ at[c] = "start" /\ at' = [at EXCEPT ![c] = "relay"] /\ UNCHANGED <<sock, kind>>
      /\ at \in [Conns -> Places]
  BY DEF StartRelay, Hijack, Goto, peers, IInv, TypeOK
<1>2. /\ \A d \in Conns : d # c => copy'[d] = copy[d]
      /\ kind[c] = "connect" => \A s \in Sides : copy'[c][s] = "get"
  BY DEF StartRelay, Hijack, IInv, TypeOK, EachSide
<1>3. /\ \A s \in Sides : sock'[c][s] \notin {"none", "kept"}
      /\ kind'[c] \in {"connect", "plain", "forward"} /\ at'[c] = "relay"
  BY <1>1 DEF SocketsFit, Sockets
<1>4. Sockets(c)'
  BY <1>1, <1>2, <1>3 DEF Sockets
<1> QED
  BY <1>1, <1>2, <1>4, ElsewhereFits

\* A copy that goes on.
LEMMA CopyFits ==
    ASSUME IInv, SocketsFit, NEW c \in Conns, NEW s \in Sides,
           GetCopyBuf(c, s) \/ Read(c, s) \/ Write(c, s)
    PROVE  SocketsFit'
<1>1. /\ copy[c][s] \in {"get", "read", "write"} /\ UNCHANGED <<sock, kind, at>>
      /\ copy' = Put(copy, c, s, "read") \/ copy' = Put(copy, c, s, "write")
  BY DEF GetCopyBuf, Read, Write, peers
<1>2. /\ copy'[c][s] \notin {"none", "done"}
      /\ \A d \in Conns : d # c => copy'[d] = copy[d]
      /\ \A r \in Sides : r # s => copy'[c][r] = copy[c][r]
  BY <1>1, PutElsewhere DEF IInv, TypeOK
<1>3. copy'[c]["dest"] # "none" <=> copy[c]["dest"] # "none"
  BY <1>1, <1>2 DEF Sides
<1>4. \A r \in Sides : copy'[c][r] = "done" => copy[c][r] = "done"
  BY <1>2
<1>5. \A r \in Sides : copy[c][r] = "none" => copy'[c][r] = "none"
  BY <1>1, <1>2
<1>6. Sockets(c)'
  BY <1>1, <1>3, <1>4, <1>5 DEF SocketsFit, Sockets, Sides
<1> QED
  BY <1>1, <1>2, <1>6, ElsewhereFits

LEMMA ReturnFits ==
    ASSUME IInv, SocketsFit, NEW c \in Conns, NEW s \in Sides, Return(c, s)
    PROVE  SocketsFit'
<1>1. /\ copy[c][s] \in {"read", "write"} /\ UNCHANGED kind
      /\ copy' = Put(copy, c, s, "done")
      /\ IF s = "dest" THEN at' = [at EXCEPT ![c] = "over"] ELSE UNCHANGED at
      /\ at \in [Conns -> Places]
  BY DEF Return, PutCopyBuf, CopyEnds, Goto, IInv, TypeOK
<1>2. /\ \A d \in Conns : d # c => copy'[d] = copy[d]
      /\ \A r \in Sides : r # s => copy'[c][r] = copy[c][r]
      /\ copy'[c][s] = "done"
  BY <1>1, PutElsewhere DEF IInv, TypeOK
<1>3. copy[c]["dest"] # "none"
  <2>1. s = "client" \/ s = "dest"
    BY DEF Sides
  <2> QED
    BY <1>1, <2>1 DEF IInv, RelayFits
<1>4. Sockets(c)
  BY DEF SocketsFit
<1>5. \A r \in Sides : sock[c][r] # "none"
  BY <1>3, <1>4 DEF Sockets
<1>6. \A d \in Conns : d # c => at'[d] = at[d]
  BY <1>1
<1>7. CASE CloseBoth(c) /\ (kind[c] = "connect" \/ s = "dest")
  <2>1. (\A d \in Conns : d # c => sock'[d] = sock[d]) /\ \A r \in Sides : sock'[c][r] = "closed"
    BY <1>5, <1>7, SettleEach DEF CloseBoth
  <2>2. at'[c] \in {at[c], "over"} /\ (at'[c] = "over" => at[c] = "over" \/ copy[c]["dest"] # "none")
    BY <1>1, <1>3
  <2>3. kind[c] \in {"connect", "plain", "forward"}
    <3>1. at[c] \in {"relay", "over"}
      <4>1. copy[c]["dest"] \in {"get", "read", "write", "done"}
        BY <1>3 DEF IInv, TypeOK, EachSide, Sides
      <4> QED
        BY <4>1 DEF IInv, RelayFits
    <3> QED
      BY <3>1, <1>4 DEF Sockets
  <2>4. Sockets(c)'
    BY <1>1, <2>1, <2>2, <2>3 DEF Sockets, Sides
  <2> QED
    BY <1>1, <1>2, <1>6, <2>1, <2>4, ElsewhereFits
<1>8. CASE kind[c] = "forward" /\ s = "client" /\ UNCHANGED sock
  <2>1. UNCHANGED <<at, sock, kind>> /\ copy'[c]["dest"] = copy[c]["dest"]
    BY <1>1, <1>2, <1>8 DEF Sides
  <2>2. Sockets(c)'
    BY <1>4, <1>8, <2>1 DEF Sockets
  <2> QED
    BY <1>2, <2>1, <2>2, ElsewhereFits
<1>9. ASSUME NEW y \in {"kept", "closed"}, kind[c] = "plain", s = "dest", Settle(c, "kept", y)
      PROVE  SocketsFit'
  <2>1. /\ \A d \in Conns : d # c => sock'[d] = sock[d]
        /\ \A r \in Sides : sock'[c][r] \in {"kept", "closed"}
    BY <1>5, <1>9, SettleEach
  <2>2. at'[c] = "over" /\ kind'[c] = "plain"
    BY <1>1, <1>9
  <2>3. Sockets(c)'
    BY <2>1, <2>2 DEF Sockets
  <2> QED
    BY <1>1, <1>2, <1>6, <2>1, <2>3, ElsewhereFits
<1>10. \/ CloseBoth(c) /\ (kind[c] = "connect" \/ s = "dest")
       \/ kind[c] = "forward" /\ s = "client" /\ UNCHANGED sock
       \/ \E y \in {"kept", "closed"} : kind[c] = "plain" /\ s = "dest" /\ Settle(c, "kept", y)
  BY DEF Return
<1> QED
  BY <1>7, <1>8, <1>9, <1>10

\* net/http closes what was given back to it.
LEMMA CloseIdleFits ==
    ASSUME IInv, SocketsFit, NEW c \in Conns, NEW s \in Sides, CloseIdle(c, s)
    PROVE  SocketsFit'
<1>1. /\ sock[c][s] = "kept" /\ sock' = Put(sock, c, s, "closed") /\ UNCHANGED <<at, kind, copy>>
      /\ sock \in EachSide(SocketStates)
  BY DEF CloseIdle, copies, IInv, TypeOK
<1>2. /\ \A d \in Conns : d # c => sock'[d] = sock[d]
      /\ sock'[c][s] = "closed" /\ \A r \in Sides : r # s => sock'[c][r] = sock[c][r]
  BY <1>1, PutElsewhere
<1>3. /\ \A r \in Sides : sock'[c][r] = sock[c][r] \/ sock'[c][r] = "closed"
      /\ \A r \in Sides : sock'[c][r] = "kept" => sock[c][r] = "kept"
  BY <1>2
<1>4. at[c] = "over" /\ Sockets(c)
  BY <1>1 DEF SocketsFit, Sockets
<1>5. Sockets(c)'
  BY <1>1, <1>3, <1>4 DEF Sockets
<1> QED
  BY <1>1, <1>2, <1>5, ElsewhereFits

LEMMA QuietFits ==
    ASSUME SocketsFit, UNCHANGED <<kind, at, sock, copy>>
    PROVE  SocketsFit'
<1> SUFFICES ASSUME NEW c \in Conns PROVE Sockets(c)'
  BY DEF SocketsFit
<1>1. Sockets(c)
  BY DEF SocketsFit
<1> QED
  BY <1>1 DEF Sockets

LEMMA ReceiveSocks ==
    ASSUME IInv, SocketsFit, NEW c \in Conns, Receive(c)
    PROVE  SocketsFit'
<1>1. /\ at[c] = "resolve" /\ UNCHANGED <<kind, sock, copy>> /\ at \in [Conns -> Places]
      /\ \/ at' = [at EXCEPT ![c] = "resolved"] \/ at' = [at EXCEPT ![c] = "unresolved"]
         \/ UNCHANGED at
  BY DEF Receive, Goto, peers, copies, IInv, TypeOK
<1>2. Sockets(c)'
  <2>1. at'[c] \in {"resolve", "resolved", "unresolved"}
    BY <1>1
  <2> QED
    BY <1>1, <2>1 DEF SocketsFit, Sockets
<1> QED
  BY <1>1, <1>2, ElsewhereFits

LEMMA NextFits == IInv /\ SocketsFit /\ [Next]_vars => SocketsFit'
<1> SUFFICES ASSUME IInv, SocketsFit, [Next]_vars PROVE SocketsFit'
  OBVIOUS
<1>1. CASE UNCHANGED vars
  BY <1>1, QuietFits DEF vars, peers, copies
<1>2. CASE Next
  <2> PICK c \in Conns :
        \/ Accept(c) \/ AcceptSocks(c) \/ Handle(c)
        \/ \E v \in Servers, ok \in BOOLEAN : LookupEnds(c, v, ok)
        \/ \E s \in Sides : Copy(c, s) \/ PeerSends(c, s) \/ PeerEnds(c, s) \/ CloseIdle(c, s)
    BY <1>2 DEF Next
  <2>1. CASE Accept(c) \/ AcceptSocks(c) \/ Dial(c)
    BY <2>1, AcceptFits
  <2>2. CASE GiveUp(c) \/ HijackFails(c)
    BY <2>2, GiveUpFits
  <2>3. CASE StartRelay(c) \/ Hijack(c)
    BY <2>3, StartFits
  <2>4. CASE Receive(c)
    BY <2>4, ReceiveSocks
  <2>5. CASE \E v \in Servers, ok \in BOOLEAN : LookupEnds(c, v, ok)
    BY <2>5, QuietFits DEF LookupEnds, peers, copies
  <2>6. CASE \E s \in Sides : Copy(c, s)
    BY <2>6, CopyFits, ReturnFits DEF Copy
  <2>7. CASE \E s \in Sides : PeerSends(c, s) \/ PeerEnds(c, s)
    BY <2>7, QuietFits DEF PeerSends, PeerEnds, copies
  <2>8. CASE \E s \in Sides : CloseIdle(c, s)
    BY <2>8, CloseIdleFits
  <2> QED
    BY <2>1, <2>2, <2>3, <2>4, <2>5, <2>6, <2>7, <2>8 DEF Handle
<1> QED
  BY <1>1, <1>2

\* A handler that is over has closed its sockets or given them back to net/http,
\* and those only that are its own: the client of an HTTP request that was not
\* hijacked, the destination of a plain one.  The first copy of a CONNECT that
\* ends has closed both sockets under the other, and the pool is whole when no
\* copy runs, for any number of connections: what ConnectionEnds says is reached
\* in the end cannot be left half done.
THEOREM NothingStaysOpen == Spec => []NothingIsHeld
<1>1. ASSUME Init PROVE SocketsFit
  <2> SUFFICES ASSUME NEW c \in Conns PROVE Sockets(c)
    BY DEF SocketsFit
  <2>1. at[c] = "idle" /\ \A s \in Sides : copy[c][s] = "none" /\ sock[c][s] = "none"
    BY <1>1 DEF Init, PerSide
  <2>2. copy[c]["dest"] = "none"
    BY <2>1 DEF Sides
  <2> QED
    BY <2>1, <2>2 DEF Sockets
<1>2. Spec => []SocketsFit
  BY <1>1, NextFits, Invariant, PTL DEF Spec
<1>3. ASSUME IInv, SocketsFit PROVE NothingIsHeld
  <2>1. (\A c \in Conns, s \in Sides : copy[c][s] \notin {"read", "write"}) => pool = Buffers
    BY <1>3 DEF IInv, TypeOK, BuffersFit, Holds
  <2> QED
    BY <1>3, <2>1 DEF SocketsFit, Sockets, NothingIsHeld
<1> QED
  BY <1>2, <1>3, Invariant, PTL

------------------------------------------------------------------------------
(***************************************************************************)
(* The dial race of the Android resolver.                                  *)
(***************************************************************************)

\* A conn exists from the successful dial on; only a loser's is closed.
SocketFits ==
    \A d \in DnsServers :
        /\ dialer[d] \in {"dial", "fail"} => conn[d] = "none"
        /\ dialer[d] \in {"lock", "publish", "close"} => conn[d] = "open"

\* d has passed its lock section as the winner.
Claimed(d) == dialer[d] \in {"publish", "done"} /\ conn[d] = "open"

OneClaims ==
    /\ \A d, e \in DnsServers : Claimed(d) /\ Claimed(e) => d = e
    /\ \A d \in DnsServers : Claimed(d) \/ dialer[d] = "close" \/ conn[d] = "closed" => won

\* What waits in the channel came from dialers that have ended, losers aside.
ChannelFits ==
    \A i \in 1 .. Len(result) : dialer[result[i]] = "done" /\ conn[result[i]] # "closed"

\* While the caller waits nothing has been taken out of the channel, and the
\* race is won by a dialer only.
NothingTaken ==
    main = "select" =>
        /\ \A d \in DnsServers : dialer[d] = "done" /\ conn[d] # "closed" =>
              \E i \in 1 .. Len(result) : result[i] = d
        /\ won => \E d \in DnsServers : Claimed(d)

OutcomeFits == outcome # NoServer => dialer[outcome] = "done" /\ conn[outcome] = "open"

ClosedLast == closed => AllDone

RaceIInv ==
    /\ RaceTypeOK /\ SocketFits /\ OneClaims /\ ChannelFits /\ NothingTaken
    /\ OutcomeFits /\ ClosedLast

------------------------------------------------------------------------------
LEMMA RaceInitIInv == RaceInit => RaceIInv
<1> SUFFICES ASSUME RaceInit PROVE RaceIInv
  OBVIOUS
<1>1. RaceTypeOK
  <2>1. result \in Seq(DnsServers) /\ Len(result) = 0
    BY EmptySeq DEF RaceInit
  <2>2. \A i, j \in 1 .. Len(result) : result[i] = result[j] => i = j
    BY <2>1
  <2>3. dialer \in [DnsServers -> Points] /\ conn \in [DnsServers -> {"none", "open", "closed"}]
    BY DEF RaceInit, Points
  <2>4. /\ won \in BOOLEAN /\ closed \in BOOLEAN /\ over \in BOOLEAN
        /\ main \in {"select", "mark", "returned"} /\ outcome \in DnsServers \cup {NoServer}
    BY DEF RaceInit
  <2> QED
    BY <2>1, <2>2, <2>3, <2>4 DEF RaceTypeOK
<1>2. SocketFits /\ OneClaims /\ NothingTaken /\ OutcomeFits /\ ClosedLast
  BY DEF RaceInit, SocketFits, OneClaims, Claimed, NothingTaken, OutcomeFits, ClosedLast
<1>3. ChannelFits
  BY DEF RaceInit, ChannelFits
<1> QED
  BY <1>1, <1>2, <1>3 DEF RaceIInv

(***************************************************************************)
(* A dialer's step that leaves the channel alone.                          *)
(***************************************************************************)
LEMMA DialStepKeeps ==
    ASSUME RaceIInv, NEW d \in DnsServers, DialSucceeds(d) \/ DialFails(d)
    PROVE  RaceIInv'
<1> USE DEF DialSucceeds, DialFails, Move, RaceUnchanged
<1>1. RaceTypeOK'
  BY DEF RaceIInv, RaceTypeOK, Points
<1>2. SocketFits'
  BY DEF RaceIInv, RaceTypeOK, SocketFits
<1>3. OneClaims'
  BY DEF RaceIInv, RaceTypeOK, OneClaims, Claimed
<1>4. ChannelFits'
  BY DEF RaceIInv, RaceTypeOK, ChannelFits
<1>5. NothingTaken'
  BY DEF RaceIInv, RaceTypeOK, NothingTaken, Claimed
<1>6. OutcomeFits' /\ ClosedLast'
  BY DEF RaceIInv, RaceTypeOK, OutcomeFits, ClosedLast, AllDone
<1> QED
  BY <1>1, <1>2, <1>3, <1>4, <1>5, <1>6 DEF RaceIInv

LEMMA ClaimKeeps == ASSUME RaceIInv, NEW d \in DnsServers, Claim(d) PROVE RaceIInv'
<1> USE DEF Claim, Move, RaceUnchanged
<1>1. RaceTypeOK'
  BY DEF RaceIInv, RaceTypeOK, Points
<1>2. SocketFits'
  BY DEF RaceIInv, RaceTypeOK, SocketFits
<1>3. OneClaims'
  BY DEF RaceIInv, RaceTypeOK, OneClaims, SocketFits, Claimed
<1>4. ChannelFits'
  BY DEF RaceIInv, RaceTypeOK, ChannelFits
<1>5. NothingTaken'
  BY DEF RaceIInv, RaceTypeOK, NothingTaken, SocketFits, Claimed
<1>6. OutcomeFits' /\ ClosedLast'
  BY DEF RaceIInv, RaceTypeOK, OutcomeFits, ClosedLast, AllDone
<1> QED
  BY <1>1, <1>2, <1>3, <1>4, <1>5, <1>6 DEF RaceIInv

LEMMA CloseConnKeeps == ASSUME RaceIInv, NEW d \in DnsServers, CloseConn(d) PROVE RaceIInv'
<1> USE DEF CloseConn, Move, RaceUnchanged
<1>1. RaceTypeOK'
  BY DEF RaceIInv, RaceTypeOK, Points
<1>2. SocketFits'
  BY DEF RaceIInv, RaceTypeOK, SocketFits
<1>3. OneClaims'
  BY DEF RaceIInv, RaceTypeOK, OneClaims, Claimed
<1>4. ChannelFits'
  BY DEF RaceIInv, RaceTypeOK, ChannelFits
<1>5. NothingTaken'
  BY DEF RaceIInv, RaceTypeOK, NothingTaken, Claimed
<1>6. OutcomeFits' /\ ClosedLast'
  BY DEF RaceIInv, RaceTypeOK, OutcomeFits, ClosedLast, AllDone
<1> QED
  BY <1>1, <1>2, <1>3, <1>4, <1>5, <1>6 DEF RaceIInv

(***************************************************************************)
(* A dialer publishes its result.                                          *)
(***************************************************************************)
LEMMA PublishKeeps ==
    ASSUME RaceIInv, NEW d \in DnsServers, SendError(d) \/ Publish(d)
    PROVE  RaceIInv'
<1> USE DEF SendError, Publish, Move, RaceUnchanged
<1>1. /\ result \in Seq(DnsServers) /\ result' = Append(result, d)
      /\ dialer[d] \in {"fail", "publish"} /\ dialer' = [dialer EXCEPT ![d] = "done"]
      /\ UNCHANGED <<conn, won, closed, over, main, outcome>>
  BY DEF RaceIInv, RaceTypeOK
<1>2. /\ Len(result') = Len(result) + 1 /\ result' \in Seq(DnsServers)
      /\ \A i \in 1 .. Len(result) : result'[i] = result[i]
      /\ result'[Len(result) + 1] = d
  BY <1>1
<1>3. \A i \in 1 .. Len(result) : result[i] \in DnsServers /\ result[i] # d
  BY <1>1, ElementOfSeq DEF RaceIInv, ChannelFits
<1>4. Len(result) \in Nat
  BY <1>1
<1>5. RaceTypeOK'
  <2>1. ASSUME NEW i \in 1 .. Len(result'), NEW j \in 1 .. Len(result'),
               result'[i] = result'[j]
        PROVE  i = j
    BY <1>2, <1>3, <1>4, <2>1 DEF RaceIInv, RaceTypeOK
  <2>2. dialer' \in [DnsServers -> Points]
    BY <1>1 DEF RaceIInv, RaceTypeOK, Points
  <2> QED
    BY <1>1, <1>2, <2>1, <2>2 DEF RaceIInv, RaceTypeOK
<1>6. SocketFits'
  BY <1>1 DEF RaceIInv, RaceTypeOK, SocketFits
<1>7. OneClaims'
  BY <1>1 DEF RaceIInv, RaceTypeOK, OneClaims, SocketFits, Claimed
<1>8. ChannelFits'
  <2>1. ASSUME NEW i \in 1 .. Len(result')
        PROVE  dialer'[result'[i]] = "done" /\ conn[result'[i]] # "closed"
    <3>1. CASE i = Len(result) + 1
      BY <1>1, <1>2, <3>1 DEF RaceIInv, RaceTypeOK, SocketFits
    <3>2. CASE i \in 1 .. Len(result)
      BY <1>1, <1>2, <1>3, <3>2 DEF RaceIInv, RaceTypeOK, ChannelFits
    <3> QED
      BY <1>2, <1>4, <3>1, <3>2
  <2> QED
    BY <1>1, <2>1 DEF ChannelFits
<1>9. NothingTaken'
  <2> SUFFICES ASSUME main = "select" PROVE NothingTaken'
    BY <1>1 DEF NothingTaken
  <2>1. ASSUME NEW e \in DnsServers, dialer'[e] = "done", conn[e] # "closed"
        PROVE  \E i \in 1 .. Len(result') : result'[i] = e
    <3>1. CASE e = d
      BY <1>2, <1>4, <3>1
    <3>2. CASE e # d
      <4>1. PICK i \in 1 .. Len(result) : result[i] = e
        BY <1>1, <2>1, <3>2 DEF RaceIInv, RaceTypeOK, NothingTaken
      <4> QED
        BY <1>2, <1>4, <4>1
    <3> QED
      BY <3>1, <3>2
  <2>2. won => \E e \in DnsServers : (Claimed(e))'
    BY <1>1 DEF RaceIInv, RaceTypeOK, NothingTaken, Claimed
  <2> QED
    BY <1>1, <2>1, <2>2 DEF NothingTaken
<1>10. OutcomeFits' /\ ClosedLast'
  BY <1>1 DEF RaceIInv, RaceTypeOK, OutcomeFits, ClosedLast, AllDone
<1> QED
  BY <1>5, <1>6, <1>7, <1>8, <1>9, <1>10 DEF RaceIInv

(***************************************************************************)
(* The caller, the closer and the deadline.                                *)
(***************************************************************************)
LEMMA CallerReceiveKeeps == ASSUME RaceIInv, ReceiveConn \/ ReceiveError PROVE RaceIInv'
<1> USE DEF ReceiveConn, ReceiveError, Succeeded
<1>1. /\ result \in Seq(DnsServers) /\ result # << >> /\ result' = Tail(result)
      /\ main' # "select" /\ main' \in {"mark", "returned"}
      /\ UNCHANGED <<dialer, conn, won, closed>> /\ over' \in BOOLEAN
  BY DEF RaceIInv, RaceTypeOK
<1>2. /\ Head(result) \in DnsServers /\ Tail(result) \in Seq(DnsServers)
      /\ Len(Tail(result)) = Len(result) - 1
      /\ \A i \in 1 .. Len(Tail(result)) : Tail(result)[i] = result[i + 1]
      /\ Len(result) \in Nat \ {0} /\ Head(result) = result[1]
  <2>1. /\ Head(result) \in DnsServers /\ Tail(result) \in Seq(DnsServers)
        /\ Len(Tail(result)) = Len(result) - 1
        /\ \A i \in 1 .. Len(Tail(result)) : Tail(result)[i] = result[i + 1]
    BY <1>1, HeadTailProperties
  <2>2. Len(result) \in Nat \ {0}
    BY <1>1, EmptySeq, LenProperties
  <2>3. Head(result) = result[1]
    BY <1>1
  <2> QED
    BY <2>1, <2>2, <2>3
<1>3. \A i \in 1 .. Len(result') : i + 1 \in 1 .. Len(result) /\ result'[i] = result[i + 1]
  BY <1>1, <1>2
<1>4. dialer[Head(result)] = "done" /\ conn[Head(result)] # "closed"
  BY <1>2 DEF RaceIInv, ChannelFits
<1>5. \/ outcome' = outcome
      \/ outcome' = Head(result) /\ conn[Head(result)] = "open"
  BY <1>2, <1>4 DEF RaceIInv, RaceTypeOK
<1>6. RaceTypeOK'
  <2>1. ASSUME NEW i \in 1 .. Len(result'), NEW j \in 1 .. Len(result'),
               result'[i] = result'[j]
        PROVE  i = j
    BY <1>2, <1>3, <2>1 DEF RaceIInv, RaceTypeOK
  <2> QED
    BY <1>1, <1>2, <1>5, <2>1 DEF RaceIInv, RaceTypeOK
<1>7. SocketFits' /\ OneClaims' /\ ClosedLast'
  BY <1>1 DEF RaceIInv, SocketFits, OneClaims, Claimed, ClosedLast, AllDone
<1>8. ChannelFits'
  BY <1>1, <1>3 DEF RaceIInv, ChannelFits
<1>9. NothingTaken'
  BY <1>1 DEF NothingTaken
<1>10. OutcomeFits'
  BY <1>1, <1>4, <1>5 DEF RaceIInv, OutcomeFits
<1> QED
  BY <1>6, <1>7, <1>8, <1>9, <1>10 DEF RaceIInv

LEMMA OthersKeep ==
    ASSUME RaceIInv, SelectDone \/ MarkOver \/ CloseChannel \/ Deadline \/ UNCHANGED raceVars
    PROVE  RaceIInv'
<1> USE DEF SelectDone, MarkOver, CloseChannel, Deadline, raceVars
<1>1. UNCHANGED <<dialer, conn, result, outcome>> /\ (won => won')
  BY DEF RaceIInv, RaceTypeOK
<1>2. RaceTypeOK'
  BY DEF RaceIInv, RaceTypeOK
<1>3. SocketFits' /\ ChannelFits' /\ OutcomeFits'
  BY <1>1 DEF RaceIInv, SocketFits, ChannelFits, OutcomeFits
<1>4. OneClaims'
  BY <1>1 DEF RaceIInv, OneClaims, Claimed
<1>5. NothingTaken'
  BY <1>1 DEF RaceIInv, NothingTaken, Claimed
<1>6. ClosedLast'
  BY <1>1 DEF RaceIInv, ClosedLast, AllDone
<1> QED
  BY <1>2, <1>3, <1>4, <1>5, <1>6 DEF RaceIInv

LEMMA RaceStepIInv == RaceIInv /\ [RaceNext]_raceVars => RaceIInv'
<1> SUFFICES ASSUME RaceIInv, [RaceNext]_raceVars PROVE RaceIInv'
  OBVIOUS
<1>1. ASSUME NEW d \in DnsServers, Dialer(d) PROVE RaceIInv'
  BY <1>1, DialStepKeeps, ClaimKeeps, CloseConnKeeps, PublishKeeps DEF Dialer
<1>2. CASE Caller \/ CloseChannel \/ Deadline \/ UNCHANGED raceVars
  BY <1>2, CallerReceiveKeeps, OthersKeep DEF Caller
<1> QED
  BY <1>1, <1>2 DEF RaceNext

\* The inductive invariant of the race.
THEOREM RaceInvariant == RaceSpec => []RaceIInv
<1> QED
  BY RaceInitIInv, RaceStepIInv, PTL DEF RaceSpec

\* Types, and no dialer twice in the channel.
THEOREM RaceTypeCorrect == RaceSpec => []RaceTypeOK
<1>1. RaceIInv => RaceTypeOK
  BY DEF RaceIInv
<1> QED
  BY <1>1, RaceInvariant, PTL

\* One conn at most survives the race, and what Dial returns is that one, open.
THEOREM OneDialerWins == RaceSpec => []OneWinner
<1>1. RaceIInv => OneWinner
  BY DEF RaceIInv, OneClaims, Claimed, OutcomeFits, OneWinner
<1> QED
  BY <1>1, RaceInvariant, PTL

\* Publishing never blocks and never meets a closed channel, for any number of
\* servers: the channel holds different dialers, the one at hand not among them.
THEOREM SendsAreSafe == RaceSpec => []SendIsSafe
<1>1. ASSUME RaceIInv, NEW d \in DnsServers, dialer[d] \in {"fail", "publish"}
      PROVE  Len(result) < Capacity /\ ~closed
  <2>1. result \in [1 .. Len(result) -> DnsServers \ {d}] /\ Len(result) \in Nat
    BY <1>1, LenProperties DEF RaceIInv, RaceTypeOK, ChannelFits
  <2>2. result \in Injection(1 .. Len(result), DnsServers \ {d})
    BY <1>1, <2>1 DEF RaceIInv, RaceTypeOK, Injection, IsInjective
  <2>3. IsFiniteSet(DnsServers \ {d}) /\ Cardinality(DnsServers \ {d}) = Capacity - 1
    BY ServersAssumption, FS_RemoveElement DEF Capacity
  <2>4. Cardinality(1 .. Len(result)) <= Cardinality(DnsServers \ {d})
    BY <2>2, <2>3, FS_Injection
  <2>5. Cardinality(1 .. Len(result)) = Len(result)
    <3>1. 1 \in Int /\ Len(result) \in Int /\ Len(result) >= 0
      BY <2>1
    <3>2. Cardinality(1 .. Len(result)) = IF 1 > Len(result) THEN 0 ELSE Len(result) - 1 + 1
      BY <3>1, FS_Interval
    <3> QED
      BY <3>1, <3>2
  <2>6. Capacity \in Nat
    BY ServersAssumption, FS_CardinalityType DEF Capacity
  <2>7. ~closed
    BY <1>1 DEF RaceIInv, ClosedLast, AllDone
  <2> QED
    BY <2>1, <2>3, <2>4, <2>5, <2>6, <2>7
<1>2. RaceIInv => SendIsSafe
  BY <1>1 DEF SendIsSafe
<1> QED
  BY <1>2, RaceInvariant, PTL

\* A closed channel still holds a result for a caller that waits: if every dialer
\* had lost, one of them would have won.
THEOREM TotalFailureIsHeard == RaceSpec => []ClosedChannelHasAResult
<1>1. ASSUME RaceIInv, main = "select", closed, result = << >> PROVE FALSE
  <2>1. \A d \in DnsServers : dialer[d] = "done" /\ conn[d] = "closed"
    BY <1>1 DEF RaceIInv, ClosedLast, AllDone, NothingTaken
  <2>2. PICK d \in DnsServers : TRUE
    BY ServersAssumption
  <2>3. won
    BY <1>1, <2>1, <2>2 DEF RaceIInv, OneClaims
  <2>4. \E e \in DnsServers : Claimed(e)
    BY <1>1, <2>3 DEF RaceIInv, NothingTaken
  <2> QED
    BY <2>1, <2>4 DEF Claimed
<1>2. RaceIInv => ClosedChannelHasAResult
  BY <1>1 DEF ClosedChannelHasAResult
<1> QED
  BY <1>2, RaceInvariant, PTL

(***************************************************************************)
(* What the race leaves behind.                                            *)
(***************************************************************************)

\* A winner that has published is the one Dial returned, or is in the channel.
PublishedFits ==
    \A d \in DnsServers : dialer[d] = "done" /\ conn[d] = "open" =>
        d = outcome \/ \E i \in 1 .. Len(result) : result[i] = d

\* When everybody is done, the only conn that nobody closes but its user is the
\* one Dial has returned, or, if it returned an error, one result left in the
\* channel.
OneLeftover ==
    AllDone /\ main = "returned" =>
        \A d \in DnsServers : conn[d] = "open" /\ d # outcome =>
            /\ outcome = NoServer
            /\ \E i \in 1 .. Len(result) : result[i] = d
            /\ \A e \in DnsServers : conn[e] = "open" => e = d

LEMMA PublishFits ==
    ASSUME RaceIInv, PublishedFits, NEW d \in DnsServers, SendError(d) \/ Publish(d)
    PROVE  PublishedFits'
<1>1. /\ result \in Seq(DnsServers) /\ result' = Append(result, d)
      /\ dialer' = [dialer EXCEPT ![d] = "done"] /\ dialer \in [DnsServers -> Points]
      /\ UNCHANGED <<conn, outcome>>
  BY DEF SendError, Publish, Move, RaceUnchanged, RaceIInv, RaceTypeOK
<1>2. /\ Len(result) \in Nat /\ Len(result') = Len(result) + 1
      /\ \A i \in 1 .. Len(result) : result'[i] = result[i]
      /\ result'[Len(result) + 1] = d
  BY <1>1
<1>3. \A i \in 1 .. Len(result) : i \in 1 .. Len(result')
  BY <1>2
<1>4. Len(result) + 1 \in 1 .. Len(result')
  BY <1>2
<1>5. ASSUME NEW e \in DnsServers, dialer'[e] = "done", conn[e] = "open", e # outcome
      PROVE  \E i \in 1 .. Len(result') : result'[i] = e
  <2>1. CASE e = d
    BY <1>2, <1>4, <2>1
  <2>2. CASE e # d
    <3>1. dialer[e] = "done"
      BY <1>1, <1>5, <2>2
    <3>2. PICK i \in 1 .. Len(result) : result[i] = e
      BY <1>5, <3>1 DEF PublishedFits
    <3> QED
      BY <1>2, <1>3, <3>2
  <2> QED
    BY <2>1, <2>2
<1> QED
  BY <1>1, <1>5 DEF PublishedFits

LEMMA ReceiveFits ==
    ASSUME RaceIInv, PublishedFits, ReceiveConn \/ ReceiveError
    PROVE  PublishedFits'
<1>1. /\ result \in Seq(DnsServers) /\ result # << >> /\ result' = Tail(result)
      /\ UNCHANGED <<dialer, conn>>
  BY DEF ReceiveConn, ReceiveError, RaceIInv, RaceTypeOK
<1>2. /\ Len(result) \in Nat \ {0} /\ Len(result') = Len(result) - 1 /\ Head(result) = result[1]
      /\ \A i \in 1 .. Len(result') : result'[i] = result[i + 1]
  <2>1. Len(result) \in Nat \ {0}
    BY <1>1, EmptySeq, LenProperties
  <2>2. /\ Len(Tail(result)) = Len(result) - 1
        /\ \A i \in 1 .. Len(Tail(result)) : Tail(result)[i] = result[i + 1]
    BY <1>1, HeadTailProperties
  <2> QED
    BY <1>1, <2>1, <2>2
<1>3. Head(result) \in DnsServers
  BY <1>1, HeadTailProperties
<1>4. ASSUME NEW e \in DnsServers, dialer[e] = "done", conn[e] = "open", e # outcome'
      PROVE  \E i \in 1 .. Len(result') : result'[i] = e
  <2>1. conn[Head(result)] = "open" => outcome' = Head(result)
    BY <1>3 DEF ReceiveConn, ReceiveError, Succeeded
  <2>2. conn[Head(result)] = "open" \/ outcome' = outcome
    BY <1>1, <1>2 DEF ReceiveConn, ReceiveError, Succeeded, RaceIInv, RaceTypeOK, ChannelFits
  <2>3. CASE conn[Head(result)] = "open"
    <3>1. Claimed(e) /\ Claimed(Head(result))
      BY <1>2, <1>4, <2>3 DEF Claimed, RaceIInv, ChannelFits
    <3> QED
      BY <1>3, <1>4, <2>1, <2>3, <3>1 DEF RaceIInv, OneClaims
  <2>4. CASE conn[Head(result)] # "open"
    <3>1. PICK i \in 1 .. Len(result) : result[i] = e
      BY <1>4, <2>2, <2>4 DEF PublishedFits
    <3>2. i # 1
      BY <1>2, <1>4, <2>4, <3>1
    <3>3. i - 1 \in 1 .. Len(result') /\ i - 1 + 1 = i
      BY <1>2, <3>1, <3>2
    <3> QED
      BY <1>2, <3>1, <3>3
  <2> QED
    BY <2>3, <2>4
<1> QED
  BY <1>1, <1>4 DEF PublishedFits

LEMMA StepFits == RaceIInv /\ PublishedFits /\ [RaceNext]_raceVars => PublishedFits'
<1> SUFFICES ASSUME RaceIInv, PublishedFits, [RaceNext]_raceVars PROVE PublishedFits'
  OBVIOUS
<1>1. ASSUME NEW d \in DnsServers,
             DialSucceeds(d) \/ DialFails(d) \/ Claim(d) \/ CloseConn(d)
      PROVE  PublishedFits'
  <2>1. UNCHANGED <<result, outcome>>
    BY <1>1 DEF DialSucceeds, DialFails, Claim, CloseConn, RaceUnchanged
  <2>2. \A e \in DnsServers : dialer'[e] = "done" /\ conn'[e] = "open" =>
            dialer[e] = "done" /\ conn[e] = "open"
    BY <1>1 DEF DialSucceeds, DialFails, Claim, CloseConn, Move, RaceIInv, RaceTypeOK
  <2> QED
    BY <2>1, <2>2 DEF PublishedFits
<1>2. ASSUME NEW d \in DnsServers, SendError(d) \/ Publish(d) PROVE PublishedFits'
  BY <1>2, PublishFits
<1>3. CASE ReceiveConn \/ ReceiveError
  BY <1>3, ReceiveFits
<1>4. CASE SelectDone \/ MarkOver \/ CloseChannel \/ Deadline \/ UNCHANGED raceVars
  BY <1>4 DEF SelectDone, MarkOver, CloseChannel, Deadline, raceVars, PublishedFits
<1> QED
  BY <1>1, <1>2, <1>3, <1>4 DEF RaceNext, Dialer, Caller

\* At most one conn outlives the race without an owner (dns_android.go:14 "we
\* never leak UDP sockets"), none if Dial has returned one: it is the winner's,
\* published into the channel when the caller had left.
THEOREM LeftoverBounded == RaceSpec => []OneLeftover
<1>1. RaceInit => PublishedFits
  BY DEF RaceInit, PublishedFits
<1>2. RaceSpec => []PublishedFits
  BY <1>1, StepFits, RaceInvariant, PTL DEF RaceSpec
<1>3. ASSUME RaceIInv, PublishedFits PROVE OneLeftover
  <2> SUFFICES ASSUME AllDone, NEW d \in DnsServers, conn[d] = "open", d # outcome
               PROVE  /\ outcome = NoServer
                      /\ \E i \in 1 .. Len(result) : result[i] = d
                      /\ \A e \in DnsServers : conn[e] = "open" => e = d
    BY DEF OneLeftover
  <2>1. \A e \in DnsServers : conn[e] = "open" => Claimed(e)
    BY DEF AllDone, Claimed
  <2>2. \A e \in DnsServers : conn[e] = "open" => e = d
    BY <1>3, <2>1 DEF RaceIInv, OneClaims
  <2>3. \E i \in 1 .. Len(result) : result[i] = d
    BY <1>3 DEF AllDone, PublishedFits
  <2>4. outcome = NoServer
    BY <1>3, <2>2 DEF RaceIInv, RaceTypeOK, OutcomeFits
  <2> QED
    BY <2>2, <2>3, <2>4
<1> QED
  BY <1>2, <1>3, RaceInvariant, PTL
==============================================================================
