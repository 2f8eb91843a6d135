------------------------ MODULE ExamplePrograms_proofs ------------------------
(***************************************************************************)
(* Proofs about the example programs, for any number of clients, messages  *)
(* and signals: the goroutines that wait on a signal channel, the map of   *)
(* the TCP server's clients, and the order of the echoes.                  *)
(*                                                                         *)
(* Steps of one client change the state of that client only, so the        *)
(* invariants are stated for one client (or one program) and each action   *)
(* is shown to keep them where it acts and to leave the others alone.      *)
(***************************************************************************)
EXTENDS ExamplePrograms, WellFoundedInduction, TLAPS

MainStates    == {"connecting", "running", "waiting", "reading", "stopping", "exited"}
HandlerStates == {"off", "queued", "accepted", "recv", "echo", "leaving", "closing", "done"}
Goroutines    == {"main", "sender", "heartbeat"}

ControlTypes ==
  /\ kind \in {"tcp", "encrypted", "udp"}
  /\ main \in [Programs -> MainStates]
  /\ sender \in [Clients -> {"off", "select", "waiting", "done"}]
  /\ receiver \in [Clients -> {"off", "running", "done"}]
  /\ acceptor \in Programs
  /\ handler \in [Clients -> HandlerStates]
  /\ ticker \in [Clients -> {"off", "running", "done"}]
  /\ clients \subseteq Clients
  /\ heartbeat \in {"select", "waiting", "done"}

DataTypes ==
  /\ held \in [Clients -> Nat]
  /\ up \in [Clients -> Seq(Nat)]
  /\ down \in [Clients -> Seq(Nat)]
  /\ open \in [Clients -> SUBSET {"client", "server"}]
  /\ sent \in [Clients -> 0 .. MaxMessages]
  /\ ticks \in [Clients -> 0 .. MaxTicks]
  /\ echoed \in [Clients -> Seq(Nat)]

BooleanTypes ==
  /\ reset \in [Clients -> BOOLEAN]
  /\ pending \in [Programs -> BOOLEAN]

SignalTypes ==
  /\ waiters \in [Programs -> Seq(Goroutines)]
  /\ handed \in [Programs -> SUBSET Goroutines]

Types == ControlTypes /\ DataTypes /\ BooleanTypes /\ SignalTypes

-----------------------------------------------------------------------------
\* A client that has not connected has done nothing, and nobody knows of it.
Untouched(c) ==
  main[c] = "connecting" =>
    /\ sender[c] = "off" /\ receiver[c] = "off"
    /\ handler[c] = "off" /\ ticker[c] = "off"
    /\ sent[c] = 0 /\ up[c] = <<>> /\ down[c] = <<>> /\ echoed[c] = <<>>
    /\ waiters[c] = <<>>

\* The UDP server has neither handlers nor their tickers, and its echoes get
\* nowhere.
SilentUDP(c) ==
  kind = "udp" =>
    handler[c] = "off" /\ ticker[c] = "off" /\ down[c] = <<>> /\ echoed[c] = <<>>

\* The accept loop holds the connection it has accepted.
AcceptorHolds == acceptor # Server /\ serverRuns => handler[acceptor] = "accepted"

MapInv ==
  /\ Types
  /\ \A c \in Clients : Untouched(c)
  /\ \A c \in Clients : SilentUDP(c)
  /\ AcceptorHolds
  /\ MapHoldsServedClients

-----------------------------------------------------------------------------
NoDuplicates(q) == \A i, j \in 1 .. Len(q) : q[i] = q[j] => i = j

IsIn(g, q) == \E i \in 1 .. Len(q) : q[i] = g

\* The goroutines of p that may come to a receive next.
mainReady(p)   == main[p] \in {"running", "reading"}
senderReady(p) == p # Server /\ sender[p] = "select"
heartReady(p)  == p = Server /\ heartbeat = "select"

\* A goroutine that is about to receive is not yet among the waiters.
ProgramWaits(p) ==
  /\ NoDuplicates(waiters[p])
  /\ mainReady(p) => ~ IsIn("main", waiters[p])
  /\ senderReady(p) => ~ IsIn("sender", waiters[p])
  /\ heartReady(p) => ~ IsIn("heartbeat", waiters[p])

WaitersInv == \A p \in Programs : ProgramWaits(p)

-----------------------------------------------------------------------------
\* The echoes d on their way to the client follow the ones it has, e, in order
\* and without a gap; what the server sends of its own accord is 0.
InOrder(d, e) ==
  /\ \A n \in 1 .. Len(e) : e[n] = n
  /\ \A j \in 1 .. Len(d) : d[j] # 0 =>
       /\ d[j] > Len(e)
       /\ \A v \in (Len(e) + 1) .. (d[j] - 1) : \E i \in 1 .. Len(d) : i < j /\ d[i] = v
  /\ \A i, j \in 1 .. Len(d) : i < j /\ d[i] # 0 /\ d[j] # 0 => d[i] < d[j]

\* The echoes before number n are with the client or on their way, the others
\* are not.
EchoedBefore(d, e, n) ==
  /\ n > Len(e)
  /\ \A j \in 1 .. Len(d) : d[j] < n
  /\ \A v \in (Len(e) + 1) .. (n - 1) : \E i \in 1 .. Len(d) : d[i] = v

\* The messages u on their way to the server are the last of s messages.
LastOf(u, s) == \A i \in 1 .. Len(u) : u[i] = s - Len(u) + i

\* The number of the next message that the handler of c is to echo.
nextEcho(c) ==
  IF handler[c] = "echo" THEN sent[c] - Len(up[c]) ELSE sent[c] - Len(up[c]) + 1

\* As long as the server can write, no message was lost: what the client has
\* sent is echoed, held by the handler or on its way to it.
NothingLost(c) ==
  /\ LastOf(up[c], sent[c])
  /\ handler[c] = "echo" => held[c] = sent[c] - Len(up[c])
  /\ EchoedBefore(down[c], echoed[c], nextEcho(c))

ClientEcho(c) ==
  /\ InOrder(down[c], echoed[c])
  /\ isTCP /\ isUsable(c, "server") => NothingLost(c)

EchoInv == \A c \in Clients : ClientEcho(c)

-----------------------------------------------------------------------------
(***************************************************************************)
(* The waiting goroutines                                                  *)
(***************************************************************************)
LEMMA LeastIndex ==
  ASSUME NEW T, T \subseteq Nat, T # {}
  PROVE  \E n \in T : \A m \in T : n <= m
<1> DEFINE R == {p \in Nat \X Nat : p[1] < p[2]}
<1>1. IsWellFoundedOn(R, Nat)
  BY NatLessThanWellFounded DEF OpToRel
<1>2. PICK n \in T : \A m \in T : ~ (<<m, n>> \in R)
  BY <1>1, WFMin
<1>3. \A m \in T : ~ (m < n)
  BY <1>2
<1> QED
  BY <1>3

\* RemoveFirst takes out the goroutine, wherever it is, and keeps the others.
LEMMA RemoveFirstIs ==
  ASSUME NEW S, NEW q \in Seq(S), NEW g
  PROVE  \/ ~ IsIn(g, q) /\ RemoveFirst(q, g) = q
         \/ \E k \in 1 .. Len(q) :
              /\ q[k] = g
              /\ RemoveFirst(q, g) = RemoveAt(q, k)
<1> DEFINE I == {i \in 1 .. Len(q) : q[i] = g}
<1>1. CASE I = {}
  <2>1. ~ \E i \in 1 .. Len(q) : q[i] = g
    BY <1>1
  <2> QED
    BY <2>1, Zenon DEF RemoveFirst, IsIn
<1>2. CASE I # {}
  <2>1. \E i \in 1 .. Len(q) : q[i] = g
    BY <1>2
  <2>2. SelectInSeq(q, LAMBDA v : v = g) = Min(I)
    BY <1>2, Zenon DEF SelectInSeq
  <2>3. Min(I) \in I
    <3>1. I \subseteq Nat
      OBVIOUS
    <3> HIDE DEF I
    <3>2. \E n \in I : \A m \in I : n <= m
      BY <1>2, <3>1, LeastIndex
    <3> QED
      BY <3>2 DEF Min
  <2>4. RemoveFirst(q, g) = RemoveAt(q, Min(I))
    BY <2>1, <2>2, Zenon DEF RemoveFirst
  <2> QED
    BY <2>3, <2>4
<1> QED
  BY <1>1, <1>2

LEMMA ConcatTypes ==
  ASSUME NEW S, NEW a \in Seq(S), NEW b \in Seq(S)
  PROVE  a \o b \in Seq(S)
  OBVIOUS

LEMMA ConcatPoints ==
  ASSUME NEW S, NEW a \in Seq(S), NEW b \in Seq(S)
  PROVE  /\ Len(a \o b) = Len(a) + Len(b)
         /\ \A i \in 1 .. (Len(a) + Len(b)) :
              (a \o b)[i] = IF i <= Len(a) THEN a[i] ELSE b[i - Len(a)]
  OBVIOUS

LEMMA CutOut ==
  ASSUME NEW S, NEW q \in Seq(S), NEW k \in 1 .. Len(q)
  PROVE  /\ RemoveAt(q, k) \in Seq(S) /\ Len(RemoveAt(q, k)) = Len(q) - 1
         /\ \A i \in 1 .. Len(RemoveAt(q, k)) :
              RemoveAt(q, k)[i] = IF i < k THEN q[i] ELSE q[i + 1]
<1> DEFINE a == SubSeq(q, 1, k - 1)
           b == SubSeq(q, k + 1, Len(q))
           r == a \o b
<1>1. Len(q) \in Nat /\ k \in Nat /\ k >= 1 /\ k <= Len(q)
  OBVIOUS
<1>2. /\ a \in Seq(S) /\ Len(a) = k - 1
      /\ \A i \in 1 .. (k - 1) : a[i] = q[i]
  BY <1>1
<1>3. /\ b \in Seq(S) /\ Len(b) = Len(q) - k
      /\ \A i \in 1 .. (Len(q) - k) : b[i] = q[k + i]
  BY <1>1
<1> HIDE DEF a, b
<1>4. r \in Seq(S)
  BY <1>2, <1>3, ConcatTypes
<1>5. /\ Len(r) = Len(a) + Len(b)
      /\ \A i \in 1 .. (Len(a) + Len(b)) : r[i] = IF i <= Len(a) THEN a[i] ELSE b[i - Len(a)]
  BY <1>2, <1>3, ConcatPoints
<1> HIDE DEF r
<1>6. Len(r) = Len(q) - 1
  BY <1>1, <1>2, <1>3, <1>5
<1>7. ASSUME NEW i \in 1 .. Len(r) PROVE r[i] = IF i < k THEN q[i] ELSE q[i + 1]
  <2>1. CASE i < k
    BY <1>1, <1>2, <1>3, <1>5, <1>6, <2>1
  <2>2. CASE ~ (i < k)
    <3>1. r[i] = b[i - (k - 1)] /\ (i - (k - 1)) \in 1 .. (Len(q) - k)
      BY <1>1, <1>2, <1>3, <1>5, <1>6, <2>2
    <3>2. k + (i - (k - 1)) = i + 1
      BY <1>1, <1>6
    <3> QED
      BY <1>3, <2>2, <3>1, <3>2
  <2> QED
    BY <2>1, <2>2
<1> QED
  BY <1>4, <1>6, <1>7, Zenon DEF r, a, b, RemoveAt

LEMMA RemoveFirstTypes ==
  ASSUME NEW S, NEW q \in Seq(S), NEW g
  PROVE  RemoveFirst(q, g) \in Seq(S)
<1>1. CASE RemoveFirst(q, g) = q
  BY <1>1
<1>2. CASE RemoveFirst(q, g) # q
  <2>1. PICK k \in 1 .. Len(q) :
          RemoveFirst(q, g) = RemoveAt(q, k)
    BY <1>2, RemoveFirstIs
  <2> QED
    BY <2>1, CutOut
<1> QED
  BY <1>1, <1>2

LEMMA RemoveFirstKeeps ==
  ASSUME NEW S, NEW q \in Seq(S), NEW g, NoDuplicates(q)
  PROVE  /\ NoDuplicates(RemoveFirst(q, g))
         /\ ~ IsIn(g, RemoveFirst(q, g))
         /\ \A h : ~ IsIn(h, q) => ~ IsIn(h, RemoveFirst(q, g))
<1>1. CASE ~ IsIn(g, q) /\ RemoveFirst(q, g) = q
  BY <1>1
<1>2. CASE ~ (~ IsIn(g, q) /\ RemoveFirst(q, g) = q)
  <2>1. PICK k \in 1 .. Len(q) :
              /\ q[k] = g
              /\ RemoveFirst(q, g) = RemoveAt(q, k)
    BY <1>2, RemoveFirstIs
  <2> DEFINE r == RemoveFirst(q, g)
  <2>2. /\ r \in Seq(S) /\ Len(r) = Len(q) - 1
        /\ \A i \in 1 .. Len(r) : r[i] = IF i < k THEN q[i] ELSE q[i + 1]
    BY <2>1, CutOut
  <2> HIDE DEF r
  <2>3. \A i \in 1 .. Len(r) : \E j \in 1 .. Len(q) :
          j # k /\ r[i] = q[j] /\ (j = i \/ j = i + 1) /\ (j = i <=> i < k)
    <3> SUFFICES ASSUME NEW i \in 1 .. Len(r)
                 PROVE  \E j \in 1 .. Len(q) :
                          j # k /\ r[i] = q[j] /\ (j = i \/ j = i + 1) /\ (j = i <=> i < k)
      OBVIOUS
    <3>0. Len(q) \in Nat /\ k \in Nat /\ i \in Nat /\ i <= Len(q) - 1 /\ i >= 1
      BY <2>2
    <3>1. CASE i < k
      <4>1. i \in 1 .. Len(q) /\ i # k /\ r[i] = q[i]
        BY <2>2, <3>0, <3>1
      <4> QED
        BY <3>1, <4>1
    <3>2. CASE ~ (i < k)
      <4>1. (i + 1) \in 1 .. Len(q) /\ i + 1 # k /\ r[i] = q[i + 1] /\ i + 1 # i
        BY <2>2, <3>0, <3>2
      <4> QED
        BY <3>2, <4>1
    <3> QED
      BY <3>1, <3>2
  <2>4. NoDuplicates(r)
    <3> SUFFICES ASSUME NEW i \in 1 .. Len(r), NEW j \in 1 .. Len(r), r[i] = r[j] PROVE i = j
      BY DEF NoDuplicates
    <3>1. PICK a \in 1 .. Len(q) : a # k /\ r[i] = q[a] /\ (a = i \/ a = i + 1) /\ (a = i <=> i < k)
      BY <2>3
    <3>2. PICK b \in 1 .. Len(q) : b # k /\ r[j] = q[b] /\ (b = j \/ b = j + 1) /\ (b = j <=> j < k)
      BY <2>3
    <3>3. a = b
      BY <3>1, <3>2 DEF NoDuplicates
    <3> QED
      BY <3>1, <3>2, <3>3
  <2>5. ~ IsIn(g, r)
    BY <2>1, <2>3 DEF NoDuplicates, IsIn
  <2>6. \A h : ~ IsIn(h, q) => ~ IsIn(h, r)
    BY <2>3 DEF IsIn
  <2> QED
    BY <2>4, <2>5, <2>6 DEF r
<1> QED
  BY <1>1, <1>2

LEMMA AppendKeeps ==
  ASSUME NEW S, NEW q \in Seq(S), NEW g \in S, NoDuplicates(q), ~ IsIn(g, q)
  PROVE  /\ NoDuplicates(Append(q, g))
         /\ \A h : h # g /\ ~ IsIn(h, q) => ~ IsIn(h, Append(q, g))
<1>1. /\ Len(Append(q, g)) = Len(q) + 1
      /\ \A i \in 1 .. Len(q) : Append(q, g)[i] = q[i]
      /\ Append(q, g)[Len(q) + 1] = g
  OBVIOUS
<1> DEFINE r == Append(q, g)
<1> HIDE DEF r
<1>2. NoDuplicates(r)
  <2> SUFFICES ASSUME NEW i \in 1 .. Len(r), NEW j \in 1 .. Len(r), r[i] = r[j] PROVE i = j
    BY DEF NoDuplicates
  <2> QED
    BY <1>1 DEF NoDuplicates, IsIn, r
<1>3. \A h : h # g /\ ~ IsIn(h, q) => ~ IsIn(h, r)
  BY <1>1 DEF IsIn, r
<1> QED
  BY <1>2, <1>3 DEF r

LEMMA TailKeeps ==
  ASSUME NEW S, NEW q \in Seq(S), q # <<>>, NoDuplicates(q)
  PROVE  /\ NoDuplicates(Tail(q))
         /\ \A h : ~ IsIn(h, q) => ~ IsIn(h, Tail(q))
<1>1. /\ Len(Tail(q)) = Len(q) - 1 /\ Tail(q) \in Seq(S)
      /\ \A i \in 1 .. Len(Tail(q)) : Tail(q)[i] = q[i + 1]
  OBVIOUS
<1> DEFINE r == Tail(q)
<1> HIDE DEF r
<1>2. Len(r) \in Nat /\ Len(q) \in Nat /\ Len(r) = Len(q) - 1
  BY <1>1 DEF r
<1>3. \A i \in 1 .. Len(r) : (i + 1) \in 1 .. Len(q) /\ r[i] = q[i + 1]
  BY <1>1, <1>2 DEF r
<1>4. NoDuplicates(r)
  BY <1>3 DEF NoDuplicates
<1>5. \A h : ~ IsIn(h, q) => ~ IsIn(h, r)
  BY <1>3 DEF IsIn
<1> QED
  BY <1>4, <1>5 DEF r

-----------------------------------------------------------------------------
(***************************************************************************)
(* Types are kept                                                          *)
(***************************************************************************)
LEMMA ProgramsAre ==
  /\ Server \in Programs /\ Server \notin Clients /\ Clients \subseteq Programs
  /\ \A p \in Programs : p = Server \/ p \in Clients
  /\ MaxMessages \in Nat /\ MaxTicks \in Nat
  BY ProgramsAssumption

LEMMA InitTypes == Init => Types
<1> SUFFICES ASSUME Init PROVE Types
  OBVIOUS
<1>1. ControlTypes
  BY ProgramsAre DEF Init, ControlTypes, MainStates, HandlerStates
<1>2. DataTypes
  BY ProgramsAre DEF Init, DataTypes
<1>3. BooleanTypes
  BY DEF Init, SignalInit, BooleanTypes
<1>4. SignalTypes
  BY DEF Init, SignalInit, SignalTypes
<1> QED
  BY <1>1, <1>2, <1>3, <1>4 DEF Types

\* The steps of a client, and the steps of the server that serve it.
ClientStep(c) ==
  \/ Connect(c) \/ Break(c)
  \/ SenderStep(c) \/ ReceiverStep(c) \/ ClientMain(c)

ServiceStep(c) == AcceptStep(c) \/ HandlerStep(c) \/ ServerTick(c)

LEMMA ClientControl ==
  ASSUME ControlTypes, NEW c \in Clients, ClientStep(c)
  PROVE  ControlTypes'
<1>0. c \in Programs
  BY ProgramsAre
<1>1. CASE Connect(c)
  BY <1>0, <1>1 DEF Connect, ControlTypes, MainStates, HandlerStates
<1>2. CASE Break(c)
  BY <1>2 DEF Break, ControlTypes, clientVars, serverVars
<1>3. CASE SenderWaits(c)
  BY <1>3 DEF SenderWaits, ControlTypes, serverVars
<1>4. CASE SenderStops(c)
  BY <1>4 DEF SenderStops, ControlTypes, serverVars
<1>5. CASE TCPClientTick(c) \/ EncryptedClientTick(c) \/ UDPClientTick(c)
  <2>1. /\ UNCHANGED <<kind, main, receiver, serverVars>>
        /\ sender' = [sender EXCEPT ![c] = "select"] \/ sender' = [sender EXCEPT ![c] = "done"]
    BY <1>5 DEF TCPClientTick, EncryptedClientTick, UDPClientTick, SenderTicks, Sent, SendFailed
  <2> QED
    BY <2>1 DEF ControlTypes, serverVars
<1>6. CASE TCPReceiver(c) \/ UDPReceiver(c)
  <2>1. /\ UNCHANGED <<kind, main, sender, serverVars>>
        /\ receiver' = receiver \/ receiver' = [receiver EXCEPT ![c] = "done"]
    BY <1>6 DEF TCPReceiver, UDPReceiver, Received, ReceiverEnds
  <2> QED
    BY <2>1 DEF ControlTypes, serverVars
<1>7. CASE MainWaits(c)
  BY <1>0, <1>7 DEF MainWaits, ControlTypes, MainStates, clientVars, serverVars
<1>8. CASE ClientExits(c)
  BY <1>0, <1>8 DEF ClientExits, ControlTypes, MainStates, serverVars
<1> QED
  BY <1>1, <1>2, <1>3, <1>4, <1>5, <1>6, <1>7, <1>8
     DEF ClientStep, SenderStep, ReceiverStep, ClientMain

LEMMA ServiceControl ==
  ASSUME ControlTypes, NEW c \in Clients, ServiceStep(c)
  PROVE  ControlTypes'
<1>0. c \in Programs /\ Server \in Programs
  BY ProgramsAre
<1>1. CASE Accept(c)
  BY <1>0, <1>1 DEF Accept, startedByAccept, ControlTypes, HandlerStates, clientVars
<1>2. CASE Register(c)
  BY <1>0, <1>2 DEF Register, ControlTypes, HandlerStates, clientVars
<1>3. CASE StartEncrypted(c)
  BY <1>0, <1>3 DEF StartEncrypted, ControlTypes, HandlerStates, clientVars
<1>4. CASE HandlerStep(c)
  <2>1. /\ UNCHANGED <<kind, main, sender, receiver, acceptor, ticker, heartbeat>>
        /\ clients' = clients \/ clients' = clients \ {c}
        /\ \E h \in HandlerStates : handler' = [handler EXCEPT ![c] = h]
    BY <1>4 DEF HandlerStep, HandlerReceives, HandlerFails, HandlerEchoes, HandlerForgets,
                HandlerCloses, afterEcho, HandlerStates, clientVars
  <2> QED
    BY <2>1 DEF ControlTypes
<1>5. CASE ServerTick(c)
  BY <1>5 DEF ServerTick, tickerAfterError, ControlTypes, clientVars
<1> QED
  BY <1>1, <1>2, <1>3, <1>4, <1>5 DEF ServiceStep, AcceptStep

LEMMA ServerControl ==
  ASSUME ControlTypes, ServerMain \/ HeartbeatStep \/ \E p \in Programs : Interrupt(p)
  PROVE  ControlTypes'
<1>0. Server \in Programs
  BY ProgramsAre
<1>1. CASE MainWaits(Server)
  BY <1>0, <1>1 DEF MainWaits, ControlTypes, MainStates, clientVars, serverVars
<1>2. CASE CloseClients
  BY <1>0, <1>2 DEF CloseClients, ControlTypes, MainStates, clientVars, serverVars
<1>3. CASE ServerGone
  BY <1>0, <1>3 DEF ServerGone, ControlTypes, MainStates, HandlerStates, clientVars
<1>4. CASE UDPServerPolls /\ ~ ServerGone
  BY <1>0, <1>4 DEF UDPServerPolls, ControlTypes, MainStates, clientVars, serverVars
<1>5. CASE UDPServerReads
  BY <1>0, <1>5 DEF UDPServerReads, ControlTypes, MainStates, clientVars, serverVars
<1>6. CASE HeartbeatStep
  BY <1>6 DEF HeartbeatStep, HeartbeatWaits, Heartbeat, ControlTypes, clientVars
<1>7. CASE \E p \in Programs : Interrupt(p)
  BY <1>7 DEF Interrupt, ControlTypes, clientVars, serverVars
<1> QED
  BY <1>1, <1>2, <1>3, <1>4, <1>5, <1>6, <1>7
     DEF ServerMain, TCPServerExits, EncryptedServerExits

-----------------------------------------------------------------------------
\* CloseEnds takes away ends of connections, and nothing else.
LEMMA CloseEndsTypes ==
  ASSUME DataTypes, BooleanTypes, NEW cs, NEW end, CloseEnds(cs, end)
  PROVE  /\ UNCHANGED <<up, down>>
         /\ open' \in [Clients -> SUBSET {"client", "server"}]
         /\ reset' \in [Clients -> BOOLEAN]
         /\ \A c \in Clients : open'[c] \subseteq open[c] /\ (reset[c] => reset'[c])
         /\ \A c \in Clients : c \notin cs => open'[c] = open[c] /\ reset'[c] = reset[c]
         /\ \A c \in Clients : c \in cs => end \notin open'[c]
<1>1. /\ UNCHANGED <<up, down>>
      /\ open' = [c \in Clients |-> IF c \in cs THEN open[c] \ {end} ELSE open[c]]
  BY DEF CloseEnds
<1>2. reset' = [c \in Clients |-> \/ reset[c]
                                  \/ /\ c \in cs
                                     /\ end \in open[c]
                                     /\ (IF end = "client" THEN down[c] ELSE up[c]) # <<>>]
  BY Zenon DEF CloseEnds
<1>3. reset' \in [Clients -> BOOLEAN]
  BY <1>2, Zenon
<1>4. \A c \in Clients : reset[c] \in BOOLEAN
  BY Zenon DEF BooleanTypes
<1>5. ASSUME NEW c \in Clients
      PROVE  (reset[c] => reset'[c]) /\ (c \notin cs => reset'[c] = reset[c])
  BY <1>2, <1>4, Zenon
<1>6. /\ open' \in [Clients -> SUBSET {"client", "server"}]
      /\ \A c \in Clients : open'[c] \subseteq open[c]
      /\ \A c \in Clients : c \notin cs => open'[c] = open[c]
      /\ \A c \in Clients : c \in cs => end \notin open'[c]
  BY <1>1 DEF DataTypes
<1> QED
  BY <1>1, <1>3, <1>5, <1>6

\* What may happen to the bytes on their way.
LEMMA QueueTypes ==
  ASSUME NEW q \in [Clients -> Seq(Nat)], NEW r, NEW c \in Clients, NEW m \in Nat,
         \/ r = q
         \/ r = [q EXCEPT ![c] = Append(@, m)]
         \/ q[c] # <<>> /\ r = [q EXCEPT ![c] = Tail(@)]
  PROVE  r \in [Clients -> Seq(Nat)]
<1>1. q[c] \in Seq(Nat)
  OBVIOUS
<1>2. Append(q[c], m) \in Seq(Nat)
  BY <1>1
<1>3. q[c] # <<>> => Tail(q[c]) \in Seq(Nat)
  BY <1>1
<1>4. \A s \in Seq(Nat) : [q EXCEPT ![c] = s] \in [Clients -> Seq(Nat)]
  OBVIOUS
<1> QED
  BY <1>2, <1>3, <1>4

LEMMA TCPWriteTypes ==
  ASSUME DataTypes, BooleanTypes, NEW c \in Clients, NEW end, NEW m \in Nat, TCPWrite(c, end, m)
  PROVE  /\ up' \in [Clients -> Seq(Nat)] /\ down' \in [Clients -> Seq(Nat)]
         /\ open' = open
         /\ reset' \in [Clients -> BOOLEAN]
<1>1. open' = open /\ (reset' = reset \/ reset' = [reset EXCEPT ![c] = TRUE])
  BY Zenon DEF TCPWrite
<1>2. /\ up' = up \/ up' = [up EXCEPT ![c] = Append(@, m)]
      /\ down' = down \/ down' = [down EXCEPT ![c] = Append(@, m)]
  BY Zenon DEF TCPWrite
<1>3. reset' \in [Clients -> BOOLEAN]
  BY <1>1 DEF BooleanTypes
<1>4. up' \in [Clients -> Seq(Nat)]
  BY <1>2, QueueTypes DEF DataTypes
<1>5. down' \in [Clients -> Seq(Nat)]
  BY <1>2, QueueTypes DEF DataTypes
<1> QED
  BY <1>1, <1>3, <1>4, <1>5

LEMMA ReceiveTypes ==
  ASSUME SignalTypes, BooleanTypes, NEW p \in Programs, NEW g \in Goroutines,
         Receive(p, g) \/ Leave(p, g) \/ UNCHANGED signalVars
  PROVE  SignalTypes' /\ pending' \in [Programs -> BOOLEAN]
<1>1. waiters[p] \in Seq(Goroutines) /\ handed[p] \in SUBSET Goroutines
  BY DEF SignalTypes
<1>2. Append(waiters[p], g) \in Seq(Goroutines)
  BY <1>1
<1>3. RemoveFirst(waiters[p], g) \in Seq(Goroutines)
  BY <1>1, RemoveFirstTypes
<1>4. \/ waiters' = waiters
      \/ waiters' = [waiters EXCEPT ![p] = Append(waiters[p], g)]
      \/ waiters' = [waiters EXCEPT ![p] = RemoveFirst(waiters[p], g)]
  BY Zenon DEF Receive, Leave, signalVars
<1>5. handed' = handed \/ handed' = [handed EXCEPT ![p] = @ \cup {g}]
  BY Zenon DEF Receive, Leave, signalVars
<1>6. pending' = pending \/ pending' = [pending EXCEPT ![p] = FALSE]
  BY Zenon DEF Receive, Leave, signalVars
<1>7. waiters' \in [Programs -> Seq(Goroutines)]
  BY <1>2, <1>3, <1>4 DEF SignalTypes
<1>8. handed' \in [Programs -> SUBSET Goroutines]
  BY <1>1, <1>5 DEF SignalTypes
<1>9. pending' \in [Programs -> BOOLEAN]
  BY <1>6 DEF BooleanTypes
<1> QED
  BY <1>7, <1>8, <1>9 DEF SignalTypes

\* What is sent of a client's own messages stays within the bound.
LEMMA SentTypes ==
  ASSUME DataTypes, NEW c \in Clients, Sent(c), sent[c] < MaxMessages
  PROVE  sent' \in [Clients -> 0 .. MaxMessages]
<1>1. sent[c] \in 0 .. MaxMessages /\ sent' = [sent EXCEPT ![c] = @ + 1]
  BY DEF DataTypes, Sent
<1>2. (sent[c] + 1) \in 0 .. MaxMessages
  BY <1>1, ProgramsAre
<1> QED
  BY <1>1, <1>2 DEF DataTypes

LEMMA NextMessage ==
  ASSUME DataTypes, NEW c \in Clients
  PROVE  (sent[c] + 1) \in Nat
  BY ProgramsAre DEF DataTypes

LEMMA ReceivedTypes ==
  ASSUME DataTypes, NEW c \in Clients, Received(c)
  PROVE  down' \in [Clients -> Seq(Nat)] /\ echoed' \in [Clients -> Seq(Nat)]
<1>1. down[c] \in Seq(Nat) /\ echoed[c] \in Seq(Nat) /\ down[c] # <<>>
  BY DEF DataTypes, Received
<1>2. Head(down[c]) \in Nat /\ 0 \in Nat
  BY <1>1
<1>3. down' \in [Clients -> Seq(Nat)]
  BY <1>1, <1>2, QueueTypes DEF DataTypes, Received
<1>4. echoed' = echoed \/ echoed' = [echoed EXCEPT ![c] = Append(@, Head(down[c]))]
  <2>1. echoed' = [echoed EXCEPT ![c] = IF Head(down[c]) = 0 THEN @ ELSE Append(@, Head(down[c]))]
    BY Zenon DEF Received
  <2>2. [echoed EXCEPT ![c] = echoed[c]] = echoed
    BY DEF DataTypes
  <2> QED
    BY <2>1, <2>2
<1>5. echoed' \in [Clients -> Seq(Nat)]
  BY <1>2, <1>4, QueueTypes DEF DataTypes
<1> QED
  BY <1>3, <1>5

\* The variables that a step leaves alone keep their types.
LEMMA FrameTypes ==
  ASSUME DataTypes, BooleanTypes
  PROVE  /\ UNCHANGED <<up, down, open>> => /\ up' \in [Clients -> Seq(Nat)]
                                            /\ down' \in [Clients -> Seq(Nat)]
                                            /\ open' \in [Clients -> SUBSET {"client", "server"}]
         /\ UNCHANGED reset => reset' \in [Clients -> BOOLEAN]
         /\ UNCHANGED connVars => UNCHANGED <<up, down, open>> /\ UNCHANGED reset
         /\ UNCHANGED held => held' \in [Clients -> Nat]
         /\ UNCHANGED sent => sent' \in [Clients -> 0 .. MaxMessages]
         /\ UNCHANGED ticks => ticks' \in [Clients -> 0 .. MaxTicks]
         /\ UNCHANGED echoed => echoed' \in [Clients -> Seq(Nat)]
<1>1. UNCHANGED reset => reset' \in [Clients -> BOOLEAN]
  BY Zenon DEF BooleanTypes
<1> QED
  BY <1>1, Zenon DEF DataTypes, connVars

ConnTypes ==
  /\ up \in [Clients -> Seq(Nat)]
  /\ down \in [Clients -> Seq(Nat)]
  /\ open \in [Clients -> SUBSET {"client", "server"}]
  /\ reset \in [Clients -> BOOLEAN]

LEMMA ConnFrame ==
  ASSUME DataTypes, BooleanTypes, UNCHANGED connVars
  PROVE  ConnTypes'
<1>1. reset' \in [Clients -> BOOLEAN]
  BY Zenon DEF BooleanTypes, connVars
<1> QED
  BY <1>1, Zenon DEF DataTypes, connVars, ConnTypes

LEMMA ConnTCPWrite ==
  ASSUME DataTypes, BooleanTypes, NEW c \in Clients, NEW end, NEW m \in Nat, TCPWrite(c, end, m)
  PROVE  ConnTypes'
  BY TCPWriteTypes, Zenon DEF ConnTypes, DataTypes

LEMMA ConnCloseEnds ==
  ASSUME DataTypes, BooleanTypes, NEW cs, NEW end, CloseEnds(cs, end)
  PROVE  ConnTypes'
<1>1. /\ UNCHANGED <<up, down>>
      /\ open' \in [Clients -> SUBSET {"client", "server"}]
      /\ reset' \in [Clients -> BOOLEAN]
  BY CloseEndsTypes, Zenon
<1> QED
  BY <1>1, Zenon DEF ConnTypes, DataTypes

LEMMA Collect ==
  ASSUME ControlTypes', ConnTypes', SignalTypes', pending' \in [Programs -> BOOLEAN],
         held' \in [Clients -> Nat], sent' \in [Clients -> 0 .. MaxMessages],
         ticks' \in [Clients -> 0 .. MaxTicks], echoed' \in [Clients -> Seq(Nat)]
  PROVE  Types'
  BY Zenon DEF ConnTypes, DataTypes, BooleanTypes, Types

\* Steps of a client.
LEMMA ClientTypes ==
  ASSUME Types, NEW c \in Clients, ClientStep(c)
  PROVE  Types'
<1>0. /\ ControlTypes' /\ c \in Programs
      /\ DataTypes /\ BooleanTypes /\ SignalTypes
  BY ClientControl, ProgramsAre, Zenon DEF Types
<1>1. "sender" \in Goroutines /\ "main" \in Goroutines
  BY DEF Goroutines
<1>2. CASE Connect(c)
  <2>1. /\ UNCHANGED <<up, down, reset, held, sent, ticks, echoed>> /\ UNCHANGED signalVars
        /\ open' = open \/ open' = [open EXCEPT ![c] = {"client", "server"}]
    BY <1>2, Zenon DEF Connect
  <2>2. open' \in [Clients -> SUBSET {"client", "server"}]
    BY <1>0, <2>1 DEF DataTypes
  <2>3. ConnTypes'
    BY <1>0, <2>1, <2>2, Zenon DEF ConnTypes, DataTypes, BooleanTypes
  <2>4. SignalTypes' /\ pending' \in [Programs -> BOOLEAN]
    BY <1>0, <1>1, <2>1, ReceiveTypes
  <2> QED
    BY <1>0, <2>1, <2>3, <2>4, FrameTypes, Collect, Zenon
<1>3. CASE Break(c)
  <2>1. /\ UNCHANGED <<up, down, open, held, sent, ticks, echoed>> /\ UNCHANGED signalVars
        /\ reset' = [reset EXCEPT ![c] = TRUE]
    BY <1>3, Zenon DEF Break, clientVars, serverVars
  <2>2. reset' \in [Clients -> BOOLEAN]
    BY <1>0, <2>1 DEF BooleanTypes
  <2>3. ConnTypes'
    BY <1>0, <2>1, <2>2, Zenon DEF ConnTypes, DataTypes
  <2>4. SignalTypes' /\ pending' \in [Programs -> BOOLEAN]
    BY <1>0, <1>1, <2>1, ReceiveTypes
  <2> QED
    BY <1>0, <2>1, <2>3, <2>4, FrameTypes, Collect, Zenon
<1>4. CASE SenderWaits(c) \/ SenderStops(c) \/ MainWaits(c)
  <2>1. UNCHANGED connVars /\ UNCHANGED <<held, sent, ticks, echoed>>
    BY <1>4, Zenon DEF SenderWaits, SenderStops, MainWaits, clientVars, serverVars
  <2>2. Receive(c, "sender") \/ Receive(c, "main") \/ UNCHANGED signalVars
    BY <1>4, Zenon DEF SenderWaits, SenderStops, MainWaits
  <2>3. SignalTypes' /\ pending' \in [Programs -> BOOLEAN]
    BY <1>0, <1>1, <2>2, ReceiveTypes, Zenon
  <2> QED
    BY <1>0, <2>1, <2>3, ConnFrame, FrameTypes, Collect, Zenon
<1>5. CASE TCPClientTick(c) \/ EncryptedClientTick(c) \/ UDPClientTick(c)
  <2>1. Leave(c, "sender") /\ UNCHANGED <<held, ticks, echoed>>
    BY <1>5, Zenon DEF TCPClientTick, EncryptedClientTick, UDPClientTick, SenderTicks, serverVars
  <2>2. SignalTypes' /\ pending' \in [Programs -> BOOLEAN]
    BY <1>0, <1>1, <2>1, ReceiveTypes, Zenon
  <2>3. \/ Sent(c) /\ sent[c] < MaxMessages
        \/ UNCHANGED sent
    BY <1>5, Zenon DEF TCPClientTick, EncryptedClientTick, UDPClientTick, SendFailed
  <2>4. sent' \in [Clients -> 0 .. MaxMessages]
    BY <1>0, <2>3, SentTypes, FrameTypes, Zenon
  <2>5. \/ TCPWrite(c, "client", sent[c] + 1)
        \/ UNCHANGED connVars
        \/ /\ UNCHANGED <<down, open, reset>>
           /\ \E queue \in UDPWrite(up[c], "client", sent[c] + 1) : up' = [up EXCEPT ![c] = queue]
    BY <1>5, Zenon DEF TCPClientTick, EncryptedClientTick, UDPClientTick, SendFailed
  <2>6. ASSUME UNCHANGED <<down, open, reset>>,
               \E queue \in UDPWrite(up[c], "client", sent[c] + 1) : up' = [up EXCEPT ![c] = queue]
        PROVE  ConnTypes'
    <3>1. up' = up \/ up' = [up EXCEPT ![c] = Append(@, sent[c] + 1)]
      <4>1. [up EXCEPT ![c] = up[c]] = up
        BY <1>0 DEF DataTypes
      <4> QED
        BY <2>6, <4>1, Zenon DEF UDPWrite, hasPeer
    <3>2. up' \in [Clients -> Seq(Nat)]
      BY <1>0, <3>1, QueueTypes, NextMessage DEF DataTypes
    <3>3. down' = down /\ open' = open /\ reset' = reset
      BY <2>6
    <3> QED
      BY <1>0, <3>2, <3>3, Zenon DEF ConnTypes, DataTypes, BooleanTypes
  <2>7. ConnTypes'
    <3>1. (sent[c] + 1) \in Nat
      BY <1>0, NextMessage
    <3>2. CASE TCPWrite(c, "client", sent[c] + 1)
      BY <1>0, <3>1, <3>2, ConnTCPWrite
    <3>3. CASE UNCHANGED connVars
      BY <1>0, <3>3, ConnFrame
    <3> QED
      BY <2>5, <2>6, <3>2, <3>3
  <2> QED
    BY <1>0, <2>1, <2>2, <2>4, <2>7, FrameTypes, Collect, Zenon
<1>6. CASE TCPReceiver(c) \/ UDPReceiver(c)
  <2>1. UNCHANGED signalVars /\ UNCHANGED <<held, sent, ticks>>
    BY <1>6, Zenon DEF TCPReceiver, UDPReceiver, serverVars
  <2>2. SignalTypes' /\ pending' \in [Programs -> BOOLEAN]
    BY <1>0, <1>1, <2>1, ReceiveTypes
  <2>3. Received(c) \/ ReceiverEnds(c)
    BY <1>6, Zenon DEF TCPReceiver, UDPReceiver
  <2>4. CASE ReceiverEnds(c)
    BY <1>0, <2>1, <2>2, <2>4, ConnFrame, FrameTypes, Collect, Zenon DEF ReceiverEnds
  <2>5. CASE Received(c)
    <3>1. UNCHANGED <<up, open, reset>>
      BY <2>5, Zenon DEF Received
    <3>2. ConnTypes' /\ echoed' \in [Clients -> Seq(Nat)]
      BY <1>0, <2>5, <3>1, ReceivedTypes, Zenon DEF ConnTypes, DataTypes, BooleanTypes
    <3> QED
      BY <1>0, <2>1, <2>2, <3>2, FrameTypes, Collect, Zenon
  <2> QED
    BY <2>3, <2>4, <2>5
<1>7. CASE ClientExits(c)
  <2>1. CloseEnds({c}, "client") /\ UNCHANGED signalVars /\ UNCHANGED <<held, sent, ticks, echoed>>
    BY <1>7, Zenon DEF ClientExits, serverVars
  <2>2. SignalTypes' /\ pending' \in [Programs -> BOOLEAN]
    BY <1>0, <1>1, <2>1, ReceiveTypes
  <2> QED
    BY <1>0, <2>1, <2>2, ConnCloseEnds, FrameTypes, Collect, Zenon
<1> QED
  BY <1>2, <1>3, <1>4, <1>5, <1>6, <1>7 DEF ClientStep, SenderStep, ReceiverStep, ClientMain

\* Steps of the server for one client.
LEMMA ServiceTypes ==
  ASSUME Types, NEW c \in Clients, ServiceStep(c)
  PROVE  Types'
<1>0. /\ ControlTypes' /\ c \in Programs
      /\ DataTypes /\ BooleanTypes /\ SignalTypes
  BY ServiceControl, ProgramsAre, Zenon DEF Types
<1>1. UNCHANGED signalVars /\ UNCHANGED <<sent, echoed>>
  BY Zenon DEF ServiceStep, AcceptStep, HandlerStep, Accept, Register, StartEncrypted, HandlerReceives,
     HandlerFails, HandlerEchoes, HandlerForgets, HandlerCloses, ServerTick, clientVars
<1>2. SignalTypes' /\ pending' \in [Programs -> BOOLEAN]
  <2>1. "main" \in Goroutines
    BY DEF Goroutines
  <2> QED
    BY <1>0, <1>1, <2>1, ReceiveTypes
<1>3. CASE AcceptStep(c) \/ HandlerFails(c) \/ HandlerForgets(c)
  <2>1. UNCHANGED connVars /\ UNCHANGED <<held, ticks>>
    BY <1>3, Zenon DEF AcceptStep, Accept, Register, StartEncrypted, HandlerFails, HandlerForgets
  <2> QED
    BY <1>0, <1>1, <1>2, <2>1, ConnFrame, FrameTypes, Collect, Zenon
<1>4. CASE HandlerReceives(c)
  <2>1. /\ UNCHANGED <<down, open, reset, ticks>>
        /\ up[c] # <<>>
        /\ held' = [held EXCEPT ![c] = Head(up[c])]
        /\ up' = [up EXCEPT ![c] = Tail(@)]
    BY <1>4, Zenon DEF HandlerReceives
  <2>2. Head(up[c]) \in Nat
    BY <1>0, <2>1 DEF DataTypes
  <2>3. held' \in [Clients -> Nat]
    BY <1>0, <2>1, <2>2 DEF DataTypes
  <2>4. up' \in [Clients -> Seq(Nat)]
    BY <1>0, <2>1, <2>2, QueueTypes DEF DataTypes
  <2>5. ConnTypes'
    BY <1>0, <2>1, <2>4, Zenon DEF ConnTypes, DataTypes, BooleanTypes
  <2> QED
    BY <1>0, <1>1, <1>2, <2>1, <2>3, <2>5, FrameTypes, Collect, Zenon
<1>5. CASE HandlerEchoes(c)
  <2>1. UNCHANGED <<held, ticks>> /\ (TCPWrite(c, "server", held[c]) \/ UNCHANGED connVars)
    BY <1>5, Zenon DEF HandlerEchoes
  <2>2. held[c] \in Nat
    BY <1>0 DEF DataTypes
  <2>3. ConnTypes'
    BY <1>0, <2>1, <2>2, ConnTCPWrite, ConnFrame, Zenon
  <2> QED
    BY <1>0, <1>1, <1>2, <2>1, <2>3, FrameTypes, Collect, Zenon
<1>6. CASE HandlerCloses(c)
  <2>1. UNCHANGED <<held, ticks>> /\ CloseEnds({c}, "server")
    BY <1>6, Zenon DEF HandlerCloses
  <2> QED
    BY <1>0, <1>1, <1>2, <2>1, ConnCloseEnds, FrameTypes, Collect, Zenon
<1>7. CASE ServerTick(c)
  <2>1. UNCHANGED held /\ (TCPWrite(c, "server", 0) \/ UNCHANGED connVars)
    BY <1>7, Zenon DEF ServerTick
  <2>2. 0 \in Nat
    OBVIOUS
  <2>3. ConnTypes'
    BY <1>0, <2>1, <2>2, ConnTCPWrite, ConnFrame, Zenon
  <2>4. \/ UNCHANGED ticks
        \/ /\ ticks[c] < MaxTicks \/ "client" \notin open[c]
           /\ ticks' = [ticks EXCEPT ![c] = IF "client" \in open[c] THEN @ + 1 ELSE @]
    BY <1>7, Zenon DEF ServerTick
  <2>5. ticks' \in [Clients -> 0 .. MaxTicks]
    <3>1. ticks \in [Clients -> 0 .. MaxTicks] /\ MaxTicks \in Nat
      BY <1>0, ProgramsAre DEF DataTypes
    <3> QED
      BY <2>4, <3>1
  <2> QED
    BY <1>0, <1>1, <1>2, <2>1, <2>3, <2>5, FrameTypes, Collect, Zenon
<1> QED
  BY <1>3, <1>4, <1>5, <1>6, <1>7 DEF ServiceStep, HandlerStep

\* Steps of the server as a whole, and of its user.
OwnStep == ServerMain \/ HeartbeatStep \/ \E p \in Programs : Interrupt(p)

LEMMA SignalKeepsTypes ==
  ASSUME SignalTypes, BooleanTypes, NEW p \in Programs, Signal(p)
  PROVE  SignalTypes' /\ pending' \in [Programs -> BOOLEAN]
<1>1. waiters[p] \in Seq(Goroutines) /\ handed[p] \in SUBSET Goroutines
  BY DEF SignalTypes
<1>2. CASE /\ waiters[p] = <<>>
           /\ pending' = [pending EXCEPT ![p] = buffered]
           /\ UNCHANGED <<waiters, handed>>
  <2>1. pending' = [pending EXCEPT ![p] = TRUE] /\ UNCHANGED <<waiters, handed>>
    BY <1>2, Zenon DEF buffered
  <2>2. pending' \in [Programs -> BOOLEAN]
    BY <2>1 DEF BooleanTypes
  <2> QED
    BY <2>1, <2>2, Zenon DEF SignalTypes
<1>3. CASE /\ waiters[p] # <<>>
           /\ waiters' = [waiters EXCEPT ![p] = Tail(@)]
           /\ handed' = [handed EXCEPT ![p] = @ \cup {Head(waiters[p])}]
           /\ UNCHANGED pending
  <2>1. Tail(waiters[p]) \in Seq(Goroutines) /\ Head(waiters[p]) \in Goroutines
    BY <1>1, <1>3
  <2>2. waiters' \in [Programs -> Seq(Goroutines)]
    BY <1>3, <2>1 DEF SignalTypes
  <2>3. handed' \in [Programs -> SUBSET Goroutines]
    BY <1>1, <1>3, <2>1 DEF SignalTypes
  <2> QED
    BY <1>3, <2>2, <2>3, Zenon DEF SignalTypes, BooleanTypes
<1> QED
  BY <1>2, <1>3, Zenon DEF Signal

LEMMA OwnTypes ==
  ASSUME Types, OwnStep
  PROVE  Types'
<1>0. /\ ControlTypes' /\ Server \in Programs
      /\ DataTypes /\ BooleanTypes /\ SignalTypes
  BY ServerControl, ProgramsAre, Zenon DEF Types, OwnStep
<1>1. "main" \in Goroutines /\ "heartbeat" \in Goroutines
  BY DEF Goroutines
<1>2. CASE MainWaits(Server) \/ HeartbeatStep
  <2>1. UNCHANGED connVars /\ UNCHANGED <<held, sent, ticks, echoed>>
    BY <1>2, Zenon DEF MainWaits, HeartbeatStep, HeartbeatWaits, Heartbeat, clientVars, serverVars
  <2>2. \/ Receive(Server, "main") \/ Receive(Server, "heartbeat")
        \/ Leave(Server, "heartbeat") \/ UNCHANGED signalVars
    BY <1>2, Zenon DEF MainWaits, HeartbeatStep, HeartbeatWaits, Heartbeat
  <2>3. SignalTypes' /\ pending' \in [Programs -> BOOLEAN]
    BY <1>0, <1>1, <2>2, ReceiveTypes, Zenon
  <2> QED
    BY <1>0, <2>1, <2>3, ConnFrame, FrameTypes, Collect, Zenon
<1>3. CASE CloseClients
  <2>1. CloseEnds(clients, "server") /\ UNCHANGED signalVars /\ UNCHANGED <<held, sent, ticks, echoed>>
    BY <1>3, Zenon DEF CloseClients, clientVars, serverVars
  <2>2. SignalTypes' /\ pending' \in [Programs -> BOOLEAN]
    BY <1>0, <1>1, <2>1, ReceiveTypes
  <2> QED
    BY <1>0, <2>1, <2>2, ConnCloseEnds, FrameTypes, Collect, Zenon
<1>4. CASE TCPServerExits \/ EncryptedServerExits \/ (UDPServerPolls /\ ServerGone)
  <2>1. CloseEnds(Clients, "server") /\ UNCHANGED <<held, sent, ticks, echoed>>
    BY <1>4, Zenon DEF TCPServerExits, EncryptedServerExits, ServerGone, clientVars
  <2>2. /\ UNCHANGED <<waiters, handed>>
        /\ UNCHANGED pending \/ pending' = [pending EXCEPT ![Server] = FALSE]
    BY <1>4, Zenon DEF TCPServerExits, EncryptedServerExits, UDPServerPolls, signalVars
  <2>3. pending' \in [Programs -> BOOLEAN]
    BY <1>0, <2>2 DEF BooleanTypes
  <2>4. SignalTypes'
    BY <1>0, <2>2, Zenon DEF SignalTypes
  <2> QED
    BY <1>0, <2>1, <2>3, <2>4, ConnCloseEnds, FrameTypes, Collect, Zenon
<1>5. CASE UDPServerPolls /\ ~ ServerGone
  <2>1. UNCHANGED connVars /\ UNCHANGED signalVars /\ UNCHANGED <<held, sent, ticks, echoed>>
    BY <1>5, Zenon DEF UDPServerPolls, clientVars, serverVars
  <2>2. SignalTypes' /\ pending' \in [Programs -> BOOLEAN]
    BY <1>0, <1>1, <2>1, ReceiveTypes
  <2> QED
    BY <1>0, <2>1, <2>2, ConnFrame, FrameTypes, Collect, Zenon
<1>6. CASE UDPServerReads
  <2>1. UNCHANGED signalVars /\ UNCHANGED <<held, sent, ticks, echoed>>
    BY <1>6, Zenon DEF UDPServerReads, clientVars, serverVars
  <2>2. SignalTypes' /\ pending' \in [Programs -> BOOLEAN]
    BY <1>0, <1>1, <2>1, ReceiveTypes
  <2>3. CASE UNCHANGED connVars
    BY <1>0, <2>1, <2>2, <2>3, ConnFrame, FrameTypes, Collect, Zenon
  <2>4. CASE ~ UNCHANGED connVars
    <3>1. PICK c \in Clients :
            /\ up[c] # <<>>
            /\ up' = [up EXCEPT ![c] = Tail(@)]
            /\ \E queue \in UDPWrite(down[c], "server", Head(up[c])) :
                 down' = [down EXCEPT ![c] = queue]
            /\ UNCHANGED <<open, reset>>
      BY <1>6, <2>4, Zenon DEF UDPServerReads
    <3>2. down' = [down EXCEPT ![c] = down[c]]
      BY <3>1 DEF UDPWrite, hasPeer
    <3>3. down' = down
      BY <1>0, <3>2 DEF DataTypes
    <3>4. up' \in [Clients -> Seq(Nat)]
      <4>1. 0 \in Nat
        OBVIOUS
      <4> QED
        BY <1>0, <3>1, <4>1, QueueTypes DEF DataTypes
    <3>5. open' = open /\ reset' = reset
      BY <3>1
    <3>6. ConnTypes'
      BY <1>0, <3>3, <3>4, <3>5, Zenon DEF ConnTypes, DataTypes, BooleanTypes
    <3> QED
      BY <1>0, <2>1, <2>2, <3>6, FrameTypes, Collect, Zenon
  <2> QED
    BY <2>3, <2>4
<1>7. ASSUME NEW p \in Programs, Interrupt(p) PROVE Types'
  <2>1. UNCHANGED connVars /\ UNCHANGED <<held, sent, ticks, echoed>> /\ Signal(p)
    BY <1>7, Zenon DEF Interrupt, clientVars, serverVars
  <2>2. SignalTypes' /\ pending' \in [Programs -> BOOLEAN]
    BY <1>0, <2>1, SignalKeepsTypes
  <2> QED
    BY <1>0, <2>1, <2>2, ConnFrame, FrameTypes, Collect, Zenon
<1> QED
  BY <1>2, <1>3, <1>4, <1>5, <1>6, <1>7, Zenon DEF OwnStep, ServerMain

LEMMA StutterTypes == Types /\ UNCHANGED vars => Types'
<1> SUFFICES ASSUME Types, UNCHANGED vars PROVE Types'
  OBVIOUS
<1>1. /\ UNCHANGED <<kind, main, sender, receiver, acceptor, handler, ticker, clients, heartbeat>>
      /\ UNCHANGED <<held, up, down, open, sent, ticks, echoed>>
      /\ UNCHANGED <<reset, pending>>
      /\ UNCHANGED <<waiters, handed>>
  BY Zenon DEF vars, signalVars, clientVars, serverVars, connVars
<1>2. ControlTypes'
  BY <1>1 DEF Types, ControlTypes
<1>3. DataTypes'
  BY <1>1 DEF Types, DataTypes
<1>4. BooleanTypes'
  BY <1>1, Zenon DEF Types, BooleanTypes
<1>5. SignalTypes'
  BY <1>1, Zenon DEF Types, SignalTypes
<1> QED
  BY <1>2, <1>3, <1>4, <1>5 DEF Types

\* Every step is one of a client, of the server for a client, or of the server.
LEMMA Steps ==
  ASSUME [Next]_vars
  PROVE  \/ \E c \in Clients : ClientStep(c)
         \/ \E c \in Clients : ServiceStep(c)
         \/ OwnStep
         \/ UNCHANGED vars
  BY Zenon DEF Next, ClientStep, ServiceStep, OwnStep

-----------------------------------------------------------------------------
(***************************************************************************)
(* A step for one client leaves the others alone                           *)
(***************************************************************************)
SameControl(d) ==
  /\ main'[d] = main[d] /\ sender'[d] = sender[d] /\ receiver'[d] = receiver[d]
  /\ handler'[d] = handler[d] /\ ticker'[d] = ticker[d] /\ waiters'[d] = waiters[d]

SameData(d) ==
  /\ sent'[d] = sent[d] /\ echoed'[d] = echoed[d] /\ held'[d] = held[d]
  /\ up'[d] = up[d] /\ down'[d] = down[d]
  /\ open'[d] = open[d] /\ reset'[d] = reset[d]

\* What becomes of a queue, of the waiters and of the ends.
LEMMA TCPWriteIs ==
  ASSUME NEW c, NEW end, NEW m, TCPWrite(c, end, m)
  PROVE  /\ up' = up \/ up' = [up EXCEPT ![c] = Append(@, m)]
         /\ down' = down \/ down' = [down EXCEPT ![c] = Append(@, m)]
         /\ reset' = reset \/ reset' = [reset EXCEPT ![c] = TRUE]
         /\ open' = open
  BY Zenon DEF TCPWrite

LEMMA ReceiveIs ==
  ASSUME NEW p, NEW g, Receive(p, g) \/ Leave(p, g)
  PROVE  \/ waiters' = waiters
         \/ waiters' = [waiters EXCEPT ![p] = Append(@, g)]
         \/ waiters' = [waiters EXCEPT ![p] = RemoveFirst(@, g)]
  BY Zenon DEF Receive, Leave

LEMMA ClientTickIs ==
  ASSUME NEW c, TCPClientTick(c) \/ EncryptedClientTick(c) \/ UDPClientTick(c)
  PROVE  /\ UNCHANGED <<kind, main, receiver, echoed, serverVars>> /\ Leave(c, "sender")
         /\ sender' = [sender EXCEPT ![c] = "select"] \/ sender' = [sender EXCEPT ![c] = "done"]
         /\ sender[c] \in {"select", "waiting"}
         /\ sent' = sent \/ sent' = [sent EXCEPT ![c] = @ + 1]
         /\ up' = up \/ \E queue : up' = [up EXCEPT ![c] = queue]
         /\ down' = down
         /\ reset' = reset \/ reset' = [reset EXCEPT ![c] = TRUE]
         /\ open' = open
<1>1. /\ UNCHANGED <<kind, main, receiver, echoed, serverVars>> /\ Leave(c, "sender")
      /\ sender' = [sender EXCEPT ![c] = "select"] \/ sender' = [sender EXCEPT ![c] = "done"]
      /\ sender[c] \in {"select", "waiting"}
      /\ sent' = sent \/ sent' = [sent EXCEPT ![c] = @ + 1]
  BY Zenon DEF TCPClientTick, EncryptedClientTick, UDPClientTick, SenderTicks, Sent, SendFailed
<1>2. \/ TCPWrite(c, "client", sent[c] + 1)
      \/ UNCHANGED connVars
      \/ UNCHANGED <<down, open, reset>> /\ \E queue : up' = [up EXCEPT ![c] = queue]
  BY Zenon DEF TCPClientTick, EncryptedClientTick, UDPClientTick, SendFailed
<1>3. CASE TCPWrite(c, "client", sent[c] + 1)
  <2>1. /\ up' = up \/ up' = [up EXCEPT ![c] = Append(@, sent[c] + 1)]
        /\ reset' = reset \/ reset' = [reset EXCEPT ![c] = TRUE]
        /\ open' = open
    BY <1>3, TCPWriteIs, Zenon
  <2>2. down' = down
    BY <1>3 DEF TCPWrite
  <2> QED
    BY <1>1, <2>1, <2>2, Zenon
<1>4. CASE UNCHANGED connVars
  BY <1>1, <1>4, Zenon DEF connVars
<1>5. CASE UNCHANGED <<down, open, reset>> /\ \E queue : up' = [up EXCEPT ![c] = queue]
  BY <1>1, <1>5, Zenon
<1> QED
  BY <1>2, <1>3, <1>4, <1>5

LEMMA ReceiverIs ==
  ASSUME NEW c, TCPReceiver(c) \/ UDPReceiver(c)
  PROVE  /\ UNCHANGED <<signalVars, kind, main, sender, sent, serverVars, up, open, reset>>
         /\ receiver[c] = "running"
         /\ receiver' = receiver \/ receiver' = [receiver EXCEPT ![c] = "done"]
         /\ \/ UNCHANGED <<down, echoed>>
            \/ /\ down[c] # <<>>
               /\ down' = [down EXCEPT ![c] = Tail(@)]
               /\ echoed' = [echoed EXCEPT ![c] =
                    IF Head(down[c]) = 0 THEN @ ELSE Append(@, Head(down[c]))]
  BY Zenon DEF TCPReceiver, UDPReceiver, Received, ReceiverEnds, connVars

LEMMA ClientOthers ==
  ASSUME Types, NEW c \in Clients, ClientStep(c), NEW d \in Clients, d # c
  PROVE  SameControl(d) /\ SameData(d)
<1>0. /\ ControlTypes /\ DataTypes /\ BooleanTypes /\ SignalTypes
      /\ c \in Programs /\ d \in Programs
  BY ProgramsAre DEF Types
<1>1. CASE Connect(c)
  <2>1. SameControl(d)
    BY <1>0, <1>1 DEF Connect, SameControl, signalVars, ControlTypes
  <2>2. SameData(d)
    BY <1>0, <1>1 DEF Connect, SameData, signalVars, DataTypes
  <2> QED
    BY <2>1, <2>2
<1>2. CASE Break(c)
  <2>1. SameControl(d)
    BY <1>0, <1>2 DEF Break, SameControl, signalVars, clientVars, serverVars
  <2>2. SameData(d)
    BY <1>0, <1>2 DEF Break, SameData, clientVars, serverVars, BooleanTypes
  <2> QED
    BY <2>1, <2>2
<1>3. CASE SenderWaits(c) \/ SenderStops(c) \/ MainWaits(c)
  <2>1. /\ UNCHANGED <<receiver, handler, ticker, sent, echoed, held, up, down, open, reset>>
        /\ Receive(c, "sender") \/ Receive(c, "main") \/ UNCHANGED signalVars
        /\ \/ sender' = [sender EXCEPT ![c] = "waiting"] \/ sender' = [sender EXCEPT ![c] = "done"]
           \/ sender' = sender
        /\ main' = main \/ main' = [main EXCEPT ![c] = "waiting"]
    BY <1>3, Zenon DEF SenderWaits, SenderStops, MainWaits, clientVars, serverVars, connVars
  <2>2. waiters'[d] = waiters[d]
    <3>1. \/ waiters' = waiters
          \/ waiters' = [waiters EXCEPT ![c] = Append(@, "sender")]
          \/ waiters' = [waiters EXCEPT ![c] = Append(@, "main")]
      BY <2>1, Zenon DEF Receive, signalVars
    <3> QED
      BY <1>0, <3>1 DEF SignalTypes
  <2>3. main'[d] = main[d] /\ sender'[d] = sender[d]
    BY <1>0, <2>1 DEF ControlTypes
  <2> QED
    BY <2>1, <2>2, <2>3, Zenon DEF SameControl, SameData
<1>4. CASE TCPClientTick(c) \/ EncryptedClientTick(c) \/ UDPClientTick(c)
  <2>0. /\ UNCHANGED <<main, receiver, echoed, handler, ticker, held, down, open>>
        /\ sender' = [sender EXCEPT ![c] = "select"] \/ sender' = [sender EXCEPT ![c] = "done"]
        /\ sent' = sent \/ sent' = [sent EXCEPT ![c] = @ + 1]
        /\ up' = up \/ \E queue : up' = [up EXCEPT ![c] = queue]
        /\ reset' = reset \/ reset' = [reset EXCEPT ![c] = TRUE]
    BY <1>4, ClientTickIs, Zenon DEF serverVars
  <2>1. waiters'[d] = waiters[d]
    <3>1. waiters' = [waiters EXCEPT ![c] = RemoveFirst(@, "sender")]
      BY <1>4, ClientTickIs DEF Leave
    <3> QED
      BY <1>0, <3>1 DEF SignalTypes
  <2>2. SameControl(d)
    BY <1>0, <2>0, <2>1 DEF SameControl, ControlTypes
  <2>3. sent'[d] = sent[d] /\ echoed'[d] = echoed[d] /\ held'[d] = held[d]
    BY <1>0, <2>0 DEF DataTypes
  <2>4. up'[d] = up[d] /\ down'[d] = down[d] /\ open'[d] = open[d]
    BY <1>0, <2>0 DEF DataTypes
  <2>5. reset'[d] = reset[d]
    BY <1>0, <2>0 DEF BooleanTypes
  <2> QED
    BY <2>2, <2>3, <2>4, <2>5 DEF SameData
<1>5. CASE TCPReceiver(c) \/ UDPReceiver(c)
  <2>1. SameControl(d)
    BY <1>0, <1>5, ReceiverIs DEF SameControl, serverVars, signalVars, ControlTypes
  <2>2. SameData(d)
    BY <1>0, <1>5, ReceiverIs DEF SameData, serverVars, DataTypes
  <2> QED
    BY <2>1, <2>2
<1>6. CASE ClientExits(c)
  <2>1. SameControl(d)
    BY <1>0, <1>6 DEF ClientExits, SameControl, serverVars, signalVars, ControlTypes
  <2>2. CloseEnds({c}, "client") /\ UNCHANGED <<sent, echoed, held>>
    BY <1>6, Zenon DEF ClientExits, serverVars
  <2>3. UNCHANGED <<up, down>> /\ open'[d] = open[d] /\ reset'[d] = reset[d]
    <3>1. d \notin {c}
      OBVIOUS
    <3> QED
      BY <1>0, <2>2, <3>1, CloseEndsTypes, Zenon
  <2> QED
    BY <2>1, <2>2, <2>3, Zenon DEF SameData
<1> QED
  BY <1>1, <1>2, <1>3, <1>4, <1>5, <1>6 DEF ClientStep, SenderStep, ReceiverStep, ClientMain

LEMMA ServiceOthers ==
  ASSUME Types, NEW c \in Clients, ServiceStep(c), NEW d \in Clients, d # c
  PROVE  SameControl(d) /\ SameData(d)
<1>0. /\ ControlTypes /\ DataTypes /\ BooleanTypes /\ SignalTypes
      /\ c \in Programs /\ d \in Programs
  BY ProgramsAre DEF Types
<1>1. UNCHANGED signalVars /\ UNCHANGED <<main, sender, receiver, sent, echoed>>
  BY Zenon DEF ServiceStep, AcceptStep, HandlerStep, Accept, Register, StartEncrypted, HandlerReceives,
     HandlerFails, HandlerEchoes, HandlerForgets, HandlerCloses, ServerTick, clientVars
<1>2. /\ handler' = handler \/ \E h : handler' = [handler EXCEPT ![c] = h]
      /\ ticker' = ticker \/ \E h : ticker' = [ticker EXCEPT ![c] = h]
      /\ held' = held \/ held' = [held EXCEPT ![c] = Head(up[c])]
  BY Zenon DEF ServiceStep, AcceptStep, HandlerStep, Accept, Register, StartEncrypted, HandlerReceives,
     HandlerFails, HandlerEchoes, HandlerForgets, HandlerCloses, ServerTick
<1>3. SameControl(d) /\ held'[d] = held[d]
  BY <1>0, <1>1, <1>2 DEF SameControl, signalVars, ControlTypes, DataTypes
<1>4. \/ UNCHANGED connVars
      \/ UNCHANGED <<down, open, reset>> /\ up' = [up EXCEPT ![c] = Tail(@)]
      \/ TCPWrite(c, "server", held[c]) \/ TCPWrite(c, "server", 0)
      \/ CloseEnds({c}, "server")
  BY Zenon DEF ServiceStep, AcceptStep, HandlerStep, Accept, Register, StartEncrypted, HandlerReceives,
     HandlerFails, HandlerEchoes, HandlerForgets, HandlerCloses, ServerTick
<1>5. up'[d] = up[d] /\ down'[d] = down[d] /\ open'[d] = open[d] /\ reset'[d] = reset[d]
  <2>1. CASE UNCHANGED connVars
    BY <2>1, Zenon DEF connVars
  <2>2. CASE UNCHANGED <<down, open, reset>> /\ up' = [up EXCEPT ![c] = Tail(@)]
    BY <1>0, <2>2 DEF DataTypes
  <2>3. ASSUME NEW m, TCPWrite(c, "server", m)
        PROVE  up'[d] = up[d] /\ down'[d] = down[d] /\ open'[d] = open[d] /\ reset'[d] = reset[d]
    <3>1. /\ up' = up \/ up' = [up EXCEPT ![c] = Append(@, m)]
          /\ down' = down \/ down' = [down EXCEPT ![c] = Append(@, m)]
          /\ open' = open
          /\ reset' = reset \/ reset' = [reset EXCEPT ![c] = TRUE]
      BY <2>3, TCPWriteIs, Zenon
    <3>2. reset'[d] = reset[d]
      BY <1>0, <3>1 DEF BooleanTypes
    <3>3. up'[d] = up[d] /\ down'[d] = down[d]
      BY <1>0, <3>1 DEF DataTypes
    <3> QED
      BY <3>1, <3>2, <3>3
  <2>4. CASE CloseEnds({c}, "server")
    <3>1. d \notin {c}
      OBVIOUS
    <3> QED
      BY <1>0, <2>4, <3>1, CloseEndsTypes, Zenon
  <2> QED
    BY <1>4, <2>1, <2>2, <2>3, <2>4
<1> QED
  BY <1>1, <1>3, <1>5 DEF SameData

-----------------------------------------------------------------------------
(***************************************************************************)
(* The map of the TCP server                                               *)
(***************************************************************************)
Served == {"recv", "echo", "leaving"}

\* The map, client by client.
LEMMA MapIs ==
  ASSUME Types
  PROVE  MapHoldsServedClients <=>
           (kind = "tcp" /\ serverRuns =>
              \A d \in Clients : d \in clients <=> handler[d] \in Served)
<1>1. clients \subseteq Clients
  BY DEF Types, ControlTypes
<1> QED
  BY <1>1 DEF MapHoldsServedClients, Served

LEMMA InitMap == Init => MapInv
<1> SUFFICES ASSUME Init PROVE MapInv
  OBVIOUS
<1>1. Types
  BY InitTypes
<1>2. \A c \in Clients : Untouched(c) /\ SilentUDP(c)
  BY ProgramsAre DEF Init, SignalInit, Untouched, SilentUDP
<1>3. AcceptorHolds
  BY DEF Init, AcceptorHolds
<1>4. MapHoldsServedClients
  BY DEF Init, MapHoldsServedClients
<1> QED
  BY <1>1, <1>2, <1>3, <1>4 DEF MapInv

\* What a client changes of the server: its connection is queued.
LEMMA ClientFrame ==
  ASSUME Types, NEW c \in Clients, ClientStep(c)
  PROVE  /\ UNCHANGED <<kind, acceptor, ticker, clients, heartbeat, held, ticks>>
         /\ main'[Server] = main[Server]
         /\ \/ UNCHANGED handler
            \/ /\ main[c] = "connecting" /\ kind # "udp"
               /\ handler' = [handler EXCEPT ![c] = "queued"]
<1>0. c \in Programs /\ Server \in Programs /\ c # Server /\ main \in [Programs -> MainStates]
      /\ handler \in [Clients -> HandlerStates]
  BY ProgramsAre DEF Types, ControlTypes
<1>1. CASE Connect(c)
  <2>1. \E v : main' = [main EXCEPT ![c] = v]
    BY <1>1, Zenon DEF Connect
  <2>2. main'[Server] = main[Server]
    BY <1>0, <2>1
  <2>3. \/ UNCHANGED handler
        \/ /\ main[c] = "connecting" /\ kind # "udp"
           /\ handler' = [handler EXCEPT ![c] = "queued"]
    BY <1>0, <1>1 DEF Connect, isTCP
  <2> QED
    BY <1>1, <2>2, <2>3, Zenon DEF Connect
<1>2. CASE ClientStep(c) /\ ~ Connect(c)
  <2>1. /\ UNCHANGED kind /\ UNCHANGED serverVars
        /\ main' = main \/ \E v : main' = [main EXCEPT ![c] = v]
    <3>1. CASE Break(c) \/ SenderWaits(c) \/ SenderStops(c) \/ MainWaits(c) \/ ClientExits(c)
      BY <3>1, Zenon DEF Break, SenderWaits, SenderStops, MainWaits, ClientExits
    <3>2. CASE TCPClientTick(c) \/ EncryptedClientTick(c) \/ UDPClientTick(c)
      BY <3>2, ClientTickIs, Zenon
    <3>3. CASE TCPReceiver(c) \/ UDPReceiver(c)
      BY <3>3, ReceiverIs, Zenon
    <3> QED
      BY <1>2, <3>1, <3>2, <3>3 DEF ClientStep, SenderStep, ReceiverStep, ClientMain
  <2>2. main'[Server] = main[Server]
    BY <1>0, <2>1
  <2> QED
    BY <2>1, <2>2, Zenon DEF serverVars
<1> QED
  BY <1>1, <1>2

LEMMA ClientUntouched ==
  ASSUME MapInv, NEW c \in Clients, ClientStep(c)
  PROVE  Untouched(c)' /\ SilentUDP(c)'
<1>0. /\ ControlTypes /\ DataTypes /\ Untouched(c) /\ SilentUDP(c) /\ c \in Programs
      /\ Types /\ Server \in Programs
  BY ProgramsAre DEF MapInv, Types
<1>1. CASE Connect(c)
  <2>1. main'[c] # "connecting"
    BY <1>0, <1>1 DEF Connect, ControlTypes
  <2>2. kind = "udp" => UNCHANGED handler
    BY <1>0, ClientFrame
  <2>3. UNCHANGED <<kind, ticker, down, echoed>>
    BY <1>1 DEF Connect
  <2> QED
    BY <1>0, <2>1, <2>2, <2>3 DEF Untouched, SilentUDP
<1>2. CASE Break(c)
  <2>1. UNCHANGED <<main, sender, receiver, handler, ticker, sent, up, down, echoed, waiters, kind>>
    BY <1>2, Zenon DEF Break, signalVars, clientVars, serverVars
  <2> QED
    BY <1>0, <2>1 DEF Untouched, SilentUDP
<1>3. CASE SenderWaits(c) \/ SenderStops(c) \/ MainWaits(c)
  <2>1. main[c] # "connecting" /\ main'[c] # "connecting"
    <3>1. main[c] # "connecting"
      BY <1>0, <1>3 DEF SenderWaits, SenderStops, MainWaits, Untouched
    <3>2. main' = main \/ main' = [main EXCEPT ![c] = "waiting"]
      BY <1>3, Zenon DEF SenderWaits, SenderStops, MainWaits
    <3> QED
      BY <1>0, <3>1, <3>2 DEF ControlTypes
  <2>2. UNCHANGED <<kind, handler, ticker, down, echoed>>
    BY <1>3, Zenon DEF SenderWaits, SenderStops, MainWaits, clientVars, serverVars, connVars
  <2> QED
    BY <1>0, <2>1, <2>2 DEF Untouched, SilentUDP
<1>4. CASE TCPClientTick(c) \/ EncryptedClientTick(c) \/ UDPClientTick(c)
  <2>1. UNCHANGED <<main, kind, handler, ticker, echoed, down>> /\ sender[c] \in {"select", "waiting"}
    BY <1>4, ClientTickIs, Zenon DEF serverVars
  <2> QED
    BY <1>0, <2>1 DEF Untouched, SilentUDP
<1>5. CASE TCPReceiver(c) \/ UDPReceiver(c)
  <2>1. UNCHANGED <<main, kind, handler, ticker>> /\ receiver[c] = "running"
    BY <1>5, ReceiverIs, Zenon DEF serverVars
  <2>2. down[c] = <<>> => UNCHANGED <<down, echoed>>
    BY <1>5, ReceiverIs, Zenon
  <2> QED
    BY <1>0, <2>1, <2>2 DEF Untouched, SilentUDP
<1>6. CASE ClientExits(c)
  <2>1. main' = [main EXCEPT ![c] = "exited"] /\ UNCHANGED <<kind, handler, ticker, down, echoed>>
    BY <1>6, Zenon DEF ClientExits, CloseEnds, serverVars
  <2>2. main'[c] # "connecting"
    BY <1>0, <2>1 DEF ControlTypes
  <2> QED
    BY <1>0, <2>1, <2>2 DEF Untouched, SilentUDP
<1> QED
  BY <1>1, <1>2, <1>3, <1>4, <1>5, <1>6 DEF ClientStep, SenderStep, ReceiverStep, ClientMain

\* A client that a step does not touch keeps its part of the invariant.
LEMMA OthersUntouched ==
  ASSUME NEW d, SameControl(d), SameData(d), UNCHANGED kind, Untouched(d), SilentUDP(d)
  PROVE  Untouched(d)' /\ SilentUDP(d)'
<1>1. /\ main'[d] = main[d] /\ sender'[d] = sender[d] /\ receiver'[d] = receiver[d]
      /\ handler'[d] = handler[d] /\ ticker'[d] = ticker[d] /\ waiters'[d] = waiters[d]
      /\ sent'[d] = sent[d] /\ echoed'[d] = echoed[d] /\ up'[d] = up[d] /\ down'[d] = down[d]
      /\ kind' = kind
  BY Zenon DEF SameControl, SameData
<1> QED
  BY <1>1, Zenon DEF Untouched, SilentUDP

LEMMA ClientMap ==
  ASSUME MapInv, NEW c \in Clients, ClientStep(c)
  PROVE  MapInv'
<1>1. Types /\ Types'
  BY ClientTypes DEF MapInv
<1>2. ASSUME NEW d \in Clients PROVE Untouched(d)' /\ SilentUDP(d)'
  <2>1. CASE d = c
    BY <2>1, ClientUntouched
  <2>2. CASE d # c
    <3>1. SameControl(d) /\ SameData(d) /\ UNCHANGED kind
      BY <1>1, <2>2, ClientOthers, ClientFrame, Zenon
    <3> QED
      BY <3>1, OthersUntouched DEF MapInv
  <2> QED
    BY <2>1, <2>2
<1>3. /\ UNCHANGED <<kind, acceptor, clients>>
      /\ serverRuns' <=> serverRuns
      /\ \/ UNCHANGED handler
         \/ handler[c] = "off" /\ handler' = [handler EXCEPT ![c] = "queued"]
  <2>1. main[c] = "connecting" => handler[c] = "off"
    BY DEF MapInv, Untouched
  <2> QED
    BY <1>1, <2>1, ClientFrame DEF serverRuns
<1>4. handler \in [Clients -> HandlerStates] /\ acceptor \in Programs
  BY <1>1 DEF Types, ControlTypes
<1>5. AcceptorHolds'
  <2>1. AcceptorHolds
    BY DEF MapInv
  <2> QED
    BY <1>3, <1>4, <2>1, ProgramsAre DEF AcceptorHolds
<1>6. MapHoldsServedClients'
  <2>1. kind = "tcp" /\ serverRuns => \A d \in Clients : d \in clients <=> handler[d] \in Served
    BY <1>1, MapIs DEF MapInv
  <2>2. \A d \in Clients : handler'[d] \in Served <=> handler[d] \in Served
    BY <1>3, <1>4 DEF Served
  <2>3. kind' = "tcp" /\ serverRuns' => \A d \in Clients : d \in clients' <=> handler'[d] \in Served
    BY <1>3, <2>1, <2>2
  <2> QED
    BY <1>1, <1>3, <2>3 DEF MapHoldsServedClients, Served, Types, ControlTypes
<1> QED
  BY <1>1, <1>2, <1>5, <1>6 DEF MapInv

-----------------------------------------------------------------------------
\* The server serves a client that has connected to a TCP server.
LEMMA ServiceOf ==
  ASSUME MapInv, NEW c \in Clients, ServiceStep(c)
  PROVE  main[c] # "connecting" /\ kind # "udp" /\ main'[c] # "connecting" /\ UNCHANGED kind
<1>0. Untouched(c) /\ SilentUDP(c) /\ AcceptorHolds /\ c # Server
  BY ProgramsAre DEF MapInv
<1>1. UNCHANGED <<main, kind>>
  BY Zenon DEF ServiceStep, AcceptStep, HandlerStep, Accept, Register, StartEncrypted, HandlerReceives,
     HandlerFails, HandlerEchoes, HandlerForgets, HandlerCloses, ServerTick
<1>2. handler[c] # "off" \/ ticker[c] # "off"
  <2>1. CASE Accept(c)
    BY <2>1 DEF Accept
  <2>2. CASE Register(c) \/ StartEncrypted(c)
    BY <1>0, <2>2 DEF Register, StartEncrypted, AcceptorHolds
  <2>3. CASE HandlerStep(c)
    BY <2>3 DEF HandlerStep, HandlerReceives, HandlerFails, HandlerEchoes, HandlerForgets,
                HandlerCloses, canReceive
  <2>4. CASE ServerTick(c)
    BY <2>4 DEF ServerTick
  <2> QED
    BY <2>1, <2>2, <2>3, <2>4 DEF ServiceStep, AcceptStep
<1> QED
  BY <1>0, <1>1, <1>2 DEF Untouched, SilentUDP

\* What it changes of the map and of the accept loop.
LEMMA ServiceFrame ==
  ASSUME MapInv, NEW c \in Clients, ServiceStep(c)
  PROVE  AcceptorHolds' /\ MapHoldsServedClients'
<1>0. /\ Types /\ Types' /\ AcceptorHolds /\ c # Server /\ c \in Programs
      /\ handler \in [Clients -> HandlerStates] /\ acceptor \in Programs /\ clients' \subseteq Clients
      /\ \A p \in Programs : p = Server \/ p \in Clients
  <2>1. Types'
    BY ServiceTypes DEF MapInv
  <2> QED
    BY <2>1, ProgramsAre DEF MapInv, Types, ControlTypes
<1>1. UNCHANGED main /\ UNCHANGED kind /\ (serverRuns' <=> serverRuns)
  <2>1. UNCHANGED main /\ UNCHANGED kind
    BY Zenon DEF ServiceStep, AcceptStep, HandlerStep, Accept, Register, StartEncrypted, HandlerReceives,
       HandlerFails, HandlerEchoes, HandlerForgets, HandlerCloses, ServerTick
  <2> QED
    BY <2>1 DEF serverRuns
<1>2. kind = "tcp" /\ serverRuns => \A d \in Clients : d \in clients <=> handler[d] \in Served
  BY <1>0, MapIs DEF MapInv
<1>3. SUFFICES /\ AcceptorHolds'
               /\ kind = "tcp" /\ serverRuns =>
                    \A d \in Clients : d \in clients' <=> handler'[d] \in Served
  BY <1>0, <1>1 DEF MapHoldsServedClients, Served
<1>4. CASE Accept(c)
  <2>1. acceptor' = c /\ handler[c] = "queued" /\ handler' = [handler EXCEPT ![c] = "accepted"]
        /\ clients' = clients
    BY <1>4 DEF Accept, startedByAccept
  <2>2. AcceptorHolds'
    BY <1>0, <2>1 DEF AcceptorHolds
  <2> QED
    BY <1>0, <1>2, <2>1, <2>2 DEF Served
<1>5. CASE Register(c)
  <2>1. /\ acceptor = c /\ serverRuns /\ acceptor' = Server
        /\ clients' = clients \cup {c}
        /\ handler' = [handler EXCEPT ![c] = IF @ = "accepted" THEN "recv" ELSE @]
    BY <1>5 DEF Register
  <2>2. handler[c] = "accepted"
    BY <1>0, <2>1 DEF AcceptorHolds
  <2>3. AcceptorHolds'
    BY <2>1 DEF AcceptorHolds
  <2> QED
    BY <1>0, <1>2, <2>1, <2>2, <2>3 DEF Served
<1>6. CASE StartEncrypted(c)
  BY <1>6 DEF StartEncrypted, AcceptorHolds
<1>7. CASE HandlerStep(c)
  <2>1. /\ acceptor' = acceptor
        /\ handler[c] # "accepted"
        /\ \E h : handler' = [handler EXCEPT ![c] = h]
    BY <1>7 DEF HandlerStep, HandlerReceives, HandlerFails, HandlerEchoes, HandlerForgets,
                HandlerCloses, canReceive
  <2>2. AcceptorHolds'
    BY <1>0, <1>1, <2>1 DEF AcceptorHolds
  <2>3. \/ clients' = clients /\ handler[c] \in Served /\ handler' = [handler EXCEPT ![c] = "recv"]
        \/ clients' = clients /\ handler[c] \in Served /\ handler' = [handler EXCEPT ![c] = "echo"]
        \/ /\ clients' = clients /\ handler[c] \in Served
           /\ handler' = [handler EXCEPT ![c] = IF kind = "tcp" THEN "leaving" ELSE "closing"]
        \/ clients' = clients \ {c} /\ handler' = [handler EXCEPT ![c] = "closing"]
        \/ clients' = clients /\ handler[c] \notin Served /\ handler' = [handler EXCEPT ![c] = "done"]
    BY <1>7 DEF HandlerStep, HandlerReceives, HandlerFails, HandlerEchoes, HandlerForgets,
                HandlerCloses, canReceive, afterEcho, Served
  <2>4. kind = "tcp" /\ serverRuns => \A d \in Clients : d \in clients' <=> handler'[d] \in Served
    BY <1>0, <1>2, <2>3 DEF Served
  <2> QED
    BY <2>2, <2>4
<1>8. CASE ServerTick(c)
  <2>1. UNCHANGED <<acceptor, handler, clients>>
    BY <1>8 DEF ServerTick
  <2> QED
    BY <1>0, <1>1, <1>2, <2>1 DEF AcceptorHolds
<1> QED
  BY <1>4, <1>5, <1>6, <1>7, <1>8 DEF ServiceStep, AcceptStep

LEMMA ServiceMap ==
  ASSUME MapInv, NEW c \in Clients, ServiceStep(c)
  PROVE  MapInv'
<1>1. Types /\ Types'
  BY ServiceTypes DEF MapInv
<1>2. main'[c] # "connecting" /\ kind # "udp" /\ kind' = kind
  BY ServiceOf
<1>3. ASSUME NEW d \in Clients PROVE Untouched(d)' /\ SilentUDP(d)'
  <2>1. CASE d = c
    BY <1>2, <2>1 DEF Untouched, SilentUDP
  <2>2. CASE d # c
    <3>1. SameControl(d) /\ SameData(d) /\ UNCHANGED kind
      BY <1>1, <1>2, <2>2, ServiceOthers, Zenon
    <3> QED
      BY <3>1, OthersUntouched DEF MapInv
  <2> QED
    BY <2>1, <2>2
<1> QED
  BY <1>1, <1>3, ServiceFrame DEF MapInv

-----------------------------------------------------------------------------
\* What the server as a whole and the users change of a client.
LEMMA OwnUntouched ==
  ASSUME MapInv, OwnStep, NEW d \in Clients
  PROVE  /\ UNCHANGED <<kind, sender, receiver, sent, echoed, held, ticks, acceptor>>
         /\ main'[d] = main[d]
         /\ down' = down
         /\ Untouched(d)' /\ SilentUDP(d)'
<1>0. /\ Types /\ DataTypes /\ SignalTypes /\ main \in [Programs -> MainStates]
      /\ Untouched(d) /\ SilentUDP(d)
      /\ d # Server /\ d \in Programs /\ Server \in Programs
  BY ProgramsAre DEF MapInv, Types, ControlTypes
<1>1. UNCHANGED <<kind, sender, receiver, sent, echoed, held, ticks, acceptor>>
  BY Zenon DEF OwnStep, ServerMain, HeartbeatStep, MainWaits, CloseClients, TCPServerExits,
     EncryptedServerExits, UDPServerPolls, UDPServerReads, HeartbeatWaits, Heartbeat, Interrupt,
     ServerGone, clientVars, serverVars
<1>2. main'[d] = main[d]
  <2>1. main' = main \/ \E v : main' = [main EXCEPT ![Server] = v]
    BY Zenon DEF OwnStep, ServerMain, HeartbeatStep, MainWaits, CloseClients, TCPServerExits,
       EncryptedServerExits, UDPServerPolls, UDPServerReads, HeartbeatWaits, Heartbeat, Interrupt,
       ServerGone
  <2> QED
    BY <1>0, <2>1
<1>3. \/ UNCHANGED <<handler, ticker>>
      \/ /\ handler' = [c \in Clients |-> IF handler[c] = "off" THEN "off" ELSE "done"]
         /\ ticker' = [c \in Clients |-> IF ticker[c] = "off" THEN "off" ELSE "done"]
  BY Zenon DEF OwnStep, ServerMain, HeartbeatStep, MainWaits, CloseClients, TCPServerExits,
     EncryptedServerExits, UDPServerPolls, UDPServerReads, HeartbeatWaits, Heartbeat, Interrupt,
     ServerGone, serverVars
<1>4. /\ handler[d] = "off" => handler'[d] = "off"
      /\ ticker[d] = "off" => ticker'[d] = "off"
  BY <1>3
<1>5. \/ UNCHANGED <<up, down>>
      \/ /\ kind = "udp"
         /\ \E c \in Clients : /\ up[c] # <<>>
                               /\ up' = [up EXCEPT ![c] = Tail(@)]
                               /\ \E queue \in UDPWrite(down[c], "server", Head(up[c])) :
                                    down' = [down EXCEPT ![c] = queue]
  BY Zenon DEF OwnStep, ServerMain, HeartbeatStep, MainWaits, CloseClients, TCPServerExits,
     EncryptedServerExits, UDPServerPolls, UDPServerReads, HeartbeatWaits, Heartbeat, Interrupt,
     ServerGone, CloseEnds, connVars
<1>6. down' = down /\ (up[d] = <<>> => up'[d] = <<>>)
  <2>1. CASE UNCHANGED <<up, down>>
    BY <2>1
  <2>2. ASSUME NEW c \in Clients, up[c] # <<>>, up' = [up EXCEPT ![c] = Tail(@)],
               \E queue \in UDPWrite(down[c], "server", Head(up[c])) : down' = [down EXCEPT ![c] = queue]
        PROVE  down' = down /\ (up[d] = <<>> => up'[d] = <<>>)
    <3>1. down' = [down EXCEPT ![c] = down[c]]
      BY <2>2 DEF UDPWrite, hasPeer
    <3> QED
      BY <1>0, <2>2, <3>1 DEF DataTypes
  <2> QED
    BY <1>5, <2>1, <2>2
<1>7. main[d] = "connecting" => waiters'[d] = waiters[d]
  <2>1. CASE ServerMain \/ HeartbeatStep
    <3>1. \/ waiters' = waiters
          \/ waiters' = [waiters EXCEPT ![Server] = Append(@, "main")]
          \/ waiters' = [waiters EXCEPT ![Server] = Append(@, "heartbeat")]
          \/ waiters' = [waiters EXCEPT ![Server] = RemoveFirst(@, "heartbeat")]
      BY <2>1, Zenon DEF ServerMain, HeartbeatStep, MainWaits, CloseClients, TCPServerExits,
         EncryptedServerExits, UDPServerPolls, UDPServerReads, HeartbeatWaits, Heartbeat,
         Receive, Leave, signalVars
    <3> QED
      BY <1>0, <3>1 DEF SignalTypes
  <2>2. ASSUME NEW p \in Programs, Interrupt(p), main[d] = "connecting"
        PROVE  waiters'[d] = waiters[d]
    <3>1. p # d
      BY <2>2 DEF Interrupt
    <3>2. waiters' = waiters \/ waiters' = [waiters EXCEPT ![p] = Tail(@)]
      BY <2>2, Zenon DEF Interrupt, Signal
    <3> QED
      BY <1>0, <3>1, <3>2 DEF SignalTypes
  <2> QED
    BY <2>1, <2>2 DEF OwnStep
<1>8. Untouched(d)' /\ SilentUDP(d)'
  BY <1>0, <1>1, <1>2, <1>4, <1>6, <1>7 DEF Untouched, SilentUDP
<1> QED
  BY <1>1, <1>2, <1>6, <1>8

LEMMA OwnMap ==
  ASSUME MapInv, OwnStep
  PROVE  MapInv'
<1>1. /\ Types /\ Types' /\ AcceptorHolds /\ MapHoldsServedClients
      /\ main \in [Programs -> MainStates] /\ Server \in Programs
  <2>1. Types'
    BY OwnTypes DEF MapInv
  <2> QED
    BY <2>1, ProgramsAre DEF MapInv, Types, ControlTypes
<1>2. \A d \in Clients : Untouched(d)' /\ SilentUDP(d)'
  BY OwnUntouched
<1>3. AcceptorHolds' /\ MapHoldsServedClients'
  <2>1. CASE ServerGone
    <3>1. main'[Server] = "exited"
      BY <1>1, <2>1 DEF ServerGone
    <3> QED
      BY <3>1 DEF AcceptorHolds, MapHoldsServedClients, serverRuns
  <2>2. CASE ~ ServerGone
    <3>1. UNCHANGED <<kind, acceptor, handler, clients>>
      BY <2>2, Zenon DEF OwnStep, ServerMain, HeartbeatStep, MainWaits, CloseClients, TCPServerExits,
         EncryptedServerExits, UDPServerPolls, UDPServerReads, HeartbeatWaits, Heartbeat, Interrupt,
         serverVars
    <3>2. UNCHANGED main \/ main[Server] \in {"running", "waiting", "reading"}
      BY <2>2, Zenon DEF OwnStep, ServerMain, HeartbeatStep, MainWaits, CloseClients, TCPServerExits,
         EncryptedServerExits, UDPServerPolls, UDPServerReads, HeartbeatWaits, Heartbeat, Interrupt
    <3>3. serverRuns' => serverRuns
      BY <3>2 DEF serverRuns
    <3> QED
      BY <1>1, <3>1, <3>3 DEF AcceptorHolds, MapHoldsServedClients
  <2> QED
    BY <2>1, <2>2
<1> QED
  BY <1>1, <1>2, <1>3 DEF MapInv

LEMMA StutterMap == MapInv /\ UNCHANGED vars => MapInv'
<1> SUFFICES ASSUME MapInv, UNCHANGED vars PROVE MapInv'
  OBVIOUS
<1>1. Types'
  BY StutterTypes DEF MapInv
<1>2. /\ UNCHANGED <<kind, main, sender, receiver, acceptor, handler, ticker, clients>>
      /\ UNCHANGED <<up, down, sent, echoed, waiters>>
  BY Zenon DEF vars, signalVars, clientVars, serverVars, connVars
<1> QED
  BY <1>1, <1>2 DEF MapInv, Untouched, SilentUDP, AcceptorHolds, MapHoldsServedClients, serverRuns

LEMMA MapInductive == MapInv /\ [Next]_vars => MapInv'
  BY Steps, ClientMap, ServiceMap, OwnMap, StutterMap

LEMMA MapAlways == Spec => []MapInv
  BY InitMap, MapInductive, PTL DEF Spec

\* Whatever the order of accepts, errors and shutdown, the map of tcp-server
\* holds exactly the clients that handleClient is serving, so that the loop
\* over the map at shutdown closes each of them and nothing else.
THEOREM MapExact == Spec => []MapHoldsServedClients
<1>1. MapInv => MapHoldsServedClients
  BY DEF MapInv
<1> QED
  BY <1>1, MapAlways, PTL

-----------------------------------------------------------------------------
(***************************************************************************)
(* Nobody waits twice                                                      *)
(***************************************************************************)
LEMMA EmptyWaits ==
  /\ NoDuplicates(<<>>)
  /\ \A g : ~ IsIn(g, <<>>)
  BY DEF NoDuplicates, IsIn

\* No goroutine joins the waiters or becomes ready.
LEMMA WaitsShrink ==
  ASSUME NEW p \in Programs, SignalTypes, ProgramWaits(p),
         \/ waiters'[p] = waiters[p]
         \/ waiters[p] # <<>> /\ waiters'[p] = Tail(waiters[p])
         \/ \E g : waiters'[p] = RemoveFirst(waiters[p], g),
         mainReady(p)' => mainReady(p),
         senderReady(p)' => senderReady(p),
         heartReady(p)' => heartReady(p)
  PROVE  ProgramWaits(p)'
<1>1. waiters[p] \in Seq(Goroutines) /\ NoDuplicates(waiters[p])
  BY DEF SignalTypes, ProgramWaits
<1> DEFINE r == waiters'[p]
<1>2. NoDuplicates(r) /\ \A h : ~ IsIn(h, waiters[p]) => ~ IsIn(h, r)
  <2>1. CASE r = waiters[p]
    BY <1>1, <2>1
  <2>2. CASE waiters[p] # <<>> /\ r = Tail(waiters[p])
    BY <1>1, <2>2, TailKeeps
  <2>3. ASSUME NEW g, r = RemoveFirst(waiters[p], g)
        PROVE  NoDuplicates(r) /\ \A h : ~ IsIn(h, waiters[p]) => ~ IsIn(h, r)
    BY <1>1, <2>3, RemoveFirstKeeps
  <2> QED
    BY <2>1, <2>2, <2>3
<1> QED
  BY <1>2, Zenon DEF ProgramWaits

\* A goroutine that was ready joins the waiters, and is not ready any more.
LEMMA WaitsGrow ==
  ASSUME NEW p \in Programs, SignalTypes, ProgramWaits(p), NEW g \in Goroutines,
         \/ waiters'[p] = waiters[p]
         \/ waiters'[p] = Append(waiters[p], g) /\ ~ IsIn(g, waiters[p]),
         mainReady(p)' => mainReady(p) /\ g # "main",
         senderReady(p)' => senderReady(p) /\ g # "sender",
         heartReady(p)' => heartReady(p) /\ g # "heartbeat"
  PROVE  ProgramWaits(p)'
<1>1. waiters[p] \in Seq(Goroutines) /\ NoDuplicates(waiters[p])
  BY DEF SignalTypes, ProgramWaits
<1> DEFINE r == waiters'[p]
<1>2. NoDuplicates(r) /\ \A h : h # g /\ ~ IsIn(h, waiters[p]) => ~ IsIn(h, r)
  <2>1. CASE r = waiters[p]
    BY <1>1, <2>1
  <2>2. CASE r = Append(waiters[p], g) /\ ~ IsIn(g, waiters[p])
    BY <1>1, <2>2, AppendKeeps
  <2> QED
    BY <2>1, <2>2
<1> QED
  BY <1>2, Zenon DEF ProgramWaits

LEMMA InitWaiters == Init => WaitersInv
  BY EmptyWaits DEF Init, SignalInit, WaitersInv, ProgramWaits

\* A program whose control a step leaves alone.
LEMMA WaitsSame ==
  ASSUME NEW p \in Programs, SignalTypes, ProgramWaits(p), waiters'[p] = waiters[p],
         main'[p] = main[p], p # Server => sender'[p] = sender[p],
         p = Server => heartbeat' = heartbeat
  PROVE  ProgramWaits(p)'
<1>1. /\ mainReady(p)' => mainReady(p)
      /\ senderReady(p)' => senderReady(p)
      /\ heartReady(p)' => heartReady(p)
  BY DEF mainReady, senderReady, heartReady
<1> QED
  BY <1>1, WaitsShrink

LEMMA ClientWaits ==
  ASSUME MapInv, WaitersInv, NEW c \in Clients, ClientStep(c)
  PROVE  WaitersInv'
<1>0. /\ Types /\ ControlTypes /\ SignalTypes /\ c \in Programs /\ c # Server /\ Server \in Programs
      /\ ProgramWaits(c) /\ Untouched(c)
      /\ \A p \in Programs : p = Server \/ p \in Clients
  BY ProgramsAre DEF MapInv, Types, WaitersInv
<1>1. ASSUME NEW p \in Programs, p # c PROVE ProgramWaits(p)'
  <2>1. CASE p = Server
    <3>1. main'[p] = main[p] /\ heartbeat' = heartbeat
      BY <1>0, <2>1, ClientFrame
    <3>2. waiters'[p] = waiters[p]
      <4>1. \/ waiters' = waiters
            \/ \E q : waiters' = [waiters EXCEPT ![c] = q]
        <5>1. CASE Connect(c) \/ Break(c) \/ SenderWaits(c) \/ SenderStops(c) \/ MainWaits(c) \/ ClientExits(c)
          BY <5>1, Zenon DEF Connect, Break, SenderWaits, SenderStops, MainWaits, ClientExits,
                             Receive, signalVars
        <5>2. CASE TCPClientTick(c) \/ EncryptedClientTick(c) \/ UDPClientTick(c)
          <6>1. Leave(c, "sender")
            BY <5>2, ClientTickIs, Zenon
          <6> QED
            BY <6>1 DEF Leave
        <5>3. CASE TCPReceiver(c) \/ UDPReceiver(c)
          BY <5>3, ReceiverIs, Zenon DEF signalVars
        <5> QED
          BY <5>1, <5>2, <5>3 DEF ClientStep, SenderStep, ReceiverStep, ClientMain
      <4> QED
        BY <1>0, <1>1, <4>1 DEF SignalTypes
    <3> QED
      BY <1>0, <2>1, <3>1, <3>2, WaitsSame DEF WaitersInv
  <2>2. CASE p \in Clients
    <3>1. main'[p] = main[p] /\ sender'[p] = sender[p] /\ waiters'[p] = waiters[p] /\ p # Server
      BY <1>0, <1>1, <2>2, ClientOthers, ProgramsAre DEF SameControl
    <3> QED
      BY <1>0, <3>1, WaitsSame DEF WaitersInv
  <2> QED
    BY <1>0, <2>1, <2>2
<1>2. ProgramWaits(c)'
  <2>1. heartReady(c)' => heartReady(c)
    BY <1>0 DEF heartReady
  <2>2. CASE Connect(c)
    <3>1. waiters'[c] = <<>>
      BY <1>0, <2>2 DEF Connect, Untouched, signalVars
    <3> QED
      BY <3>1, EmptyWaits DEF ProgramWaits
  <2>3. CASE Break(c) \/ TCPReceiver(c) \/ UDPReceiver(c)
    <3>1. CASE Break(c)
      BY <1>0, <3>1, WaitsSame DEF Break, signalVars, clientVars
    <3>2. CASE TCPReceiver(c) \/ UDPReceiver(c)
      BY <1>0, <3>2, ReceiverIs, WaitsSame DEF signalVars
    <3> QED
      BY <2>3, <3>1, <3>2
  <2>4. CASE SenderWaits(c)
    <3>1. /\ sender[c] = "select" /\ sender'[c] = "waiting" /\ main' = main
          /\ waiters'[c] = waiters[c] \/ waiters'[c] = Append(waiters[c], "sender")
      BY <1>0, <2>4 DEF SenderWaits, Receive, ControlTypes, SignalTypes
    <3>2. ~ IsIn("sender", waiters[c]) /\ "sender" \in Goroutines /\ "sender" # "main"
      BY <1>0, <3>1 DEF ProgramWaits, senderReady, Goroutines
    <3>3. /\ mainReady(c)' => mainReady(c) /\ "sender" # "main"
          /\ ~ senderReady(c)'
          /\ ~ heartReady(c)'
      BY <1>0, <3>1 DEF mainReady, senderReady, heartReady
    <3> QED
      BY <1>0, <3>1, <3>2, <3>3, WaitsGrow, Zenon
  <2>5. CASE SenderStops(c)
    <3>1. /\ sender'[c] = "done" /\ main' = main /\ waiters' = waiters
      BY <1>0, <2>5 DEF SenderStops, signalVars, ControlTypes
    <3>2. (mainReady(c)' => mainReady(c)) /\ ~ senderReady(c)'
      BY <3>1 DEF mainReady, senderReady
    <3> QED
      BY <1>0, <2>1, <3>1, <3>2, WaitsShrink
  <2>6. CASE TCPClientTick(c) \/ EncryptedClientTick(c) \/ UDPClientTick(c)
    <3>1. /\ main' = main /\ waiters' = [waiters EXCEPT ![c] = RemoveFirst(@, "sender")]
      BY <2>6, ClientTickIs, Zenon DEF Leave
    <3>2. waiters'[c] = RemoveFirst(waiters[c], "sender") /\ waiters[c] \in Seq(Goroutines)
      BY <1>0, <3>1 DEF SignalTypes
    <3>3. /\ NoDuplicates(waiters'[c]) /\ ~ IsIn("sender", waiters'[c])
          /\ \A h : ~ IsIn(h, waiters[c]) => ~ IsIn(h, waiters'[c])
      BY <1>0, <3>2, RemoveFirstKeeps DEF ProgramWaits
    <3>4. mainReady(c)' => mainReady(c)
      BY <3>1 DEF mainReady
    <3> QED
      BY <1>0, <2>1, <3>3, <3>4, Zenon DEF ProgramWaits
  <2>7. CASE MainWaits(c)
    <3>1. /\ mainReady(c) /\ main'[c] = "waiting" /\ sender' = sender
          /\ waiters'[c] = waiters[c] \/ waiters'[c] = Append(waiters[c], "main")
      BY <1>0, <2>7 DEF MainWaits, Receive, ControlTypes, SignalTypes, mainReady, clientVars
    <3>2. ~ IsIn("main", waiters[c]) /\ "main" \in Goroutines
      BY <1>0, <3>1 DEF ProgramWaits, Goroutines
    <3>3. /\ ~ mainReady(c)'
          /\ senderReady(c)' => senderReady(c) /\ "main" # "sender"
          /\ ~ heartReady(c)'
      BY <1>0, <3>1 DEF mainReady, senderReady, heartReady
    <3> QED
      BY <1>0, <3>1, <3>2, <3>3, WaitsGrow, Zenon
  <2>8. CASE ClientExits(c)
    <3>1. sender'[c] = "done" /\ main'[c] = "exited" /\ waiters' = waiters
      BY <1>0, <2>8 DEF ClientExits, signalVars, ControlTypes
    <3>2. ~ mainReady(c)' /\ ~ senderReady(c)'
      BY <3>1 DEF mainReady, senderReady
    <3> QED
      BY <1>0, <2>1, <3>1, <3>2, WaitsShrink
  <2> QED
    BY <2>2, <2>3, <2>4, <2>5, <2>6, <2>7, <2>8 DEF ClientStep, SenderStep, ReceiverStep, ClientMain
<1> QED
  BY <1>1, <1>2 DEF WaitersInv

LEMMA ServiceWaits ==
  ASSUME WaitersInv, NEW c \in Clients, ServiceStep(c)
  PROVE  WaitersInv'
<1>1. UNCHANGED <<waiters, main, sender, heartbeat>>
  BY Zenon DEF ServiceStep, AcceptStep, HandlerStep, Accept, Register, StartEncrypted, HandlerReceives,
     HandlerFails, HandlerEchoes, HandlerForgets, HandlerCloses, ServerTick, clientVars, signalVars
<1> QED
  BY <1>1 DEF WaitersInv, ProgramWaits, mainReady, senderReady, heartReady

LEMMA OwnWaits ==
  ASSUME MapInv, WaitersInv, OwnStep
  PROVE  WaitersInv'
<1>0. /\ Types /\ ControlTypes /\ SignalTypes /\ Server \in Programs /\ ProgramWaits(Server)
      /\ \A p \in Programs : p = Server \/ p \in Clients
  BY ProgramsAre DEF MapInv, Types, WaitersInv
<1>1. CASE ServerMain \/ HeartbeatStep
  <2>1. ASSUME NEW p \in Programs, p # Server PROVE ProgramWaits(p)'
    <3>1. \/ waiters' = waiters
          \/ waiters' = [waiters EXCEPT ![Server] = Append(@, "main")]
          \/ waiters' = [waiters EXCEPT ![Server] = Append(@, "heartbeat")]
          \/ waiters' = [waiters EXCEPT ![Server] = RemoveFirst(@, "heartbeat")]
      BY <1>1, Zenon DEF ServerMain, HeartbeatStep, MainWaits, CloseClients, TCPServerExits,
         EncryptedServerExits, UDPServerPolls, UDPServerReads, HeartbeatWaits, Heartbeat,
         Receive, Leave, signalVars
    <3>2. waiters'[p] = waiters[p]
      BY <1>0, <2>1, <3>1 DEF SignalTypes
    <3>3. main'[p] = main[p] /\ sender'[p] = sender[p]
      BY <1>0, <2>1, OwnUntouched
    <3> QED
      BY <1>0, <2>1, <3>2, <3>3, WaitsSame DEF WaitersInv
  <2>2. ~ senderReady(Server)'
    BY DEF senderReady
  <2>3. CASE MainWaits(Server)
    <3>1. /\ mainReady(Server) /\ main'[Server] = "waiting" /\ heartbeat' = heartbeat
          /\ \/ waiters'[Server] = waiters[Server]
             \/ waiters'[Server] = Append(waiters[Server], "main")
      BY <1>0, <2>3 DEF MainWaits, Receive, ControlTypes, SignalTypes, mainReady, serverVars
    <3>2. ~ IsIn("main", waiters[Server]) /\ "main" \in Goroutines
      BY <1>0, <3>1 DEF ProgramWaits, Goroutines
    <3>3. /\ ~ mainReady(Server)'
          /\ heartReady(Server)' => heartReady(Server) /\ "main" # "heartbeat"
      BY <1>0, <3>1 DEF mainReady, heartReady
    <3>4. ProgramWaits(Server)'
      BY <1>0, <2>2, <3>1, <3>2, <3>3, WaitsGrow, Zenon
    <3> QED
      BY <2>1, <3>4 DEF WaitersInv
  <2>4. CASE CloseClients \/ TCPServerExits \/ EncryptedServerExits \/ (UDPServerPolls /\ ServerGone)
    <3>0. /\ waiters' = waiters
          /\ \/ main' = [main EXCEPT ![Server] = "stopping"] /\ heartbeat' = heartbeat
             \/ main' = [main EXCEPT ![Server] = "exited"] /\ heartbeat' = "done"
      BY <2>4, Zenon DEF CloseClients, TCPServerExits, EncryptedServerExits, UDPServerPolls,
                         ServerGone, signalVars, serverVars
    <3>1. main'[Server] \in {"stopping", "exited"} /\ (heartbeat' = "select" => heartbeat = "select")
      BY <1>0, <3>0 DEF ControlTypes
    <3>2. ~ mainReady(Server)' /\ (heartReady(Server)' => heartReady(Server))
      BY <3>1 DEF mainReady, heartReady
    <3>3. ProgramWaits(Server)'
      BY <1>0, <2>2, <3>0, <3>2, WaitsShrink
    <3> QED
      BY <2>1, <3>3 DEF WaitersInv
  <2>5. CASE (UDPServerPolls /\ ~ ServerGone) \/ UDPServerReads
    <3>1. waiters' = waiters /\ heartbeat' = heartbeat /\ main[Server] \in {"running", "reading"}
      BY <2>5 DEF UDPServerPolls, UDPServerReads, signalVars, serverVars
    <3>2. mainReady(Server) /\ (heartReady(Server)' => heartReady(Server))
      BY <3>1 DEF mainReady, heartReady
    <3>3. ProgramWaits(Server)'
      BY <1>0, <2>2, <3>1, <3>2, WaitsShrink
    <3> QED
      BY <2>1, <3>3 DEF WaitersInv
  <2>6. CASE HeartbeatWaits
    <3>1. /\ heartReady(Server) /\ heartbeat' = "waiting" /\ main' = main
          /\ \/ waiters'[Server] = waiters[Server]
             \/ waiters'[Server] = Append(waiters[Server], "heartbeat")
      BY <1>0, <2>6 DEF HeartbeatWaits, Receive, SignalTypes, heartReady
    <3>2. ~ IsIn("heartbeat", waiters[Server]) /\ "heartbeat" \in Goroutines
      BY <1>0, <3>1 DEF ProgramWaits, Goroutines
    <3>3. /\ mainReady(Server)' => mainReady(Server) /\ "heartbeat" # "main"
          /\ ~ heartReady(Server)'
      BY <1>0, <3>1 DEF mainReady, heartReady
    <3>4. ProgramWaits(Server)'
      BY <1>0, <2>2, <3>1, <3>2, <3>3, WaitsGrow, Zenon
    <3> QED
      BY <2>1, <3>4 DEF WaitersInv
  <2>7. CASE Heartbeat
    <3>1. main' = main
      BY <2>7 DEF Heartbeat
    <3>2. mainReady(Server)' => mainReady(Server)
      BY <3>1 DEF mainReady
    <3>3. CASE Leave(Server, "heartbeat")
      <4>1. waiters'[Server] = RemoveFirst(waiters[Server], "heartbeat")
            /\ waiters[Server] \in Seq(Goroutines)
        BY <1>0, <3>3 DEF Leave, SignalTypes
      <4>2. /\ NoDuplicates(waiters'[Server]) /\ ~ IsIn("heartbeat", waiters'[Server])
            /\ \A h : ~ IsIn(h, waiters[Server]) => ~ IsIn(h, waiters'[Server])
        BY <1>0, <4>1, RemoveFirstKeeps DEF ProgramWaits
      <4>3. ProgramWaits(Server)'
        BY <1>0, <2>2, <3>2, <4>2, Zenon DEF ProgramWaits
      <4> QED
        BY <2>1, <4>3 DEF WaitersInv
    <3>4. CASE heartbeat' = "done" /\ UNCHANGED signalVars
      <4>1. waiters' = waiters /\ ~ heartReady(Server)'
        BY <3>4 DEF signalVars, heartReady
      <4>2. ProgramWaits(Server)'
        BY <1>0, <2>2, <3>2, <4>1, WaitsShrink
      <4> QED
        BY <2>1, <4>2 DEF WaitersInv
    <3> QED
      BY <2>7, <3>3, <3>4 DEF Heartbeat
  <2> QED
    BY <1>1, <2>3, <2>4, <2>5, <2>6, <2>7
       DEF ServerMain, HeartbeatStep, TCPServerExits, EncryptedServerExits
<1>2. ASSUME NEW p \in Programs, Interrupt(p) PROVE WaitersInv'
  <2>1. UNCHANGED <<main, sender, heartbeat>>
    BY <1>2 DEF Interrupt, clientVars, serverVars
  <2>2. \/ waiters' = waiters
        \/ waiters[p] # <<>> /\ waiters' = [waiters EXCEPT ![p] = Tail(@)]
    BY <1>2, Zenon DEF Interrupt, Signal
  <2>3. ASSUME NEW q \in Programs PROVE ProgramWaits(q)'
    <3>1. \/ waiters'[q] = waiters[q]
          \/ waiters[q] # <<>> /\ waiters'[q] = Tail(waiters[q])
      BY <1>0, <2>2 DEF SignalTypes
    <3>2. /\ mainReady(q)' => mainReady(q)
          /\ senderReady(q)' => senderReady(q)
          /\ heartReady(q)' => heartReady(q)
      BY <2>1 DEF mainReady, senderReady, heartReady
    <3> QED
      BY <1>0, <3>1, <3>2, WaitsShrink DEF WaitersInv
  <2> QED
    BY <2>3 DEF WaitersInv
<1> QED
  BY <1>1, <1>2 DEF OwnStep

LEMMA StutterWaits == WaitersInv /\ UNCHANGED vars => WaitersInv'
<1>1. UNCHANGED vars => UNCHANGED <<waiters, main, sender, heartbeat>>
  BY Zenon DEF vars, signalVars, clientVars, serverVars
<1> QED
  BY <1>1 DEF WaitersInv, ProgramWaits, mainReady, senderReady, heartReady

LEMMA WaitersInductive == MapInv /\ WaitersInv /\ [Next]_vars => WaitersInv'
  BY Steps, ClientWaits, ServiceWaits, OwnWaits, StutterWaits

\* All variables of the programs keep to their types; the accept loop is the
\* only user of the connection it holds until it has started the handler; and
\* no goroutine is in the queue of its sigChan twice, so that no signal is
\* handed to a goroutine that has gone on.
THEOREM ProgramsTypes == Spec => []ProgramsTypeOK
<1>1. Spec => []WaitersInv
  BY InitWaiters, WaitersInductive, MapAlways, PTL DEF Spec
<1>2. MapInv /\ WaitersInv => ProgramsTypeOK
  <2> SUFFICES ASSUME MapInv, WaitersInv PROVE ProgramsTypeOK
    OBVIOUS
  <2>1. ControlTypes /\ DataTypes /\ AcceptorHolds
    BY DEF MapInv, Types
  <2>2. \A p \in Programs : \A i, j \in 1 .. Len(waiters[p]) : waiters[p][i] = waiters[p][j] => i = j
    BY Zenon DEF WaitersInv, ProgramWaits, NoDuplicates
  <2> QED
    BY <2>1, <2>2, Zenon DEF ProgramsTypeOK, ControlTypes, DataTypes, AcceptorHolds,
                             MainStates, HandlerStates
<1> QED
  BY <1>1, <1>2, MapAlways, PTL

-----------------------------------------------------------------------------
(***************************************************************************)
(* Echoes in order: the sequences                                          *)
(***************************************************************************)
\* The client receives a message of the server's own.
LEMMA TakeOwn ==
  ASSUME NEW d \in Seq(Nat), NEW e \in Seq(Nat), d # <<>>, d[1] = 0, InOrder(d, e)
  PROVE  /\ InOrder(Tail(d), e)
         /\ \A n \in Int : EchoedBefore(d, e, n) => EchoedBefore(Tail(d), e, n)
<1> DEFINE t == Tail(d)
<1>1. /\ Len(d) \in Nat /\ Len(e) \in Nat /\ Len(t) = Len(d) - 1 /\ Len(d) >= 1
      /\ \A j \in 1 .. Len(t) : t[j] = d[j + 1]
  OBVIOUS
<1>2. \A j \in 1 .. Len(d) : d[j] \in Nat
  OBVIOUS
<1> HIDE DEF t
<1>3. \A j \in 1 .. Len(t) : (j + 1) \in 1 .. Len(d) /\ t[j] = d[j + 1]
  BY <1>1
<1>4. \A i \in 1 .. Len(d) : i # 1 => (i - 1) \in 1 .. Len(t) /\ t[i - 1] = d[i]
  BY <1>1
<1>5. InOrder(t, e)
  <2>1. ASSUME NEW j \in 1 .. Len(t), t[j] # 0
        PROVE  /\ t[j] > Len(e)
               /\ \A v \in (Len(e) + 1) .. (t[j] - 1) : \E i \in 1 .. Len(t) : i < j /\ t[i] = v
    <3>1. t[j] > Len(e)
      BY <1>3, <2>1 DEF InOrder
    <3>2. ASSUME NEW v \in (Len(e) + 1) .. (t[j] - 1)
          PROVE  \E i \in 1 .. Len(t) : i < j /\ t[i] = v
      <4>1. PICK i \in 1 .. Len(d) : i < j + 1 /\ d[i] = v
        BY <1>3, <2>1 DEF InOrder
      <4>2. i # 1
        BY <1>1, <4>1
      <4> QED
        <5>1. (i - 1) \in 1 .. Len(t) /\ t[i - 1] = v
          BY <1>4, <4>1, <4>2
        <5>2. i - 1 < j
          BY <4>1
        <5> QED
          BY <5>1, <5>2
    <3> QED
      BY <3>1, <3>2
  <2>2. ASSUME NEW i \in 1 .. Len(t), NEW j \in 1 .. Len(t), i < j, t[i] # 0, t[j] # 0
        PROVE  t[i] < t[j]
    <3>1. /\ (i + 1) \in 1 .. Len(d) /\ (j + 1) \in 1 .. Len(d)
          /\ t[i] = d[i + 1] /\ t[j] = d[j + 1]
      BY <1>3
    <3>2. i + 1 < j + 1
      BY <2>2
    <3>3. d[i + 1] < d[j + 1]
      BY <2>2, <3>1, <3>2 DEF InOrder
    <3> QED
      BY <3>1, <3>3
  <2> QED
    BY <2>1, <2>2 DEF InOrder
<1>6. ASSUME NEW n \in Int, EchoedBefore(d, e, n) PROVE EchoedBefore(t, e, n)
  <2>1. ASSUME NEW v \in (Len(e) + 1) .. (n - 1) PROVE \E i \in 1 .. Len(t) : t[i] = v
    <3>1. PICK i \in 1 .. Len(d) : d[i] = v
      BY <1>6 DEF EchoedBefore
    <3>2. i # 1
      BY <1>1, <3>1
    <3> QED
      BY <1>4, <3>1, <3>2
  <2> QED
    BY <1>3, <1>6, <2>1 DEF EchoedBefore
<1> QED
  BY <1>5, <1>6 DEF t

LEMMA AfterFirst ==
  ASSUME NEW a \in Nat, NEW b \in Nat, NEW v \in (a + 2) .. (b - 1)
  PROVE  v \in (a + 1) .. (b - 1) /\ v # a + 1
  OBVIOUS

\* The client receives an echo: it is the next one.
LEMMA TakeEcho ==
  ASSUME NEW d \in Seq(Nat), NEW e \in Seq(Nat), d # <<>>, d[1] # 0, InOrder(d, e)
  PROVE  /\ d[1] = Len(e) + 1
         /\ InOrder(Tail(d), Append(e, d[1]))
         /\ \A n \in Int : EchoedBefore(d, e, n) => EchoedBefore(Tail(d), Append(e, d[1]), n)
<1> DEFINE t == Tail(d)
           f == Append(e, d[1])
<1>1. /\ Len(d) \in Nat /\ Len(e) \in Nat /\ Len(t) = Len(d) - 1 /\ Len(d) >= 1
      /\ \A j \in 1 .. Len(t) : t[j] = d[j + 1]
  OBVIOUS
<1>2. \A j \in 1 .. Len(d) : d[j] \in Nat
  OBVIOUS
<1>3. /\ Len(f) = Len(e) + 1 /\ f[Len(e) + 1] = d[1]
      /\ \A n \in 1 .. Len(e) : f[n] = e[n]
  BY <1>1, <1>2
<1> HIDE DEF t, f
<1>4. \A j \in 1 .. Len(t) : (j + 1) \in 1 .. Len(d) /\ t[j] = d[j + 1] /\ t[j] \in Nat
  BY <1>1, <1>2
<1>5. \A i \in 1 .. Len(d) : i # 1 => (i - 1) \in 1 .. Len(t) /\ t[i - 1] = d[i]
  BY <1>1
<1>6. d[1] = Len(e) + 1
  <2>1. 1 \in 1 .. Len(d) /\ d[1] \in Nat /\ d[1] > Len(e)
    BY <1>1, <1>2 DEF InOrder
  <2>2. \A v \in (Len(e) + 1) .. (d[1] - 1) : FALSE
    BY <2>1 DEF InOrder
  <2>3. Len(e) + 1 <= d[1] - 1 => FALSE
    BY <1>1, <2>1, <2>2
  <2> QED
    BY <1>1, <2>1, <2>3
<1>7. \A n \in 1 .. Len(f) : f[n] = n
  <2>1. ASSUME NEW n \in 1 .. Len(f) PROVE f[n] = n
    <3>1. n \in 1 .. Len(e) \/ n = Len(e) + 1
      BY <1>1, <1>3
    <3>2. \A k \in 1 .. Len(e) : e[k] = k
      BY DEF InOrder
    <3> QED
      BY <1>3, <1>6, <3>1, <3>2
  <2> QED
    BY <2>1
<1>8. InOrder(t, f)
  <2>1. ASSUME NEW j \in 1 .. Len(t), t[j] # 0
        PROVE  /\ t[j] > Len(f)
               /\ \A v \in (Len(f) + 1) .. (t[j] - 1) : \E i \in 1 .. Len(t) : i < j /\ t[i] = v
    <3>0. (j + 1) \in 1 .. Len(d) /\ d[j + 1] = t[j] /\ d[j + 1] # 0 /\ 1 < j + 1 /\ 1 \in 1 .. Len(d)
      BY <1>1, <1>4, <2>1
    <3>1. t[j] > Len(f)
      <4>1. d[1] < d[j + 1]
        BY <3>0 DEF InOrder
      <4> QED
        BY <1>1, <1>3, <1>6, <3>0, <4>1
    <3>2. ASSUME NEW v \in (Len(f) + 1) .. (t[j] - 1)
          PROVE  \E i \in 1 .. Len(t) : i < j /\ t[i] = v
      <4>0. v \in (Len(e) + 1) .. (d[j + 1] - 1) /\ v # Len(e) + 1
        <5>1. d[j + 1] \in Nat /\ Len(e) \in Nat
          BY <1>1, <1>4, <3>0
        <5>2. v \in (Len(e) + 2) .. (d[j + 1] - 1)
          <6>1. (Len(e) + 1) + 1 = Len(e) + 2
            BY <5>1
          <6> QED
            BY <1>3, <3>0, <6>1, Zenon
        <5> QED
          BY <5>1, <5>2, AfterFirst
      <4>1. PICK i \in 1 .. Len(d) : i < j + 1 /\ d[i] = v
        BY <3>0, <4>0 DEF InOrder
      <4>2. i # 1
        BY <1>6, <4>0, <4>1
      <4> QED
        <5>1. (i - 1) \in 1 .. Len(t) /\ t[i - 1] = v
          BY <1>5, <4>1, <4>2
        <5>2. i - 1 < j
          BY <4>1
        <5> QED
          BY <5>1, <5>2
    <3> QED
      BY <3>1, <3>2
  <2>2. ASSUME NEW i \in 1 .. Len(t), NEW j \in 1 .. Len(t), i < j, t[i] # 0, t[j] # 0
        PROVE  t[i] < t[j]
    <3>1. /\ (i + 1) \in 1 .. Len(d) /\ (j + 1) \in 1 .. Len(d)
          /\ t[i] = d[i + 1] /\ t[j] = d[j + 1]
      BY <1>4
    <3>2. i + 1 < j + 1
      BY <2>2
    <3>3. d[i + 1] < d[j + 1]
      BY <2>2, <3>1, <3>2 DEF InOrder
    <3> QED
      BY <3>1, <3>3
  <2> QED
    BY <1>7, <2>1, <2>2 DEF InOrder
<1>9. ASSUME NEW n \in Int, EchoedBefore(d, e, n) PROVE EchoedBefore(t, f, n)
  <2>0. n > Len(f)
    <3>1. d[1] < n
      BY <1>1, <1>9 DEF EchoedBefore
    <3> QED
      BY <1>1, <1>3, <1>6, <3>1
  <2>1. ASSUME NEW v \in (Len(f) + 1) .. (n - 1) PROVE \E i \in 1 .. Len(t) : t[i] = v
    <3>0. v \in (Len(e) + 1) .. (n - 1) /\ v # Len(e) + 1
      BY <1>1, <1>3
    <3>1. PICK i \in 1 .. Len(d) : d[i] = v
      BY <1>9, <3>0 DEF EchoedBefore
    <3>2. i # 1
      BY <1>6, <3>0, <3>1
    <3> QED
      BY <1>5, <3>1, <3>2
  <2>2. \A j \in 1 .. Len(t) : t[j] < n
    BY <1>4, <1>9 DEF EchoedBefore
  <2> QED
    BY <2>0, <2>1, <2>2 DEF EchoedBefore
<1> QED
  BY <1>6, <1>8, <1>9 DEF t, f

LEMMA AppendPoints ==
  ASSUME NEW d \in Seq(Nat), NEW m \in Nat
  PROVE  /\ Len(d) \in Nat /\ Len(Append(d, m)) = Len(d) + 1
         /\ Append(d, m)[Len(d) + 1] = m
         /\ \A j \in 1 .. Len(d) : Append(d, m)[j] = d[j] /\ d[j] \in Nat
  OBVIOUS

\* The server sends a message of its own.
LEMMA PutOwn ==
  ASSUME NEW d \in Seq(Nat), NEW e \in Seq(Nat), InOrder(d, e), NEW n \in Int, EchoedBefore(d, e, n)
  PROVE  InOrder(Append(d, 0), e) /\ EchoedBefore(Append(d, 0), e, n)
<1> DEFINE t == Append(d, 0)
<1>1. /\ Len(d) \in Nat /\ Len(t) = Len(d) + 1 /\ t[Len(d) + 1] = 0
      /\ \A j \in 1 .. Len(d) : t[j] = d[j] /\ d[j] \in Nat
  BY AppendPoints
<1>2. Len(e) \in Nat
  OBVIOUS
<1> HIDE DEF t
<1>3. \A j \in 1 .. Len(t) : t[j] # 0 => j \in 1 .. Len(d) /\ t[j] = d[j]
  BY <1>1
<1>4. \A j \in 1 .. Len(d) : j \in 1 .. Len(t) /\ t[j] = d[j]
  BY <1>1
<1>5. InOrder(t, e)
  <2>1. ASSUME NEW j \in 1 .. Len(t), t[j] # 0
        PROVE  /\ t[j] > Len(e)
               /\ \A v \in (Len(e) + 1) .. (t[j] - 1) : \E i \in 1 .. Len(t) : i < j /\ t[i] = v
    <3>1. j \in 1 .. Len(d) /\ t[j] = d[j] /\ d[j] # 0
      BY <1>3, <2>1
    <3>2. ASSUME NEW v \in (Len(e) + 1) .. (t[j] - 1)
          PROVE  \E i \in 1 .. Len(t) : i < j /\ t[i] = v
      <4>1. PICK i \in 1 .. Len(d) : i < j /\ d[i] = v
        BY <3>1 DEF InOrder
      <4> QED
        BY <1>4, <4>1
    <3> QED
      BY <3>1, <3>2 DEF InOrder
  <2>2. ASSUME NEW i \in 1 .. Len(t), NEW j \in 1 .. Len(t), i < j, t[i] # 0, t[j] # 0
        PROVE  t[i] < t[j]
    BY <1>3, <2>2 DEF InOrder
  <2> QED
    BY <2>1, <2>2 DEF InOrder
<1>6. EchoedBefore(t, e, n)
  <2>1. n > Len(e) /\ 0 < n
    BY <1>2 DEF EchoedBefore
  <2>2. \A j \in 1 .. Len(t) : t[j] < n
    BY <1>3, <2>1 DEF EchoedBefore
  <2>3. ASSUME NEW v \in (Len(e) + 1) .. (n - 1) PROVE \E i \in 1 .. Len(t) : t[i] = v
    BY <1>4 DEF EchoedBefore
  <2> QED
    BY <2>1, <2>2, <2>3 DEF EchoedBefore
<1> QED
  BY <1>5, <1>6 DEF t

\* The server sends the next echo.
LEMMA PutEcho ==
  ASSUME NEW d \in Seq(Nat), NEW e \in Seq(Nat), InOrder(d, e), NEW n \in Nat, EchoedBefore(d, e, n)
  PROVE  InOrder(Append(d, n), e) /\ EchoedBefore(Append(d, n), e, n + 1)
<1> DEFINE t == Append(d, n)
<1>1. /\ Len(d) \in Nat /\ Len(t) = Len(d) + 1 /\ t[Len(d) + 1] = n
      /\ \A j \in 1 .. Len(d) : t[j] = d[j] /\ d[j] \in Nat
  BY AppendPoints
<1>2. Len(e) \in Nat /\ n > Len(e)
  BY DEF EchoedBefore
<1> HIDE DEF t
<1>3. \A j \in 1 .. Len(t) : j = Len(d) + 1 \/ (j \in 1 .. Len(d) /\ t[j] = d[j])
  BY <1>1
<1>4. \A j \in 1 .. Len(d) : j \in 1 .. Len(t) /\ t[j] = d[j] /\ j < Len(d) + 1 /\ d[j] < n
  BY <1>1 DEF EchoedBefore
<1>5. InOrder(t, e)
  <2>1. ASSUME NEW j \in 1 .. Len(t), t[j] # 0
        PROVE  /\ t[j] > Len(e)
               /\ \A v \in (Len(e) + 1) .. (t[j] - 1) : \E i \in 1 .. Len(t) : i < j /\ t[i] = v
    <3>1. CASE j \in 1 .. Len(d) /\ t[j] = d[j]
      <4>1. ASSUME NEW v \in (Len(e) + 1) .. (t[j] - 1)
            PROVE  \E i \in 1 .. Len(t) : i < j /\ t[i] = v
        <5>1. PICK i \in 1 .. Len(d) : i < j /\ d[i] = v
          BY <2>1, <3>1 DEF InOrder
        <5> QED
          BY <1>4, <5>1
      <4> QED
        BY <2>1, <3>1, <4>1 DEF InOrder
    <3>2. CASE j = Len(d) + 1
      <4>1. ASSUME NEW v \in (Len(e) + 1) .. (t[j] - 1)
            PROVE  \E i \in 1 .. Len(t) : i < j /\ t[i] = v
        <5>1. PICK i \in 1 .. Len(d) : d[i] = v
          BY <1>1, <3>2 DEF EchoedBefore
        <5> QED
          BY <1>4, <3>2, <5>1
      <4> QED
        BY <1>1, <1>2, <3>2, <4>1
    <3> QED
      BY <1>3, <3>1, <3>2
  <2>2. ASSUME NEW i \in 1 .. Len(t), NEW j \in 1 .. Len(t), i < j, t[i] # 0, t[j] # 0
        PROVE  t[i] < t[j]
    <3>1. i \in 1 .. Len(d) /\ t[i] = d[i]
      BY <1>1, <1>3, <2>2
    <3>2. CASE j = Len(d) + 1
      BY <1>1, <1>4, <3>1, <3>2
    <3>3. CASE j \in 1 .. Len(d) /\ t[j] = d[j]
      BY <2>2, <3>1, <3>3 DEF InOrder
    <3> QED
      BY <1>3, <3>2, <3>3
  <2> QED
    BY <2>1, <2>2 DEF InOrder
<1>6. EchoedBefore(t, e, n + 1)
  <2>1. \A j \in 1 .. Len(t) : t[j] < n + 1
    <3>1. ASSUME NEW j \in 1 .. Len(t) PROVE t[j] < n + 1
      <4>1. CASE j = Len(d) + 1
        BY <1>1, <1>2, <4>1
      <4>2. CASE j \in 1 .. Len(d)
        <5>1. d[j] \in Nat /\ d[j] < n /\ t[j] = d[j]
          BY <1>3, <1>4, <4>2
        <5> QED
          BY <1>2, <5>1
      <4> QED
        BY <1>3, <4>1, <4>2
    <3> QED
      BY <3>1
  <2>2. ASSUME NEW v \in (Len(e) + 1) .. (n + 1 - 1) PROVE \E i \in 1 .. Len(t) : t[i] = v
    <3>1. CASE v = n
      BY <1>1, <3>1
    <3>2. CASE v # n
      <4>1. v \in (Len(e) + 1) .. (n - 1)
        BY <1>2, <3>2
      <4> QED
        BY <1>4, <4>1 DEF EchoedBefore
    <3> QED
      BY <3>1, <3>2
  <2> QED
    BY <1>2, <2>1, <2>2 DEF EchoedBefore
<1> QED
  BY <1>5, <1>6 DEF t

\* The client sends its next message.
LEMMA PutMessage ==
  ASSUME NEW u \in Seq(Nat), NEW s \in Nat, LastOf(u, s)
  PROVE  LastOf(Append(u, s + 1), s + 1) /\ (s + 1) - Len(Append(u, s + 1)) = s - Len(u)
<1> DEFINE t == Append(u, s + 1)
<1>1. /\ Len(u) \in Nat /\ Len(t) = Len(u) + 1 /\ t[Len(u) + 1] = s + 1
      /\ \A j \in 1 .. Len(u) : t[j] = u[j] /\ u[j] \in Nat
  BY AppendPoints
<1> HIDE DEF t
<1> QED
  BY <1>1 DEF LastOf, t

\* The handler takes the next message.
LEMMA TakeMessage ==
  ASSUME NEW u \in Seq(Nat), NEW s \in Nat, LastOf(u, s), u # <<>>
  PROVE  /\ LastOf(Tail(u), s) /\ s - Len(Tail(u)) = s - Len(u) + 1
         /\ Head(u) = s - Len(u) + 1
<1> DEFINE t == Tail(u)
<1>1. /\ Len(u) \in Nat /\ Len(t) = Len(u) - 1 /\ Head(u) = u[1] /\ Len(u) >= 1
      /\ \A j \in 1 .. Len(t) : t[j] = u[j + 1]
  OBVIOUS
<1> HIDE DEF t
<1> QED
  BY <1>1 DEF LastOf, t

-----------------------------------------------------------------------------
(***************************************************************************)
(* Echoes in order: the steps                                              *)
(***************************************************************************)
LEMMA UsableShrinks ==
  ASSUME NEW c, NEW end, reset[c] => reset'[c], open'[c] \subseteq open[c]
  PROVE  isUsable(c, end)' => isUsable(c, end)
  BY Zenon DEF isUsable

\* A step that sends and delivers nothing, or after which the server cannot
\* write any more.
LEMMA QuietEcho ==
  ASSUME NEW c, ClientEcho(c), kind' = kind, down'[c] = down[c], echoed'[c] = echoed[c],
         isTCP /\ isUsable(c, "server")' =>
           /\ isUsable(c, "server")
           /\ sent'[c] = sent[c] /\ up'[c] = up[c] /\ held'[c] = held[c]
           /\ handler'[c] = "echo" <=> handler[c] = "echo"
  PROVE  ClientEcho(c)'
<1>1. InOrder(down[c], echoed[c])'
  BY Zenon DEF ClientEcho
<1>2. isTCP' <=> isTCP
  BY DEF isTCP
<1>3. ASSUME isTCP, isUsable(c, "server")' PROVE NothingLost(c)'
  <2>1. /\ NothingLost(c)
        /\ sent'[c] = sent[c] /\ up'[c] = up[c] /\ held'[c] = held[c]
        /\ handler'[c] = "echo" <=> handler[c] = "echo"
    BY <1>3, Zenon DEF ClientEcho
  <2>2. nextEcho(c)' = nextEcho(c)
    BY <2>1 DEF nextEcho
  <2> QED
    BY <2>1, <2>2, Zenon DEF NothingLost
<1> QED
  BY <1>1, <1>2, <1>3, Zenon DEF ClientEcho

LEMMA InitEcho == Init => EchoInv
<1> SUFFICES ASSUME Init, NEW c \in Clients PROVE ClientEcho(c)
  BY DEF EchoInv
<1>1. down[c] = <<>> /\ echoed[c] = <<>> /\ open[c] = {}
  BY DEF Init
<1>2. InOrder(down[c], echoed[c])
  BY <1>1 DEF InOrder
<1>3. ~ isUsable(c, "server")
  BY <1>1, Zenon DEF isUsable
<1> QED
  BY <1>2, <1>3, Zenon DEF ClientEcho

LEMMA NumbersOf ==
  ASSUME Types, NEW c \in Clients
  PROVE  /\ sent[c] \in Nat /\ held[c] \in Nat
         /\ up[c] \in Seq(Nat) /\ down[c] \in Seq(Nat) /\ echoed[c] \in Seq(Nat)
         /\ Len(up[c]) \in Nat /\ nextEcho(c) \in Int
<1>1. /\ sent[c] \in Nat /\ held[c] \in Nat
      /\ up[c] \in Seq(Nat) /\ down[c] \in Seq(Nat) /\ echoed[c] \in Seq(Nat)
  BY ProgramsAre DEF Types, DataTypes
<1>2. Len(up[c]) \in Nat
  BY <1>1
<1> QED
  BY <1>1, <1>2 DEF nextEcho

\* A new connection: nothing was sent.
LEMMA ConnectEcho ==
  ASSUME MapInv, NEW c \in Clients, Connect(c)
  PROVE  ClientEcho(c)'
<1>0. main[c] = "connecting" /\ Untouched(c) /\ Types /\ handler \in [Clients -> HandlerStates]
  BY DEF Connect, MapInv, Types, ControlTypes
<1>1. /\ sent'[c] = 0 /\ up'[c] = <<>> /\ down'[c] = <<>> /\ echoed'[c] = <<>>
  BY <1>0 DEF Untouched, Connect
<1>2. handler'[c] # "echo"
  <2>1. handler' = handler \/ handler' = [handler EXCEPT ![c] = "queued"]
    <3>1. ClientStep(c)
      BY DEF ClientStep
    <3> QED
      BY <1>0, <3>1, ClientFrame
  <2> QED
    BY <1>0, <2>1 DEF Untouched
<1>3. InOrder(<<>>, <<>>) /\ LastOf(<<>>, 0) /\ EchoedBefore(<<>>, <<>>, 1)
  BY DEF InOrder, LastOf, EchoedBefore
<1>4. nextEcho(c)' = 1
  BY <1>1, <1>2 DEF nextEcho
<1>5. NothingLost(c)'
  BY <1>1, <1>2, <1>3, <1>4 DEF NothingLost
<1> QED
  BY <1>1, <1>3, <1>5, Zenon DEF ClientEcho

\* The client sends a message: it is the last one on its way, or the peer has
\* closed.
LEMMA WriteEcho ==
  ASSUME Types, NEW c \in Clients, ClientEcho(c), TCPWrite(c, "client", sent[c] + 1), Sent(c),
         UNCHANGED <<kind, handler, held, echoed>>
  PROVE  ClientEcho(c)'
<1>0. /\ reset \in [Clients -> BOOLEAN] /\ up \in [Clients -> Seq(Nat)]
      /\ sent \in [Clients -> 0 .. MaxMessages]
  BY DEF Types, BooleanTypes, DataTypes
<1>1. down' = down /\ open' = open /\ sent' = [sent EXCEPT ![c] = @ + 1]
  BY DEF TCPWrite, Sent
<1>2. CASE "server" \notin open[c]
  <2>1. ~ isUsable(c, "server")'
    BY <1>1, <1>2, Zenon DEF isUsable
  <2> QED
    BY <1>1, <2>1, QuietEcho, Zenon
<1>3. CASE "server" \in open[c]
  <2>1. up' = [up EXCEPT ![c] = Append(@, sent[c] + 1)] /\ reset' = reset
    BY <1>3 DEF TCPWrite, peerOf
  <2>2. up'[c] = Append(up[c], sent[c] + 1) /\ sent'[c] = sent[c] + 1
    BY <1>0, <1>1, <2>1
  <2>3. isUsable(c, "server")' <=> isUsable(c, "server")
    BY <1>1, <2>1, Zenon DEF isUsable
  <2>4. isTCP' <=> isTCP
    BY DEF isTCP
  <2>5. ASSUME NothingLost(c) PROVE NothingLost(c)'
    <3>0. up[c] \in Seq(Nat) /\ sent[c] \in Nat
      BY NumbersOf
    <3>1. /\ LastOf(up'[c], sent'[c]) /\ sent'[c] - Len(up'[c]) = sent[c] - Len(up[c])
      BY <2>2, <2>5, <3>0, PutMessage DEF NothingLost
    <3>2. nextEcho(c)' = nextEcho(c)
      BY <3>1 DEF nextEcho
    <3> QED
      BY <1>1, <2>5, <3>1, <3>2 DEF NothingLost
  <2> QED
    BY <1>1, <2>3, <2>4, <2>5, Zenon DEF ClientEcho
<1> QED
  BY <1>2, <1>3

\* The client receives.
LEMMA ReceivedEcho ==
  ASSUME Types, NEW c \in Clients, ClientEcho(c), down[c] # <<>>,
         down' = [down EXCEPT ![c] = Tail(@)],
         echoed' = [echoed EXCEPT ![c] =
            IF Head(down[c]) = 0 THEN @ ELSE Append(@, Head(down[c]))],
         UNCHANGED <<kind, handler, held, sent, up, open, reset>>
  PROVE  ClientEcho(c)'
<1>0. down[c] \in Seq(Nat) /\ echoed[c] \in Seq(Nat) /\ nextEcho(c) \in Int
  BY NumbersOf
<1>1. down \in [Clients -> Seq(Nat)] /\ echoed \in [Clients -> Seq(Nat)]
  BY DEF Types, DataTypes
<1>2. down'[c] = Tail(down[c]) /\ Head(down[c]) = down[c][1]
  BY <1>0, <1>1
<1>3. InOrder(down[c], echoed[c])
  BY DEF ClientEcho
<1>4. /\ InOrder(down'[c], echoed'[c])
      /\ \A n \in Int : EchoedBefore(down[c], echoed[c], n) => EchoedBefore(down'[c], echoed'[c], n)
  <2>1. CASE down[c][1] = 0
    <3>1. echoed'[c] = echoed[c]
      BY <1>1, <1>2, <2>1
    <3> QED
      BY <1>0, <1>2, <1>3, <2>1, <3>1, TakeOwn
  <2>2. CASE down[c][1] # 0
    <3>1. echoed'[c] = Append(echoed[c], down[c][1])
      BY <1>1, <1>2, <2>2
    <3> QED
      BY <1>0, <1>2, <1>3, <2>2, <3>1, TakeEcho
  <2> QED
    BY <2>1, <2>2
<1>5. nextEcho(c)' = nextEcho(c)
  BY DEF nextEcho
<1>6. NothingLost(c) => NothingLost(c)'
  BY <1>0, <1>4, <1>5 DEF NothingLost
<1>7. (isUsable(c, "server")' <=> isUsable(c, "server")) /\ (isTCP' <=> isTCP)
  BY Zenon DEF isUsable, isTCP
<1> QED
  BY <1>4, <1>6, <1>7, Zenon DEF ClientEcho

LEMMA ClientEchoStep ==
  ASSUME MapInv, NEW c \in Clients, ClientEcho(c), ClientStep(c)
  PROVE  ClientEcho(c)'
<1>0. Types /\ DataTypes /\ BooleanTypes
  BY DEF MapInv, Types
<1>1. CASE Connect(c)
  BY <1>1, ConnectEcho
<1>2. CASE Break(c)
  <2>1. /\ UNCHANGED <<kind, handler, held, sent, up, down, echoed, open>>
        /\ reset' = [reset EXCEPT ![c] = TRUE]
    BY <1>2, Zenon DEF Break, clientVars, serverVars
  <2>2. reset'[c]
    BY <1>0, <2>1 DEF BooleanTypes
  <2>3. ~ isUsable(c, "server")'
    BY <2>2, Zenon DEF isUsable
  <2> QED
    BY <2>1, <2>3, QuietEcho, Zenon
<1>3. CASE SenderWaits(c) \/ SenderStops(c) \/ MainWaits(c)
  <2>1. UNCHANGED <<kind, handler, held, sent, up, down, echoed, open, reset>>
    BY <1>3, Zenon DEF SenderWaits, SenderStops, MainWaits, clientVars, serverVars, connVars
  <2>2. isUsable(c, "server")' => isUsable(c, "server")
    BY <2>1, Zenon DEF isUsable
  <2> QED
    BY <2>1, <2>2, QuietEcho, Zenon
<1>4. CASE TCPClientTick(c) \/ EncryptedClientTick(c) \/ UDPClientTick(c)
  <2>1. UNCHANGED <<kind, handler, held, echoed, down>>
    BY <1>4, ClientTickIs, Zenon DEF serverVars
  <2>2. \/ TCPWrite(c, "client", sent[c] + 1) /\ Sent(c)
        \/ UNCHANGED <<sent, connVars>>
        \/ kind = "udp"
    BY <1>4, Zenon DEF TCPClientTick, EncryptedClientTick, UDPClientTick, SendFailed
  <2>3. CASE TCPWrite(c, "client", sent[c] + 1) /\ Sent(c)
    BY <1>0, <2>1, <2>3, WriteEcho, Zenon
  <2>4. CASE UNCHANGED <<sent, connVars>>
    <3>1. UNCHANGED <<sent, up, open, reset>>
      BY <2>4, Zenon DEF connVars
    <3>2. isUsable(c, "server")' => isUsable(c, "server")
      BY <3>1, Zenon DEF isUsable
    <3> QED
      BY <2>1, <3>1, <3>2, QuietEcho, Zenon
  <2>5. CASE kind = "udp"
    <3>1. ~ isTCP
      BY <2>5 DEF isTCP
    <3> QED
      BY <2>1, <3>1, QuietEcho, Zenon
  <2> QED
    BY <2>2, <2>3, <2>4, <2>5
<1>5. CASE TCPReceiver(c) \/ UDPReceiver(c)
  <2>1. UNCHANGED <<kind, handler, held, sent, up, open, reset>>
    BY <1>5, ReceiverIs, Zenon DEF serverVars
  <2>2. \/ UNCHANGED <<down, echoed>>
        \/ /\ down[c] # <<>>
           /\ down' = [down EXCEPT ![c] = Tail(@)]
           /\ echoed' = [echoed EXCEPT ![c] =
                IF Head(down[c]) = 0 THEN @ ELSE Append(@, Head(down[c]))]
    BY <1>5, ReceiverIs, Zenon
  <2>3. CASE UNCHANGED <<down, echoed>>
    <3>1. isUsable(c, "server")' => isUsable(c, "server")
      BY <2>1, Zenon DEF isUsable
    <3> QED
      BY <2>1, <2>3, <3>1, QuietEcho, Zenon
  <2>4. CASE ~ UNCHANGED <<down, echoed>>
    BY <1>0, <2>1, <2>2, <2>4, ReceivedEcho, Zenon
  <2> QED
    BY <2>3, <2>4
<1>6. CASE ClientExits(c)
  <2>1. UNCHANGED <<kind, handler, held, sent, echoed>> /\ CloseEnds({c}, "client")
    BY <1>6, Zenon DEF ClientExits, serverVars
  <2>2. /\ UNCHANGED <<up, down>>
        /\ open'[c] \subseteq open[c] /\ (reset[c] => reset'[c])
    BY <1>0, <2>1, CloseEndsTypes, Zenon
  <2>3. isUsable(c, "server")' => isUsable(c, "server")
    BY <2>2, UsableShrinks, Zenon
  <2> QED
    BY <2>1, <2>2, <2>3, QuietEcho, Zenon
<1> QED
  BY <1>1, <1>2, <1>3, <1>4, <1>5, <1>6 DEF ClientStep, SenderStep, ReceiverStep, ClientMain

-----------------------------------------------------------------------------
LEMMA HandlerReceivesEcho ==
  ASSUME Types, NEW c \in Clients, ClientEcho(c), HandlerReceives(c)
  PROVE  ClientEcho(c)'
<1>0. /\ up[c] \in Seq(Nat) /\ sent[c] \in Nat
      /\ up \in [Clients -> Seq(Nat)] /\ held \in [Clients -> Nat] /\ handler \in [Clients -> HandlerStates]
  BY NumbersOf DEF Types, ControlTypes, DataTypes
<1>1. /\ handler[c] = "recv" /\ up[c] # <<>>
      /\ held' = [held EXCEPT ![c] = Head(up[c])]
      /\ up' = [up EXCEPT ![c] = Tail(@)]
      /\ handler' = [handler EXCEPT ![c] = "echo"]
      /\ UNCHANGED <<kind, sent, echoed, down, open, reset>>
  BY Zenon DEF HandlerReceives, canReceive, clientVars
<1>2. held'[c] = Head(up[c]) /\ up'[c] = Tail(up[c]) /\ handler'[c] = "echo" /\ handler[c] # "echo"
  BY <1>0, <1>1
<1>3. (isUsable(c, "server")' <=> isUsable(c, "server")) /\ (isTCP' <=> isTCP)
  BY <1>1, Zenon DEF isUsable, isTCP
<1>4. ASSUME NothingLost(c) PROVE NothingLost(c)'
  <2>1. /\ LastOf(Tail(up[c]), sent[c]) /\ sent[c] - Len(Tail(up[c])) = sent[c] - Len(up[c]) + 1
        /\ Head(up[c]) = sent[c] - Len(up[c]) + 1
    BY <1>0, <1>1, <1>4, TakeMessage DEF NothingLost
  <2>2. nextEcho(c)' = nextEcho(c)
    BY <1>1, <1>2, <2>1 DEF nextEcho
  <2> QED
    BY <1>1, <1>2, <1>4, <2>1, <2>2 DEF NothingLost
<1> QED
  BY <1>1, <1>3, <1>4, Zenon DEF ClientEcho

\* The server writes to a client that may have closed.
LEMMA ServerWriteIs ==
  ASSUME Types, NEW c \in Clients, NEW m, TCPWrite(c, "server", m)
  PROVE  /\ isUsable(c, "server") /\ up' = up
         /\ \/ ~ isUsable(c, "server")' /\ down' = down
            \/ down'[c] = Append(down[c], m)
<1>0. reset \in [Clients -> BOOLEAN] /\ down \in [Clients -> Seq(Nat)]
  BY DEF Types, BooleanTypes, DataTypes
<1>1. isUsable(c, "server") /\ up' = up
  BY DEF TCPWrite
<1>2. CASE "client" \notin open[c]
  <2>1. reset' = [reset EXCEPT ![c] = TRUE] /\ down' = down
    BY <1>2 DEF TCPWrite, peerOf
  <2>2. reset'[c]
    BY <1>0, <2>1
  <2> QED
    BY <1>1, <2>1, <2>2, Zenon DEF isUsable
<1>3. CASE "client" \in open[c]
  <2>1. down' = [down EXCEPT ![c] = Append(@, m)]
    BY <1>3 DEF TCPWrite, peerOf
  <2> QED
    BY <1>0, <1>1, <2>1
<1> QED
  BY <1>2, <1>3

LEMMA HandlerEchoesEcho ==
  ASSUME MapInv, NEW c \in Clients, ClientEcho(c), HandlerEchoes(c)
  PROVE  ClientEcho(c)'
<1>0. /\ Types /\ up[c] \in Seq(Nat) /\ sent[c] \in Nat /\ held[c] \in Nat /\ Len(up[c]) \in Nat
      /\ down[c] \in Seq(Nat) /\ echoed[c] \in Seq(Nat)
      /\ handler \in [Clients -> HandlerStates] /\ kind \in {"tcp", "encrypted", "udp"}
      /\ SilentUDP(c)
  BY NumbersOf DEF MapInv, Types, ControlTypes
<1>1. /\ handler[c] = "echo"
      /\ TCPWrite(c, "server", held[c]) \/ (~ isUsable(c, "server") /\ UNCHANGED connVars)
      /\ handler' = [handler EXCEPT ![c] = "recv"]
      /\ UNCHANGED <<kind, sent, echoed, held>>
  BY Zenon DEF HandlerEchoes, afterEcho, clientVars
<1>2. handler'[c] = "recv"
  BY <1>0, <1>1
<1>3. isTCP /\ (isTCP' <=> isTCP)
  BY <1>0, <1>1 DEF SilentUDP, isTCP
<1>4. CASE ~ isUsable(c, "server") /\ UNCHANGED connVars
  <2>1. UNCHANGED <<up, down, open, reset>>
    BY <1>4, Zenon DEF connVars
  <2>2. ~ isUsable(c, "server")'
    BY <1>4, <2>1, Zenon DEF isUsable
  <2> QED
    BY <1>1, <2>1, <2>2, QuietEcho, Zenon
<1>5. CASE TCPWrite(c, "server", held[c])
  <2>1. /\ isUsable(c, "server") /\ up' = up
        /\ \/ ~ isUsable(c, "server")' /\ down' = down
           \/ down'[c] = Append(down[c], held[c])
    BY <1>0, <1>5, ServerWriteIs
  <2>2. CASE ~ isUsable(c, "server")' /\ down' = down
    BY <1>1, <2>2, QuietEcho, Zenon
  <2>3. CASE down'[c] = Append(down[c], held[c])
    <3>1. NothingLost(c) /\ InOrder(down[c], echoed[c])
      BY <1>3, <2>1, Zenon DEF ClientEcho
    <3>2. held[c] = nextEcho(c) /\ held[c] = sent[c] - Len(up[c])
      BY <1>1, <3>1 DEF NothingLost, nextEcho
    <3>3. EchoedBefore(down[c], echoed[c], held[c])
      BY <3>1, <3>2 DEF NothingLost
    <3>4. InOrder(down'[c], echoed[c]) /\ EchoedBefore(down'[c], echoed[c], held[c] + 1)
      BY <1>0, <2>3, <3>1, <3>3, PutEcho
    <3>5. nextEcho(c)' = held[c] + 1
      BY <1>0, <1>1, <1>2, <2>1, <3>2 DEF nextEcho
    <3>6. NothingLost(c)'
      BY <1>1, <1>2, <2>1, <3>1, <3>4, <3>5 DEF NothingLost
    <3> QED
      BY <1>1, <3>4, <3>6, Zenon DEF ClientEcho
  <2> QED
    BY <2>1, <2>2, <2>3
<1> QED
  BY <1>1, <1>4, <1>5

LEMMA ServerTickEcho ==
  ASSUME MapInv, NEW c \in Clients, ClientEcho(c), ServerTick(c)
  PROVE  ClientEcho(c)'
<1>0. /\ Types /\ down[c] \in Seq(Nat) /\ echoed[c] \in Seq(Nat) /\ nextEcho(c) \in Int
      /\ kind \in {"tcp", "encrypted", "udp"} /\ SilentUDP(c)
  BY NumbersOf DEF MapInv, Types, ControlTypes
<1>1. /\ ticker[c] = "running"
      /\ TCPWrite(c, "server", 0) \/ UNCHANGED connVars
      /\ UNCHANGED <<kind, sent, echoed, held, handler>>
  BY Zenon DEF ServerTick, clientVars
<1>2. isTCP /\ (isTCP' <=> isTCP)
  BY <1>0, <1>1 DEF SilentUDP, isTCP
<1>3. CASE UNCHANGED connVars
  <2>1. UNCHANGED <<up, down, open, reset>>
    BY <1>3, Zenon DEF connVars
  <2>2. isUsable(c, "server")' => isUsable(c, "server")
    BY <2>1, Zenon DEF isUsable
  <2> QED
    BY <1>1, <2>1, <2>2, QuietEcho, Zenon
<1>4. CASE TCPWrite(c, "server", 0)
  <2>1. /\ isUsable(c, "server") /\ up' = up
        /\ \/ ~ isUsable(c, "server")' /\ down' = down
           \/ down'[c] = Append(down[c], 0)
    BY <1>0, <1>4, ServerWriteIs
  <2>2. CASE ~ isUsable(c, "server")' /\ down' = down
    BY <1>1, <2>2, QuietEcho, Zenon
  <2>3. CASE down'[c] = Append(down[c], 0)
    <3>1. NothingLost(c) /\ InOrder(down[c], echoed[c])
      BY <1>2, <2>1, Zenon DEF ClientEcho
    <3>2. EchoedBefore(down[c], echoed[c], nextEcho(c))
      BY <3>1 DEF NothingLost
    <3>3. InOrder(down'[c], echoed[c]) /\ EchoedBefore(down'[c], echoed[c], nextEcho(c))
      BY <1>0, <2>3, <3>1, <3>2, PutOwn
    <3>4. nextEcho(c)' = nextEcho(c)
      BY <1>1, <2>1 DEF nextEcho
    <3>5. NothingLost(c)'
      BY <1>1, <2>1, <3>1, <3>3, <3>4 DEF NothingLost
    <3> QED
      BY <1>1, <3>3, <3>5, Zenon DEF ClientEcho
  <2> QED
    BY <2>1, <2>2, <2>3
<1> QED
  BY <1>1, <1>3, <1>4

LEMMA ServiceEchoStep ==
  ASSUME MapInv, NEW c \in Clients, ClientEcho(c), ServiceStep(c)
  PROVE  ClientEcho(c)'
<1>0. /\ Types /\ DataTypes /\ BooleanTypes /\ AcceptorHolds /\ c # Server
      /\ handler \in [Clients -> HandlerStates]
  BY ProgramsAre DEF MapInv, Types, ControlTypes
<1>1. CASE AcceptStep(c) \/ HandlerFails(c) \/ HandlerForgets(c)
  <2>1. UNCHANGED <<kind, held, sent, up, down, echoed, open, reset>>
    BY <1>1, Zenon DEF AcceptStep, Accept, Register, StartEncrypted, HandlerFails, HandlerForgets,
                       clientVars, connVars
  <2>2. handler'[c] # "echo" /\ handler[c] # "echo"
    <3>1. CASE Accept(c)
      BY <1>0, <3>1 DEF Accept, startedByAccept
    <3>2. CASE Register(c) \/ StartEncrypted(c)
      <4>1. handler[c] = "accepted"
        BY <1>0, <3>2 DEF Register, StartEncrypted, AcceptorHolds
      <4> QED
        BY <1>0, <3>2, <4>1 DEF Register, StartEncrypted
    <3>3. CASE HandlerFails(c) \/ HandlerForgets(c)
      BY <1>0, <3>3 DEF HandlerFails, HandlerForgets, canReceive
    <3> QED
      BY <1>1, <3>1, <3>2, <3>3 DEF AcceptStep
  <2>3. isUsable(c, "server")' => isUsable(c, "server")
    BY <2>1, Zenon DEF isUsable
  <2> QED
    BY <2>1, <2>2, <2>3, QuietEcho, Zenon
<1>2. CASE HandlerReceives(c)
  BY <1>0, <1>2, HandlerReceivesEcho
<1>3. CASE HandlerEchoes(c)
  BY <1>3, HandlerEchoesEcho
<1>4. CASE HandlerCloses(c)
  <2>1. /\ UNCHANGED <<kind, held, sent, echoed>> /\ CloseEnds({c}, "server")
    BY <1>4, Zenon DEF HandlerCloses, clientVars
  <2>2. UNCHANGED <<up, down>> /\ "server" \notin open'[c]
    <3>1. c \in {c}
      OBVIOUS
    <3> QED
      BY <1>0, <2>1, <3>1, CloseEndsTypes, Zenon
  <2>3. ~ isUsable(c, "server")'
    BY <2>2, Zenon DEF isUsable
  <2> QED
    BY <2>1, <2>2, <2>3, QuietEcho, Zenon
<1>5. CASE ServerTick(c)
  BY <1>5, ServerTickEcho
<1> QED
  BY <1>1, <1>2, <1>3, <1>4, <1>5 DEF ServiceStep, HandlerStep

LEMMA OwnEchoStep ==
  ASSUME MapInv, OwnStep, NEW c \in Clients, ClientEcho(c)
  PROVE  ClientEcho(c)'
<1>0. Types /\ DataTypes /\ BooleanTypes
  BY DEF MapInv, Types
<1>1. UNCHANGED <<kind, sent, echoed, held, down>>
  BY OwnUntouched
<1>2. CASE UDPServerReads
  <2>1. ~ isTCP
    BY <1>2 DEF UDPServerReads, isTCP
  <2> QED
    BY <1>1, <2>1, QuietEcho, Zenon
<1>3. CASE CloseClients
  <2>1. CloseEnds(clients, "server") /\ handler' = handler
    BY <1>3, Zenon DEF CloseClients, serverVars
  <2>2. UNCHANGED up /\ open'[c] \subseteq open[c] /\ (reset[c] => reset'[c])
    BY <1>0, <2>1, CloseEndsTypes, Zenon
  <2>3. isUsable(c, "server")' => isUsable(c, "server")
    BY <2>2, UsableShrinks, Zenon
  <2> QED
    BY <1>1, <2>1, <2>2, <2>3, QuietEcho, Zenon
<1>4. CASE ServerGone
  <2>1. CloseEnds(Clients, "server")
    BY <1>4, Zenon DEF ServerGone
  <2>2. "server" \notin open'[c]
    BY <1>0, <2>1, CloseEndsTypes, Zenon
  <2>3. ~ isUsable(c, "server")'
    BY <2>2, Zenon DEF isUsable
  <2> QED
    BY <1>1, <2>3, QuietEcho, Zenon
<1>5. CASE ~ UDPServerReads /\ ~ CloseClients /\ ~ ServerGone
  <2>1. UNCHANGED <<handler, up, open, reset>>
    BY <1>5, Zenon DEF OwnStep, ServerMain, HeartbeatStep, MainWaits, TCPServerExits,
       EncryptedServerExits, UDPServerPolls, HeartbeatWaits, Heartbeat, Interrupt, serverVars, connVars
  <2>2. isUsable(c, "server")' => isUsable(c, "server")
    BY <2>1, Zenon DEF isUsable
  <2> QED
    BY <1>1, <2>1, <2>2, QuietEcho, Zenon
<1> QED
  BY <1>2, <1>3, <1>4, <1>5

\* A client that a step does not touch.
LEMMA OthersEcho ==
  ASSUME NEW d, ClientEcho(d), SameControl(d), SameData(d), UNCHANGED kind
  PROVE  ClientEcho(d)'
<1>1. /\ handler'[d] = handler[d] /\ sent'[d] = sent[d] /\ echoed'[d] = echoed[d]
      /\ held'[d] = held[d] /\ up'[d] = up[d] /\ down'[d] = down[d]
  BY Zenon DEF SameControl, SameData
<1>2. isUsable(d, "server")' => isUsable(d, "server")
  BY Zenon DEF SameData, isUsable
<1> QED
  BY <1>1, <1>2, QuietEcho, Zenon

LEMMA StutterEcho == EchoInv /\ UNCHANGED vars => EchoInv'
<1> SUFFICES ASSUME EchoInv, UNCHANGED vars, NEW c \in Clients PROVE ClientEcho(c)'
  BY Zenon DEF EchoInv
<1>1. UNCHANGED <<kind, handler, held, sent, up, down, echoed, open, reset>>
  BY Zenon DEF vars, clientVars, serverVars, connVars
<1>2. isUsable(c, "server")' => isUsable(c, "server")
  BY <1>1, Zenon DEF isUsable
<1>3. ClientEcho(c)
  BY DEF EchoInv
<1> QED
  BY <1>1, <1>2, <1>3, QuietEcho, Zenon

LEMMA EchoInductive == MapInv /\ EchoInv /\ [Next]_vars => EchoInv'
<1> SUFFICES ASSUME MapInv, EchoInv, [Next]_vars PROVE EchoInv'
  OBVIOUS
<1>0. Types
  BY DEF MapInv
<1>1. ASSUME NEW c \in Clients, ClientStep(c) PROVE EchoInv'
  <2>1. ASSUME NEW d \in Clients PROVE ClientEcho(d)'
    <3>1. ClientEcho(d)
      BY DEF EchoInv
    <3>2. CASE d = c
      BY <1>1, <3>1, <3>2, ClientEchoStep
    <3>3. CASE d # c
      <4>1. SameControl(d) /\ SameData(d) /\ UNCHANGED kind
        BY <1>0, <1>1, <3>3, ClientOthers, ClientFrame, Zenon
      <4> QED
        BY <3>1, <4>1, OthersEcho
    <3> QED
      BY <3>2, <3>3
  <2> QED
    BY <2>1 DEF EchoInv
<1>2. ASSUME NEW c \in Clients, ServiceStep(c) PROVE EchoInv'
  <2>1. ASSUME NEW d \in Clients PROVE ClientEcho(d)'
    <3>1. ClientEcho(d)
      BY DEF EchoInv
    <3>2. CASE d = c
      BY <1>2, <3>1, <3>2, ServiceEchoStep
    <3>3. CASE d # c
      <4>1. SameControl(d) /\ SameData(d) /\ UNCHANGED kind
        BY <1>0, <1>2, <3>3, ServiceOthers, ServiceOf, Zenon
      <4> QED
        BY <3>1, <4>1, OthersEcho
    <3> QED
      BY <3>2, <3>3
  <2> QED
    BY <2>1 DEF EchoInv
<1>3. CASE OwnStep
  BY <1>3, OwnEchoStep, Zenon DEF EchoInv
<1>4. CASE UNCHANGED vars
  BY <1>4, StutterEcho
<1> QED
  BY <1>1, <1>2, <1>3, <1>4, Steps

LEMMA CountedSeq ==
  ASSUME NEW q \in Seq(Nat), \A n \in 1 .. Len(q) : q[n] = n
  PROVE  q = [n \in 1 .. Len(q) |-> n]
  OBVIOUS

\* Whatever the server sends between them, and however the connection ends, a
\* TCP client receives the echoes of its messages in order and without a gap.
THEOREM EchoesOrdered == Spec => []EchoesInOrder
<1>1. Spec => []EchoInv
  BY InitEcho, EchoInductive, MapAlways, PTL DEF Spec
<1>2. MapInv /\ EchoInv => EchoesInOrder
  <2> SUFFICES ASSUME MapInv, EchoInv, NEW c \in Clients
               PROVE  echoed[c] = [n \in 1 .. Len(echoed[c]) |-> n]
    BY DEF EchoesInOrder
  <2>1. echoed[c] \in Seq(Nat)
    BY NumbersOf DEF MapInv
  <2>2. \A n \in 1 .. Len(echoed[c]) : echoed[c][n] = n
    BY DEF EchoInv, ClientEcho, InOrder
  <2> QED
    BY <2>1, <2>2, CountedSeq
<1> QED
  BY <1>1, <1>2, MapAlways, PTL
=============================================================================
