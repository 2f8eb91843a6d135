--------------------------- MODULE ExamplePrograms ---------------------------
(***************************************************************************)
(* The example programs: the clients and servers of examples/tcp-client,   *)
(* tcp-server, udp-client, udp-server and encrypted, as goroutines over a  *)
(* connection.  kind says which pair of programs runs.  A client sends     *)
(* numbered messages from a ticker and reads what comes; a server answers  *)
(* each with an echo, and the TCP server also sends messages of its own.   *)
(* All goroutines of a program end when its main function returns.         *)
(*                                                                         *)
(* A message is its number; what the server sends of its own accord is 0.  *)
(* Programs that log.Fatal before they have made sigChan do not appear,    *)
(* except a client that finds no server.                                   *)
(***************************************************************************)
EXTENDS SignalChannel, FiniteSets

CONSTANTS
  Clients,       \* the client programs
  Server,        \* the server program
  MaxMessages,   \* bound: messages of a client
  MaxTicks       \* bound: messages of its own the server sends to a client

ASSUME ProgramsAssumption ==
  /\ Programs = Clients \cup {Server}
  /\ Server \notin Clients
  /\ MaxMessages \in Nat
  /\ MaxTicks \in Nat

VARIABLES
  kind,          \* "tcp", "encrypted" or "udp"
  main,          \* where the main function of each program is
  sender, receiver,                \* the goroutines of each client
  acceptor,      \* the accept loop: the client it has accepted, or Server
  handler,       \* handleClient for each client
  ticker,        \* the ticker goroutine of each handleClient
  clients,       \* the map of the TCP server
  heartbeat,     \* the ticker goroutine of the UDP server
  held,          \* the message a handler is about to echo
  up, down,      \* the bytes on their way to the server and to the client
  open,          \* the ends of each connection that are not closed
  reset,         \* whether a connection is broken
  sent,          \* messages each client sent
  ticks,         \* messages the server sent of its own accord
  echoed         \* history: the echoes each client received, in order

clientVars == <<sender, receiver, sent, echoed>>
serverVars == <<acceptor, handler, ticker, clients, heartbeat, held, ticks>>
connVars   == <<up, down, open, reset>>
vars       == <<signalVars, kind, main, clientVars, serverVars, connVars>>

isTCP == kind \in {"tcp", "encrypted"}

\* The server has bound its port and made its channel.
Init ==
  /\ SignalInit
  /\ kind \in {"tcp", "encrypted", "udp"}
  /\ main = [p \in Programs |-> IF p = Server THEN "running" ELSE "connecting"]
  /\ sender = [c \in Clients |-> "off"]
  /\ receiver = [c \in Clients |-> "off"]
  /\ acceptor = Server
  /\ handler = [c \in Clients |-> "off"]
  /\ ticker = [c \in Clients |-> "off"]
  /\ clients = {}
  /\ heartbeat = "select"
  /\ held = [c \in Clients |-> 0]
  /\ up = [c \in Clients |-> <<>>]
  /\ down = [c \in Clients |-> <<>>]
  /\ open = [c \in Clients |-> {}]
  /\ reset = [c \in Clients |-> FALSE]
  /\ sent = [c \in Clients |-> 0]
  /\ ticks = [c \in Clients |-> 0]
  /\ echoed = [c \in Clients |-> <<>>]

-----------------------------------------------------------------------------
(***************************************************************************)
(* TCP connections                                                         *)
(***************************************************************************)
isUsable(c, end) == end \in open[c] /\ ~ reset[c]

peerOf(end) == IF end = "client" THEN "server" ELSE "client"

\* A Write to a peer that has closed succeeds once; its bytes are lost and
\* the answer of the peer's kernel breaks the connection.
TCPWrite(c, end, message) ==
  /\ isUsable(c, end)
  /\ IF peerOf(end) \notin open[c]
     THEN reset' = [reset EXCEPT ![c] = TRUE] /\ UNCHANGED <<up, down>>
     ELSE /\ up' = IF end = "client" THEN [up EXCEPT ![c] = Append(@, message)] ELSE up
          /\ down' = IF end = "server" THEN [down EXCEPT ![c] = Append(@, message)] ELSE down
          /\ UNCHANGED reset
  /\ UNCHANGED open

\* A Read fails at the end of what a closed peer has sent, and on a
\* connection that is broken or was closed on this side.
readFails(c, end, queue) ==
  \/ ~ isUsable(c, end)
  \/ queue = <<>> /\ peerOf(end) \notin open[c]

\* The ends are closed for all these clients at once; bytes that were not
\* read break the connection.
CloseEnds(cs, end) ==
  /\ open' = [c \in Clients |-> IF c \in cs THEN open[c] \ {end} ELSE open[c]]
  /\ reset' = [c \in Clients |->
       \/ reset[c]
       \/ /\ c \in cs
          /\ end \in open[c]
          /\ (IF end = "client" THEN down[c] ELSE up[c]) # <<>>]
  /\ UNCHANGED <<up, down>>

\* UDPConnect gives the socket of the client a peer, UDPBind gives the socket
\* of the server none.
hasPeer(end) == end = "client"

\* What the queue may be after UDPSend without an address, which writes to
\* the peer of the socket and fails if there is none.  A datagram that was
\* written may be lost.
UDPWrite(queue, end, message) ==
  {queue} \cup (IF hasPeer(end) THEN {Append(queue, message)} ELSE {})

isBroken(c) == reset[c] \/ open[c] # {"client", "server"}

\* The network or a host breaks the connection.
Break(c) ==
  /\ isTCP
  /\ ~ isBroken(c)
  /\ reset' = [reset EXCEPT ![c] = TRUE]
  /\ UNCHANGED <<signalVars, kind, main, clientVars, serverVars, up, down, open>>

-----------------------------------------------------------------------------
(***************************************************************************)
(* Clients                                                                 *)
(***************************************************************************)
\* TCPConnect fails when no server listens; UDPConnect does not notice.  The
\* program makes its channel and starts its two goroutines.
Connect(c) ==
  /\ main[c] = "connecting"
  /\ IF isTCP /\ main[Server] = "exited"
     THEN /\ main' = [main EXCEPT ![c] = "exited"]
          /\ UNCHANGED <<sender, receiver, open, handler>>
     ELSE /\ main' = [main EXCEPT ![c] = "running"]
          /\ sender' = [sender EXCEPT ![c] = "select"]
          /\ receiver' = [receiver EXCEPT ![c] = "running"]
          /\ open' = [open EXCEPT ![c] = {"client", "server"}]
          /\ handler' = [handler EXCEPT ![c] = IF isTCP THEN "queued" ELSE @]
  /\ UNCHANGED <<signalVars, kind, sent, echoed, acceptor, ticker, clients,
                 heartbeat, held, ticks, up, down, reset>>

\* The sender comes to its select with no tick to take.
SenderWaits(c) ==
  /\ sender[c] = "select"
  /\ Receive(c, "sender")
  /\ sender' = [sender EXCEPT ![c] = "waiting"]
  /\ UNCHANGED <<kind, main, receiver, sent, echoed, serverVars, connVars>>

\* The sender takes the signal, and returns.
SenderStops(c) ==
  /\ sender[c] = "waiting"
  /\ "sender" \in handed[c]
  /\ sender' = [sender EXCEPT ![c] = "done"]
  /\ UNCHANGED <<signalVars, kind, main, receiver, sent, echoed, serverVars, connVars>>

\* A tick: the sender gives up its place among the waiters.
SenderTicks(c) ==
  /\ sender[c] \in {"select", "waiting"}
  /\ Leave(c, "sender")
  /\ UNCHANGED <<kind, main, receiver, echoed, serverVars>>

\* Send succeeded, and the sender goes back to its select.
Sent(c) ==
  /\ sent' = [sent EXCEPT ![c] = @ + 1]
  /\ sender' = [sender EXCEPT ![c] = "select"]

\* Send failed, and the sender returns.
SendFailed(c) ==
  /\ sender' = [sender EXCEPT ![c] = "done"]
  /\ UNCHANGED <<sent, connVars>>

\* The ticker of examples/tcp-client.
TCPClientTick(c) ==
  /\ kind = "tcp"
  /\ SenderTicks(c)
  /\ \/ sent[c] < MaxMessages /\ TCPWrite(c, "client", sent[c] + 1) /\ Sent(c)
     \/ ~ isUsable(c, "client") /\ SendFailed(c)

\* The ticker of examples/encrypted: the key was set by main, so that Send
\* fails only for the connection.
EncryptedClientTick(c) ==
  /\ kind = "encrypted"
  /\ SenderTicks(c)
  /\ \/ sent[c] < MaxMessages /\ TCPWrite(c, "client", sent[c] + 1) /\ Sent(c)
     \/ ~ isUsable(c, "client") /\ SendFailed(c)

\* The ticker of examples/udp-client: the datagram arrives or is lost, and
\* Send may fail once the host has answered that nobody listens.
UDPClientTick(c) ==
  /\ kind = "udp"
  /\ SenderTicks(c)
  /\ \/ /\ sent[c] < MaxMessages
        /\ \E queue \in UDPWrite(up[c], "client", sent[c] + 1) :
             up' = [up EXCEPT ![c] = queue]
        /\ UNCHANGED <<down, open, reset>>
        /\ Sent(c)
     \/ main[Server] = "exited" /\ SendFailed(c)

\* The receiver has a message, and logs it.
Received(c) ==
  /\ down[c] # <<>>
  /\ down' = [down EXCEPT ![c] = Tail(@)]
  /\ echoed' = [echoed EXCEPT ![c] =
       IF Head(down[c]) = 0 THEN @ ELSE Append(@, Head(down[c]))]
  /\ UNCHANGED <<receiver, up, open, reset>>

\* The receiver returns with an error.
ReceiverEnds(c) ==
  /\ receiver' = [receiver EXCEPT ![c] = "done"]
  /\ UNCHANGED <<echoed, connVars>>

\* The receiver of examples/tcp-client, and of examples/encrypted, which does
\* not decrypt what it gets.
TCPReceiver(c) ==
  /\ isTCP
  /\ receiver[c] = "running"
  /\ \/ isUsable(c, "client") /\ Received(c)
     \/ readFails(c, "client", down[c]) /\ ReceiverEnds(c)
  /\ UNCHANGED <<signalVars, kind, main, sender, sent, serverVars>>

\* The receiver of examples/udp-client: only the answer of a host on which
\* nobody listens ends it.
UDPReceiver(c) ==
  /\ kind = "udp"
  /\ receiver[c] = "running"
  /\ IF down[c] # <<>>
     THEN Received(c)
     ELSE main[Server] = "exited" /\ ReceiverEnds(c)
  /\ UNCHANGED <<signalVars, kind, main, sender, sent, serverVars>>

\* main comes to <-sigChan: in every client, and in the TCP servers.
MainWaits(p) ==
  /\ main[p] = "running"
  /\ p = Server => isTCP
  /\ Receive(p, "main")
  /\ main' = [main EXCEPT ![p] = "waiting"]
  /\ UNCHANGED <<kind, clientVars, serverVars, connVars>>

\* main returns: the connection is closed, the goroutines are gone.
ClientExits(c) ==
  /\ main[c] = "waiting"
  /\ "main" \in handed[c]
  /\ main' = [main EXCEPT ![c] = "exited"]
  /\ sender' = [sender EXCEPT ![c] = "done"]
  /\ receiver' = [receiver EXCEPT ![c] = "done"]
  /\ CloseEnds({c}, "client")
  /\ UNCHANGED <<signalVars, kind, sent, echoed, serverVars>>

-----------------------------------------------------------------------------
(***************************************************************************)
(* The TCP servers                                                         *)
(***************************************************************************)
serverRuns == main[Server] # "exited"

\* A mutant: the handler is started before its client is in the map.
startedByAcceptEarly == "recv"

\* Where handleClient is after Accept and before the map is updated.
startedByAccept == "accepted"

Accept(c) ==
  /\ isTCP
  /\ serverRuns
  /\ acceptor = Server
  /\ handler[c] = "queued"
  /\ acceptor' = c
  /\ handler' = [handler EXCEPT ![c] = startedByAccept]
  /\ UNCHANGED <<signalVars, kind, main, clientVars, ticker, clients, heartbeat,
                 held, ticks, connVars>>

\* tcp-server enters the client into its map, under clientsMu, and starts
\* handleClient with its ticker.
Register(c) ==
  /\ kind = "tcp"
  /\ serverRuns
  /\ acceptor = c
  /\ acceptor' = Server
  /\ clients' = clients \cup {c}
  /\ handler' = [handler EXCEPT ![c] = IF @ = "accepted" THEN "recv" ELSE @]
  /\ ticker' = [ticker EXCEPT ![c] = "running"]
  /\ UNCHANGED <<signalVars, kind, main, clientVars, heartbeat, held, ticks, connVars>>

\* The encrypted server keeps no map, and sends nothing of its own.
StartEncrypted(c) ==
  /\ kind = "encrypted"
  /\ serverRuns
  /\ acceptor = c
  /\ acceptor' = Server
  /\ handler' = [handler EXCEPT ![c] = "recv"]
  /\ UNCHANGED <<signalVars, kind, main, clientVars, ticker, clients, heartbeat,
                 held, ticks, connVars>>

\* A mutant: the next message is read before the last one was echoed.
canReceiveAlways(c) == handler[c] \in {"recv", "echo"}

canReceive(c) == handler[c] = "recv"

\* TCPRecv returns a message.
HandlerReceives(c) ==
  /\ canReceive(c)
  /\ isUsable(c, "server")
  /\ up[c] # <<>>
  /\ held' = [held EXCEPT ![c] = Head(up[c])]
  /\ up' = [up EXCEPT ![c] = Tail(@)]
  /\ handler' = [handler EXCEPT ![c] = "echo"]
  /\ UNCHANGED <<signalVars, kind, main, clientVars, acceptor, ticker, clients,
                 heartbeat, ticks, down, open, reset>>

\* An error of TCPRecv ends the handler, which in the encrypted server has
\* nothing but the connection to clean up.
HandlerFails(c) ==
  /\ canReceive(c)
  /\ readFails(c, "server", up[c])
  /\ handler' = [handler EXCEPT ![c] = IF kind = "tcp" THEN "leaving" ELSE "closing"]
  /\ UNCHANGED <<signalVars, kind, main, clientVars, acceptor, ticker, clients,
                 heartbeat, held, ticks, connVars>>

\* A mutant: one message is answered, without the loop around it.
afterEchoDone == "done"

afterEcho == "recv"

\* The echo is sent; an error is only logged.
HandlerEchoes(c) ==
  /\ handler[c] = "echo"
  /\ \/ TCPWrite(c, "server", held[c])
     \/ ~ isUsable(c, "server") /\ UNCHANGED connVars
  /\ handler' = [handler EXCEPT ![c] = afterEcho]
  /\ UNCHANGED <<signalVars, kind, main, clientVars, acceptor, ticker, clients,
                 heartbeat, held, ticks>>

\* The deferred function of handleClient: the map first, under clientsMu.
HandlerForgets(c) ==
  /\ handler[c] = "leaving"
  /\ clients' = clients \ {c}
  /\ handler' = [handler EXCEPT ![c] = "closing"]
  /\ UNCHANGED <<signalVars, kind, main, clientVars, acceptor, ticker, heartbeat,
                 held, ticks, connVars>>

\* Then the connection.
HandlerCloses(c) ==
  /\ handler[c] = "closing"
  /\ CloseEnds({c}, "server")
  /\ handler' = [handler EXCEPT ![c] = "done"]
  /\ UNCHANGED <<signalVars, kind, main, clientVars, acceptor, ticker, clients,
                 heartbeat, held, ticks>>

\* A mutant: the ticker goes on after an error.
tickerAfterErrorRuns == "running"

tickerAfterError == "done"

\* The ticker of a handler knows nothing of the handler: it ends when a Send
\* fails.  The bound does not hold back a Send that meets a closed peer.
ServerTick(c) ==
  /\ ticker[c] = "running"
  /\ \/ /\ ticks[c] < MaxTicks \/ "client" \notin open[c]
        /\ TCPWrite(c, "server", 0)
        /\ ticks' = [ticks EXCEPT ![c] = IF "client" \in open[c] THEN @ + 1 ELSE @]
        /\ UNCHANGED ticker
     \/ /\ ~ isUsable(c, "server")
        /\ ticker' = [ticker EXCEPT ![c] = tickerAfterError]
        /\ UNCHANGED <<ticks, connVars>>
  /\ UNCHANGED <<signalVars, kind, main, clientVars, acceptor, handler, clients,
                 heartbeat, held>>

\* main of tcp-server has the signal and closes every client of the map.
CloseClients ==
  /\ kind = "tcp"
  /\ main[Server] = "waiting"
  /\ "main" \in handed[Server]
  /\ CloseEnds(clients, "server")
  /\ main' = [main EXCEPT ![Server] = "stopping"]
  /\ UNCHANGED <<signalVars, kind, clientVars, serverVars>>

\* The process ends: goroutines, sockets and connections nobody accepted go.
ServerGone ==
  /\ main' = [main EXCEPT ![Server] = "exited"]
  /\ CloseEnds(Clients, "server")
  /\ handler' = [c \in Clients |-> IF handler[c] = "off" THEN "off" ELSE "done"]
  /\ ticker' = [c \in Clients |-> IF ticker[c] = "off" THEN "off" ELSE "done"]
  /\ clients' = {}
  /\ heartbeat' = "done"
  /\ UNCHANGED <<kind, clientVars, acceptor, held, ticks>>

\* main of tcp-server returns.
TCPServerExits ==
  /\ main[Server] = "stopping"
  /\ ServerGone
  /\ UNCHANGED signalVars

\* main of the encrypted server returns at once.
EncryptedServerExits ==
  /\ kind = "encrypted"
  /\ main[Server] = "waiting"
  /\ "main" \in handed[Server]
  /\ ServerGone
  /\ UNCHANGED signalVars

-----------------------------------------------------------------------------
(***************************************************************************)
(* The UDP server                                                          *)
(***************************************************************************)
\* The heartbeat only logs; like the sender of a client it takes signals.
HeartbeatWaits ==
  /\ kind = "udp"
  /\ heartbeat = "select"
  /\ Receive(Server, "heartbeat")
  /\ heartbeat' = "waiting"
  /\ UNCHANGED <<kind, main, clientVars, acceptor, handler, ticker, clients, held,
                 ticks, connVars>>

Heartbeat ==
  /\ kind = "udp"
  /\ heartbeat = "waiting"
  /\ \/ Leave(Server, "heartbeat") /\ heartbeat' = "select"
     \/ /\ "heartbeat" \in handed[Server]
        /\ heartbeat' = "done"
        /\ UNCHANGED signalVars
  /\ UNCHANGED <<kind, main, clientVars, acceptor, handler, ticker, clients, held,
                 ticks, connVars>>

\* main polls the channel, and returns if it holds a signal.
UDPServerPolls ==
  /\ kind = "udp"
  /\ main[Server] = "running"
  /\ \/ /\ pending[Server]
        /\ pending' = [pending EXCEPT ![Server] = FALSE]
        /\ ServerGone
        /\ UNCHANGED <<waiters, handed, signals>>
     \/ /\ ~ pending[Server]
        /\ main' = [main EXCEPT ![Server] = "reading"]
        /\ UNCHANGED <<signalVars, kind, clientVars, serverVars, connVars>>

\* UDPRecv times out, or returns a datagram and its echo is sent; an error of
\* Send is only logged.
UDPServerReads ==
  /\ kind = "udp"
  /\ main[Server] = "reading"
  /\ main' = [main EXCEPT ![Server] = "running"]
  /\ \/ UNCHANGED connVars
     \/ \E c \in Clients :
          /\ up[c] # <<>>
          /\ up' = [up EXCEPT ![c] = Tail(@)]
          /\ \E queue \in UDPWrite(down[c], "server", Head(up[c])) :
               down' = [down EXCEPT ![c] = queue]
          /\ UNCHANGED <<open, reset>>
  /\ UNCHANGED <<signalVars, kind, clientVars, serverVars>>

-----------------------------------------------------------------------------
SenderStep(c) ==
  \/ SenderWaits(c)
  \/ SenderStops(c)
  \/ TCPClientTick(c)
  \/ EncryptedClientTick(c)
  \/ UDPClientTick(c)

ReceiverStep(c) == TCPReceiver(c) \/ UDPReceiver(c)

ClientMain(c) == MainWaits(c) \/ ClientExits(c)

HandlerStep(c) ==
  \/ HandlerReceives(c)
  \/ HandlerFails(c)
  \/ HandlerEchoes(c)
  \/ HandlerForgets(c)
  \/ HandlerCloses(c)

AcceptStep(c) == Accept(c) \/ Register(c) \/ StartEncrypted(c)

ServerMain ==
  \/ MainWaits(Server)
  \/ CloseClients
  \/ TCPServerExits
  \/ EncryptedServerExits
  \/ UDPServerPolls
  \/ UDPServerReads

HeartbeatStep == HeartbeatWaits \/ Heartbeat

\* The user may interrupt a program that has not ended.
Interrupt(p) ==
  /\ main[p] \notin {"connecting", "exited"}
  /\ Signal(p)
  /\ UNCHANGED <<kind, main, clientVars, serverVars, connVars>>

Next ==
  \/ \E c \in Clients :
       \/ Connect(c)
       \/ Break(c)
       \/ SenderStep(c)
       \/ ReceiverStep(c)
       \/ ClientMain(c)
       \/ AcceptStep(c)
       \/ HandlerStep(c)
       \/ ServerTick(c)
  \/ ServerMain
  \/ HeartbeatStep
  \/ \E p \in Programs : Interrupt(p)

\* Goroutines that can run do, the timers fire, and bytes arrive.  Nothing
\* forces a user to start or to interrupt a program.
Spec ==
  /\ Init
  /\ [][Next]_vars
  /\ WF_vars(ServerMain)
  /\ WF_vars(HeartbeatStep)
  /\ \A c \in Clients :
       /\ WF_vars(SenderStep(c))
       /\ WF_vars(ReceiverStep(c))
       /\ WF_vars(ClientMain(c))
       /\ WF_vars(AcceptStep(c))
       /\ WF_vars(HandlerStep(c))
       /\ WF_vars(ServerTick(c))

-----------------------------------------------------------------------------
(***************************************************************************)
(* Properties                                                              *)
(***************************************************************************)
\* Type invariant; no goroutine waits twice in the channel of its program, and
\* nobody else uses the connection that the accept loop holds.
ProgramsTypeOK ==
  /\ kind \in {"tcp", "encrypted", "udp"}
  /\ main \in [Programs -> {"connecting", "running", "waiting", "reading",
                            "stopping", "exited"}]
  /\ sender \in [Clients -> {"off", "select", "waiting", "done"}]
  /\ receiver \in [Clients -> {"off", "running", "done"}]
  /\ acceptor \in Programs
  /\ acceptor # Server /\ serverRuns => handler[acceptor] = "accepted"
  /\ handler \in [Clients -> {"off", "queued", "accepted", "recv", "echo",
                              "leaving", "closing", "done"}]
  /\ ticker \in [Clients -> {"off", "running", "done"}]
  /\ clients \subseteq Clients
  /\ heartbeat \in {"select", "waiting", "done"}
  /\ sent \in [Clients -> 0 .. MaxMessages]
  /\ ticks \in [Clients -> 0 .. MaxTicks]
  /\ open \in [Clients -> SUBSET {"client", "server"}]
  /\ \A p \in Programs : \A i, j \in 1 .. Len(waiters[p]) :
       waiters[p][i] = waiters[p][j] => i = j

\* The map of tcp-server holds exactly the clients that are being served:
\* shutting down closes all of them, and no closed connection stays in it.
MapHoldsServedClients ==
  kind = "tcp" /\ serverRuns =>
    clients = {c \in Clients : handler[c] \in {"recv", "echo", "leaving"}}

\* A TCP client gets the echoes of its messages in order and without a gap,
\* whatever the server sends between them.
EchoesInOrder ==
  isTCP => \A c \in Clients : echoed[c] = [n \in 1 .. Len(echoed[c]) |-> n]

\* Over TCP every message is echoed, unless the connection breaks or one of
\* the programs closes it.
EchoArrives ==
  \A c \in Clients :
    isTCP /\ Len(echoed[c]) < sent[c] ~> Len(echoed[c]) = sent[c] \/ isBroken(c)

\* When a client is gone, the server forgets it: its handler, and the ticker
\* that only a failing Send can stop, end.
NothingLeftBehind ==
  \A c \in Clients :
    main[c] = "exited" ~> /\ handler[c] \in {"off", "done"}
                          /\ ticker[c] \in {"off", "done"}
                          /\ c \notin clients

\* How many signals end a program: where main shares sigChan with another
\* goroutine that one may take the first.
signalsNeeded(p) == IF p = Server /\ isTCP THEN 1 ELSE 2

\* A program that got that many signals ends: no signal is lost between
\* Notify and the receive, and a signal in the channel reaches main.
SignalsEndProgram ==
  \A p \in Programs : signals[p] >= signalsNeeded(p) ~> main[p] = "exited"
=============================================================================
