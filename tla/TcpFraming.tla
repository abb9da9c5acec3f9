------------------------------ MODULE TcpFraming ------------------------------
(***************************************************************************)
(* Packets over the byte stream.  send and recv move some part of what     *)
(* they are given; TcpClient::Send and Receive (Client/Network/            *)
(* TcpClient.cpp), and SendAll and the receive loop of the server          *)
(* (Server/main.cpp), call them until a whole packet (Shared/Network/      *)
(* Packet.h) has passed.  A packet is the sequence of its fields in        *)
(* network byte order, the two coordinates as one and given by the bits of *)
(* the float; a field is the unit in which the stream is cut, and a        *)
(* packet's size is counted in fields.                                     *)
(***************************************************************************)
EXTENDS Integers, Sequences

CONSTANTS
    WorldPositions,     \* the values of the coordinates' bits
    PipeSize,           \* fields one direction of the connection can hold
    MaxPackets          \* bound: packets the client sends, a sequence number
                        \* of 32 bits that has not wrapped round

(* A bound: the numbers TLC counts in, half of what the 32 bits hold. *)
LargestWord == 2147483647

ASSUME FramingAssumption ==
    /\ WorldPositions \subseteq 0..LargestWord /\ WorldPositions # {}
    /\ PipeSize \in Nat \ {0} /\ MaxPackets \in 0..LargestWord

VARIABLES
    main,           \* the client's main thread
    outgoing,       \* the packet it sends
    clientSent,     \* totalSentBytes of TcpClient::Send
    moveSequence,
    toServer, toClient,     \* what is under way in either direction
    shut,           \* the client has shut the socket down
    server,         \* where the server is
    movePacket,     \* movePacket
    serverReceived, \* its totalReceivedBytes
    lastSequence,
    statePacket,    \* statePacket
    serverSent,     \* totalSentBytes of SendAll
    receiver,       \* the client's receive thread
    packet,         \* its packet
    clientReceived, \* totalReceivedBytes of TcpClient::Receive
    handedMoves, takenMoves,    \* what was to be sent and what was
    handedStates, takenStates   \* decoded, in both directions

clientVars == <<main, outgoing, clientSent, moveSequence, handedMoves>>
wires == <<toServer, toClient, shut>>
serverVars == <<server, movePacket, serverReceived, lastSequence, statePacket,
                serverSent, takenMoves, handedStates>>
receiverVars == <<receiver, packet, clientReceived, takenStates>>
vars == <<clientVars, wires, serverVars, receiverVars>>

PlayerMove == 1
PlayerState == 2
MoveSize == 4
StateSize == 5

(* htonl and ntohl swap the four bytes of a number, htons and ntohs the    *)
(* two of a short one.                                                     *)
Swap32(n) ==
    (n % 256) * 16777216 + ((n \div 256) % 256) * 65536
        + ((n \div 65536) % 256) * 256 + n \div 16777216
Swap16(n) == (n % 256) * 256 + n \div 256

MakePlayerMovePacket(move) ==
    <<Swap16(MoveSize), Swap16(PlayerMove), Swap32(move.sequence),
      Swap32(move.position)>>

MakePlayerStatePacket(state) ==
    <<Swap16(StateSize), Swap16(PlayerState), Swap32(state.sequence),
      Swap32(state.position), Swap32(IF state.accepted THEN 1 ELSE 0)>>

DecodedMove(bytes) ==
    [sequence |-> Swap32(bytes[3]), position |-> Swap32(bytes[4])]
DecodedState(bytes) ==
    [sequence |-> Swap32(bytes[3]), position |-> Swap32(bytes[4]),
     accepted |-> Swap32(bytes[5]) # 0]

Moves == [sequence : 1..MaxPackets, position : WorldPositions]
Snapshots == [sequence : 1..MaxPackets, position : WorldPositions,
              accepted : BOOLEAN]

(* A packet before anything is received into it: all zero. *)
Zeros(size) == [i \in 1..size |-> 0]

Init ==
    /\ main = "Idle" /\ outgoing = <<>> /\ clientSent = 0 /\ moveSequence = 0
    /\ toServer = <<>> /\ toClient = <<>> /\ shut = FALSE
    /\ server = "Receive" /\ movePacket = Zeros(MoveSize)
    /\ serverReceived = 0 /\ lastSequence = 0
    /\ statePacket = <<>> /\ serverSent = 0
    /\ receiver = "Receive" /\ packet = Zeros(StateSize) /\ clientReceived = 0
    /\ handedMoves = <<>> /\ takenMoves = <<>>
    /\ handedStates = <<>> /\ takenStates = <<>>

-----------------------------------------------------------------------------
(* send and recv *)

Smaller(m, n) == IF m < n THEN m ELSE n

MutantAsksForWhole(bytes, received, pipe) == 1..Smaller(Len(bytes), Len(pipe))

(* How much one call of send may take of what is left of a packet, and one *)
(* call of recv may return: any part, but not nothing, and no more than    *)
(* there is room for or has arrived.                                       *)
Sendable(bytes, sent, pipe) ==
    1..Smaller(Len(bytes) - sent, PipeSize - Len(pipe))
Receivable(bytes, received, pipe) ==
    1..Smaller(Len(bytes) - received, Len(pipe))

(* bytes + totalSentBytes *)
Part(bytes, sent, count) == SubSeq(bytes, sent + 1, sent + count)

MutantOverwritesStart(bytes, received, pipe, count) ==
    [i \in DOMAIN bytes |-> IF i <= count THEN pipe[i] ELSE bytes[i]]

(* recv writes behind what has been received already. *)
Filled(bytes, received, pipe, count) ==
    [i \in DOMAIN bytes |->
        IF i \in received + 1 .. received + count THEN pipe[i - received]
        ELSE bytes[i]]

Rest(pipe, count) == SubSeq(pipe, count + 1, Len(pipe))

Valid(bytes, type) == Swap16(bytes[1]) = Len(bytes) /\ Swap16(bytes[2]) = type

ServerGone == server \in {"Gone", "Rejected"}
Broken == shut \/ ServerGone

-----------------------------------------------------------------------------
(* The client's main thread *)

StartSend(position) ==
    /\ main = "Idle" /\ moveSequence < MaxPackets
    /\ moveSequence' = moveSequence + 1
    /\ LET move == [sequence |-> moveSequence', position |-> position]
       IN  /\ outgoing' = MakePlayerMovePacket(move)
           /\ handedMoves' = Append(handedMoves, move)
    /\ clientSent' = 0
    /\ main' = "Send"
    /\ UNCHANGED <<wires, serverVars, receiverVars>>

MutantSendsOnce ==
    /\ main = "Send"
    /\ \E count \in Sendable(outgoing, clientSent, toServer) :
          /\ toServer' = toServer \o Part(outgoing, clientSent, count)
          /\ clientSent' = clientSent + count
    /\ main' = "Idle"
    /\ UNCHANGED <<outgoing, moveSequence, handedMoves, toClient, shut,
                   serverVars, receiverVars>>

(* One round of the loop in TcpClient::Send. *)
ClientSends ==
    /\ main = "Send"
    /\ \E count \in Sendable(outgoing, clientSent, toServer) :
          /\ toServer' = toServer \o Part(outgoing, clientSent, count)
          /\ clientSent' = clientSent + count
    /\ main' = IF clientSent' < Len(outgoing) THEN "Send" ELSE "Idle"
    /\ UNCHANGED <<outgoing, moveSequence, handedMoves, toClient, shut,
                   serverVars, receiverVars>>

(* Send returns false, and the client ends. *)
ClientSendFails ==
    /\ main = "Send" /\ ServerGone
    /\ main' = "Close"
    /\ UNCHANGED <<outgoing, clientSent, moveSequence, handedMoves, wires,
                   serverVars, receiverVars>>

CloseWindow ==
    /\ main = "Idle"
    /\ main' = "Close"
    /\ UNCHANGED <<outgoing, clientSent, moveSequence, handedMoves, wires,
                   serverVars, receiverVars>>

Shutdown ==
    /\ main = "Close"
    /\ shut' = TRUE
    /\ main' = "Ended"
    /\ UNCHANGED <<outgoing, clientSent, moveSequence, handedMoves, toServer,
                   toClient, serverVars, receiverVars>>

-----------------------------------------------------------------------------
(* The server *)

MutantTakesFirstPart ==
    /\ server = "Receive"
    /\ \E count \in Receivable(movePacket, serverReceived, toServer) :
          /\ movePacket' = Filled(movePacket, serverReceived, toServer, count)
          /\ serverReceived' = serverReceived + count
          /\ toServer' = Rest(toServer, count)
    /\ server' = "Check"
    /\ UNCHANGED <<clientVars, toClient, shut, lastSequence, statePacket,
                   serverSent, takenMoves, handedStates, receiverVars>>

(* One round of the loop around recv in main. *)
ServerReceives ==
    /\ server = "Receive"
    /\ \E count \in Receivable(movePacket, serverReceived, toServer) :
          /\ movePacket' = Filled(movePacket, serverReceived, toServer, count)
          /\ serverReceived' = serverReceived + count
          /\ toServer' = Rest(toServer, count)
    /\ server' = IF serverReceived' < MoveSize THEN "Receive" ELSE "Check"
    /\ UNCHANGED <<clientVars, toClient, shut, lastSequence, statePacket,
                   serverSent, takenMoves, handedStates, receiverVars>>

StartReply(sequence) ==
    /\ \E position \in WorldPositions, accepted \in BOOLEAN :
          LET state == [sequence |-> sequence, position |-> position,
                        accepted |-> accepted]
          IN  /\ statePacket' = MakePlayerStatePacket(state)
              /\ handedStates' = Append(handedStates, state)
    /\ serverSent' = 0

(* A packet that is not a whole PlayerMovePacket ends the server, one with *)
(* an old sequence number is dropped, any other is answered.  What the     *)
(* answer says is MoveSync's matter.                                       *)
ServerChecks ==
    /\ server = "Check"
    /\ movePacket' = Zeros(MoveSize) /\ serverReceived' = 0
    /\ IF ~Valid(movePacket, PlayerMove)
       THEN /\ server' = "Rejected"
            /\ UNCHANGED <<takenMoves, lastSequence, statePacket, serverSent,
                           handedStates>>
       ELSE LET move == DecodedMove(movePacket)
            IN  /\ takenMoves' = Append(takenMoves, move)
                /\ IF move.sequence <= lastSequence
                   THEN /\ server' = "Receive"
                        /\ UNCHANGED <<lastSequence, statePacket, serverSent,
                                       handedStates>>
                   ELSE /\ lastSequence' = move.sequence
                        /\ StartReply(move.sequence)
                        /\ server' = "Reply"
    /\ UNCHANGED <<clientVars, wires, receiverVars>>

(* One round of the loop in SendAll. *)
ServerSends ==
    /\ server = "Reply"
    /\ \E count \in Sendable(statePacket, serverSent, toClient) :
          /\ toClient' = toClient \o Part(statePacket, serverSent, count)
          /\ serverSent' = serverSent + count
    /\ server' = IF serverSent' < StateSize THEN "Reply" ELSE "Receive"
    /\ UNCHANGED <<clientVars, toServer, shut, movePacket, serverReceived,
                   lastSequence, statePacket, takenMoves, handedStates,
                   receiverVars>>

(* recv returns 0 or fails, perhaps in the middle of a packet and with a   *)
(* rest of it lost by a reset, or SendAll fails.                           *)
ServerSeesDisconnect ==
    /\ server \in {"Receive", "Reply"} /\ shut
    /\ server' = "Gone"
    /\ UNCHANGED <<clientVars, wires, movePacket, serverReceived, lastSequence,
                   statePacket, serverSent, takenMoves, handedStates,
                   receiverVars>>

(* External: the server process is ended, wherever it is. *)
ServerDies ==
    /\ ~ServerGone
    /\ server' = "Gone"
    /\ UNCHANGED <<clientVars, wires, movePacket, serverReceived, lastSequence,
                   statePacket, serverSent, takenMoves, handedStates,
                   receiverVars>>

-----------------------------------------------------------------------------
(* The client's receive thread *)

(* One round of the loop in TcpClient::Receive. *)
ClientReceives ==
    /\ receiver = "Receive" /\ ~shut
    /\ \E count \in Receivable(packet, clientReceived, toClient) :
          /\ packet' = Filled(packet, clientReceived, toClient, count)
          /\ clientReceived' = clientReceived + count
          /\ toClient' = Rest(toClient, count)
    /\ receiver' = IF clientReceived' < StateSize THEN "Receive" ELSE "Check"
    /\ UNCHANGED <<clientVars, toServer, shut, serverVars, takenStates>>

(* ReceiveLoop publishes a whole PlayerStatePacket and gives up on any     *)
(* other.                                                                  *)
ReceiverChecks ==
    /\ receiver = "Check"
    /\ packet' = Zeros(StateSize) /\ clientReceived' = 0
    /\ IF Valid(packet, PlayerState)
       THEN /\ receiver' = "Receive"
            /\ takenStates' = Append(takenStates, DecodedState(packet))
       ELSE receiver' = "Rejected" /\ UNCHANGED takenStates
    /\ UNCHANGED <<clientVars, wires, serverVars>>

ReceiverSeesDisconnect ==
    /\ receiver = "Receive" /\ Broken
    /\ receiver' = "Exited"
    /\ UNCHANGED <<clientVars, wires, serverVars, packet, clientReceived,
                   takenStates>>

-----------------------------------------------------------------------------
MainSteps ==
    ClientSends \/ ClientSendFails \/ Shutdown
ServerSteps ==
    ServerReceives \/ ServerChecks \/ ServerSends \/ ServerSeesDisconnect
ReceiverSteps ==
    ClientReceives \/ ReceiverChecks \/ ReceiverSeesDisconnect

Ended ==
    /\ main = "Ended" /\ ServerGone /\ receiver \in {"Exited", "Rejected"}
    /\ UNCHANGED vars

Next ==
    \/ \E position \in WorldPositions : StartSend(position)
    \/ MainSteps \/ CloseWindow \/ ServerSteps \/ ServerDies \/ ReceiverSteps
    \/ Ended

Spec == Init /\ [][Next]_vars

(* Threads and processes are scheduled, and the network moves what it has  *)
(* taken.  The player need not send or close, the server need not die.     *)
FairSpec ==
    /\ Spec
    /\ WF_vars(MainSteps) /\ WF_vars(ServerSteps) /\ WF_vars(ReceiverSteps)

-----------------------------------------------------------------------------
TypeOK ==
    /\ main \in {"Idle", "Send", "Close", "Ended"}
    /\ clientSent \in 0..MoveSize /\ serverSent \in 0..StateSize
    /\ serverReceived \in 0..MoveSize /\ clientReceived \in 0..StateSize
    /\ Len(toServer) <= PipeSize /\ Len(toClient) <= PipeSize
    /\ server \in {"Receive", "Check", "Reply", "Gone", "Rejected"}
    /\ receiver \in {"Receive", "Check", "Exited", "Rejected"}

(* In both directions whole packets come out in the order and with the     *)
(* contents they were handed over with, however send and recv cut the      *)
(* stream and wherever the connection breaks: a torn packet is never acted *)
(* on.                                                                     *)
MovesLine == INSTANCE PacketLine
    WITH Packets <- Moves, handed <- handedMoves, taken <- takenMoves
StatesLine == INSTANCE PacketLine
    WITH Packets <- Snapshots, handed <- handedStates,
         taken <- takenStates
ImplementsLine == MovesLine!Spec /\ StatesLine!Spec

(* Neither side ever refuses a packet of the other: an invalid packet is   *)
(* reported only to a peer that is not this program.                       *)
NothingRejected == server # "Rejected" /\ receiver # "Rejected"

(* Whatever has been handed over comes out at the other side unless the    *)
(* connection breaks: no loop stops before the last part of a packet or    *)
(* waits for more than the other side sends, and the two sides never wait  *)
(* for each other although both directions may be full.                    *)
UnderWay == handedMoves # takenMoves \/ handedStates # takenStates
PacketsArrive == UnderWay ~> ~UnderWay \/ Broken
=============================================================================
