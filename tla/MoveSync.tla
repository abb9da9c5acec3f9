------------------------------- MODULE MoveSync -------------------------------
(***************************************************************************)
(* The movement protocol between the client and the server.  The client's  *)
(* main thread sends its position with a growing sequence number           *)
(* (Client/Application.cpp), the server approves or rejects it and answers *)
(* with the position it approves (Server/main.cpp), the client's receive   *)
(* thread publishes the latest answer (Client/Network/                     *)
(* ServerStateReceiver) and the main thread corrects the player by it      *)
(* (DemoScene::ReconcilePlayerPosition).  TcpClient is the socket: two     *)
(* bounded first-in first-out lines of packets, a shutdown that wakes the  *)
(* receive thread, and a close.  One coordinate stands for both, time is   *)
(* the choice of how far the server lets a player have moved.              *)
(***************************************************************************)
EXTENDS Integers, Sequences

CONSTANTS
    World,              \* the player moves in 0..World
    AllowedDistances,   \* the values maxAllowedDistance may take
    SnapDistance,       \* 0.3 in the code
    BufferSize,         \* packets a direction of the connection can hold
    MaxSequence         \* bound: packets the client sends

ASSUME SyncAssumption ==
    /\ World \in Nat \ {0} /\ SnapDistance \in Nat
    /\ AllowedDistances \subseteq Nat /\ AllowedDistances # {}
    /\ BufferSize \in Nat \ {0} /\ MaxSequence \in Nat

VARIABLES
    main,           \* where the client's main thread is
    player,         \* playerPosition_
    moveSequence,   \* moveSequence
    receiver,       \* where the receive thread is; "None" = not joinable
    running,        \* running_ of the receiver
    received,       \* the receive thread's local snapshot
    latest,         \* latestState_
    hasNew,         \* hasNewState_
    toServer, toClient,   \* the two directions of the connection
    shut,           \* the client has shut its socket down
    closed,         \* the client has closed its socket
    server,         \* where the server is
    approved,       \* approvedPositionX / Y
    lastSequence,   \* lastSequence
    reply           \* the server's local: the state packet to send

clientVars == <<main, player, moveSequence>>
receiverVars == <<receiver, running, received, latest, hasNew>>
wires == <<toServer, toClient, shut, closed>>
serverVars == <<server, approved, lastSequence, reply>>
vars == <<clientVars, receiverVars, wires, serverVars>>

OutOfWorld == World + 1
Positions == 0..OutOfWorld
Moves == [sequence : 1..MaxSequence, position : Positions]
Snapshots == [sequence : 0..MaxSequence, position : 0..World,
              accepted : BOOLEAN]
NoSnapshot == [sequence |-> 0, position |-> 0, accepted |-> TRUE]

Distance(p, q) == IF p < q THEN q - p ELSE p - q

Init ==
    /\ main = "Start" /\ player = 0 /\ moveSequence = 0
    /\ receiver = "None" /\ running = FALSE
    /\ received = NoSnapshot /\ latest = NoSnapshot /\ hasNew = FALSE
    /\ toServer = <<>> /\ toClient = <<>> /\ shut = FALSE /\ closed = FALSE
    /\ server = "Receive" /\ approved = 0 /\ lastSequence = 0
    /\ reply = NoSnapshot

-----------------------------------------------------------------------------
(* The client's main thread *)

(* ServerStateReceiver::Start; the thread constructor may throw. *)
StartReceiver ==
    /\ main = "Start"
    /\ \/ running' = TRUE /\ receiver' = "Test" /\ main' = "Frame"
       \/ running' = FALSE /\ UNCHANGED receiver /\ main' = "Stop"
    /\ UNCHANGED <<player, moveSequence, received, latest, hasNew, wires,
                   serverVars>>

(* The scene's part of a frame: the player walks, stays or, after a        *)
(* restart of the dungeon, is back at the origin.  Not every frame sends.  *)
Frame ==
    /\ main = "Frame"
    /\ player' \in {p \in 0..World : Distance(p, player) <= 1} \cup {0}
    /\ main' \in {"Send", "TestMove", "Consume"}
    /\ UNCHANGED <<moveSequence, receiverVars, wires, serverVars>>

CloseWindow ==
    /\ main = "Frame"
    /\ main' = "Stop"
    /\ UNCHANGED <<player, moveSequence, receiverVars, wires, serverVars>>

Sending == main \in {"Send", "TestMove"}

(* TcpClient::Send blocks while the connection is full; the packet may be  *)
(* taken although the server is gone.                                      *)
Send(position) ==
    /\ moveSequence < MaxSequence
    /\ Len(toServer) < BufferSize
    /\ moveSequence' = moveSequence + 1
    /\ toServer' = Append(toServer, [sequence |-> moveSequence',
                                    position |-> position])
    /\ UNCHANGED <<player, receiverVars, toClient, shut, closed, serverVars>>

SendMove ==
    /\ main = "Send"
    /\ Send(player)
    /\ main' \in {"TestMove", "Consume"}

(* A debug build also sends a position outside the world on request. *)
SendTestMove ==
    /\ main = "TestMove"
    /\ Send(OutOfWorld)
    /\ main' = "Consume"

(* Run returns EXIT_FAILURE, and the members are destroyed. *)
SendFails ==
    /\ Sending
    /\ server = "Gone"
    /\ main' = "Stop"
    /\ UNCHANGED <<player, moveSequence, receiverVars, wires, serverVars>>

(* Bound: the client has no more sequence numbers to send with. *)
SendSkipped ==
    /\ Sending /\ moveSequence = MaxSequence
    /\ main' = "Consume"
    /\ UNCHANGED <<player, moveSequence, receiverVars, wires, serverVars>>

MutantNeverSnaps(state) ==
    {p \in 0..World : Distance(p, state.position)
                        <= Distance(player, state.position)}

(* Where ReconcilePlayerPosition may put the player: at the server's       *)
(* position when it rejected the move or is too far off, otherwise         *)
(* somewhere on the way there, as the length of the frame decides.         *)
Corrected(state) ==
    IF ~state.accepted \/ Distance(player, state.position) > SnapDistance
    THEN {state.position}
    ELSE {p \in 0..World :
            Distance(p, state.position) + Distance(p, player)
                = Distance(player, state.position)}

ConsumeLatest ==
    /\ main = "Consume"
    /\ IF hasNew THEN player' \in Corrected(latest) ELSE UNCHANGED player
    /\ hasNew' = FALSE
    /\ main' = "Frame"
    /\ UNCHANGED <<moveSequence, receiver, running, received, latest, wires,
                   serverVars>>

(* ServerStateReceiver::Stop *)
StopReceiver ==
    /\ main = "Stop"
    /\ running' = FALSE
    /\ shut' = (shut \/ receiver # "None")
    /\ main' = IF receiver = "None" THEN "Disconnect" ELSE "Join"
    /\ UNCHANGED <<player, moveSequence, receiver, received, latest, hasNew,
                   toServer, toClient, closed, serverVars>>

JoinReceiver ==
    /\ main = "Join"
    /\ receiver = "Exited"
    /\ receiver' = "None"
    /\ main' = "Disconnect"
    /\ UNCHANGED <<player, moveSequence, running, received, latest, hasNew,
                   wires, serverVars>>

(* The client is destroyed after the receiver: TcpClient::Disconnect. *)
Disconnect ==
    /\ main = "Disconnect"
    /\ shut' = TRUE /\ closed' = TRUE
    /\ main' = "Ended"
    /\ UNCHANGED <<player, moveSequence, receiverVars, toServer, toClient,
                   serverVars>>

-----------------------------------------------------------------------------
(* The receive thread *)

ReceiverTests ==
    /\ receiver = "Test"
    /\ receiver' = IF running THEN "Receive" ELSE "Exited"
    /\ UNCHANGED <<clientVars, running, received, latest, hasNew, wires,
                   serverVars>>

ReceivePacket ==
    /\ receiver = "Receive"
    /\ ~shut /\ toClient # <<>>
    /\ received' = Head(toClient)
    /\ toClient' = Tail(toClient)
    /\ receiver' = "Publish"
    /\ UNCHANGED <<clientVars, running, latest, hasNew, toServer, shut, closed,
                   serverVars>>

(* recv fails or returns 0: the socket is shut down or the peer is gone, *)
(* which may lose what was still on its way.                             *)
ReceiveFails ==
    /\ receiver = "Receive"
    /\ shut \/ server = "Gone"
    /\ receiver' = "Exited"
    /\ running' = FALSE
    /\ UNCHANGED <<clientVars, received, latest, hasNew, wires, serverVars>>

MutantPublishesOnlyIfConsumed ==
    /\ receiver = "Publish"
    /\ IF hasNew THEN UNCHANGED latest ELSE latest' = received
    /\ hasNew' = TRUE
    /\ received' = NoSnapshot
    /\ receiver' = "Test"
    /\ UNCHANGED <<clientVars, running, wires, serverVars>>

MutantPublishesOnce ==
    /\ receiver = "Publish"
    /\ latest' = received /\ hasNew' = TRUE
    /\ received' = NoSnapshot
    /\ receiver' = "Exited"
    /\ UNCHANGED <<clientVars, running, wires, serverVars>>

PublishLatest ==
    /\ receiver = "Publish"
    /\ latest' = received /\ hasNew' = TRUE
    /\ received' = NoSnapshot
    /\ receiver' = "Test"
    /\ UNCHANGED <<clientVars, running, wires, serverVars>>

-----------------------------------------------------------------------------
(* The server *)

MutantApprovesOutside(move, allowed) ==
    Distance(move.position, approved) <= allowed

Approves(move, allowed) ==
    /\ move.position \in 0..World
    /\ Distance(move.position, approved) <= allowed

Answer(move, ok) ==
    [sequence |-> move.sequence, accepted |-> ok,
     position |-> IF ok THEN move.position ELSE approved]

(* A packet whose sequence number is not new is dropped without an answer. *)
ServerReceives ==
    /\ server = "Receive"
    /\ toServer # <<>>
    /\ toServer' = Tail(toServer)
    /\ LET move == Head(toServer)
       IN  IF move.sequence <= lastSequence
           THEN UNCHANGED <<server, approved, lastSequence, reply>>
           ELSE \E allowed \in AllowedDistances :
                  /\ approved' = IF Approves(move, allowed) THEN move.position
                                 ELSE approved
                  /\ lastSequence' = move.sequence
                  /\ reply' = Answer(move, Approves(move, allowed))
                  /\ server' = "Reply"
    /\ UNCHANGED <<clientVars, receiverVars, toClient, shut, closed>>

(* SendAll blocks while the connection is full. *)
ServerReplies ==
    /\ server = "Reply"
    /\ Len(toClient) < BufferSize
    /\ toClient' = Append(toClient, reply)
    /\ reply' = NoSnapshot
    /\ server' = "Receive"
    /\ UNCHANGED <<clientVars, receiverVars, toServer, shut, closed, approved,
                   lastSequence>>

(* recv returns 0 behind the last packet, or SendAll fails. *)
ServerSeesDisconnect ==
    /\ shut
    /\ \/ server = "Receive" /\ toServer = <<>>
       \/ server = "Reply"
    /\ server' = "Gone"
    /\ UNCHANGED <<clientVars, receiverVars, wires, approved, lastSequence,
                   reply>>

(* External: the server process is ended. *)
ServerDies ==
    /\ server # "Gone"
    /\ server' = "Gone"
    /\ UNCHANGED <<clientVars, receiverVars, wires, approved, lastSequence,
                   reply>>

-----------------------------------------------------------------------------
MainSteps ==
    \/ StartReceiver \/ Frame
    \/ SendMove \/ SendTestMove \/ SendFails \/ SendSkipped
    \/ ConsumeLatest \/ StopReceiver \/ JoinReceiver \/ Disconnect
ReceiverSteps ==
    ReceiverTests \/ ReceivePacket \/ ReceiveFails \/ PublishLatest
ServerSteps == ServerReceives \/ ServerReplies \/ ServerSeesDisconnect

Ended == main = "Ended" /\ server = "Gone" /\ UNCHANGED vars

Next ==
    MainSteps \/ CloseWindow \/ ReceiverSteps \/ ServerSteps \/ ServerDies
        \/ Ended

Spec == Init /\ [][Next]_vars

(* Both processes and all threads are scheduled; the window is closed and *)
(* the server killed only by chance.                                      *)
FairSpec ==
    /\ Spec
    /\ WF_vars(MainSteps) /\ WF_vars(ReceiverSteps) /\ WF_vars(ServerSteps)

-----------------------------------------------------------------------------
TypeOK ==
    /\ main \in {"Start", "Frame", "Send", "TestMove", "Consume", "Stop",
                 "Join", "Disconnect", "Ended"}
    /\ player \in 0..World /\ moveSequence \in 0..MaxSequence
    /\ receiver \in {"None", "Test", "Receive", "Publish", "Exited"}
    /\ running \in BOOLEAN /\ hasNew \in BOOLEAN
    /\ received \in Snapshots /\ latest \in Snapshots /\ reply \in Snapshots
    /\ toServer \in Seq(Moves) /\ toClient \in Seq(Snapshots)
    /\ Len(toServer) <= BufferSize /\ Len(toClient) <= BufferSize
    /\ shut \in BOOLEAN /\ closed \in BOOLEAN
    /\ server \in {"Receive", "Reply", "Gone"}
    /\ approved \in 0..World /\ lastSequence \in 0..MaxSequence

(* Everything the server has answered and the main thread has not acted   *)
(* on, the oldest first.                                                  *)
OnTheWay ==
    (IF hasNew THEN <<latest>> ELSE <<>>)
        \o (IF receiver = "Publish" THEN <<received>> ELSE <<>>)
        \o toClient
        \o (IF server = "Reply" THEN <<reply>> ELSE <<>>)

(* The newest answer under way always describes the server's present       *)
(* state, and answers never overtake one another: the mailbox of size one  *)
(* may drop old answers but never replaces a newer one by an older one.    *)
NewestAnswerIsCurrent ==
    server # "Gone" /\ OnTheWay # <<>> =>
        /\ OnTheWay[Len(OnTheWay)].sequence = lastSequence
        /\ OnTheWay[Len(OnTheWay)].position = approved
        /\ \A i, j \in 1..Len(OnTheWay) :
              i < j => OnTheWay[i].sequence < OnTheWay[j].sequence

(* Acting on the server's last answer leaves the player within the snap    *)
(* distance of the approved position, and exactly there after a rejection: *)
(* whatever was lost in between, client and server agree again.            *)
CorrectionAgrees ==
    [][main = "Consume" /\ main' = "Frame" /\ hasNew
        /\ latest.sequence = lastSequence =>
          /\ Distance(player', approved) <= SnapDistance
          /\ ~latest.accepted => player' = approved]_vars

(* The main thread is never blocked in send for ever: although both        *)
(* directions of the connection may be full, the receive thread keeps      *)
(* emptying one of them.                                                   *)
SendReturns == Sending ~> ~Sending
=============================================================================
