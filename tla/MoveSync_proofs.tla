----------------------------- MODULE MoveSync_proofs -----------------------------
(***************************************************************************)
(* Proofs about the movement protocol, for a world, a snap distance,       *)
(* allowed distances and buffers of any size and any number of moves.  The *)
(* inductive invariant SyncInv follows an answer from the server to the    *)
(* main thread, place by place: the answers in the places are in order,    *)
(* none is newer than what the server has seen, one about what the server  *)
(* has seen last tells the position it approves, and the newest one is     *)
(* that one while the server lives.                                        *)
(***************************************************************************)
EXTENDS MoveSync, TLAPS

(* An answer is about something the server has seen, and the answer about *)
(* what it has seen last is still right.                                  *)
Fresh(answer) ==
    /\ answer.sequence <= lastSequence
    /\ answer.sequence = lastSequence => answer.position = approved

AnswersFresh ==
    /\ hasNew => Fresh(latest)
    /\ receiver = "Publish" => Fresh(received)
    /\ \A i \in 1..Len(toClient) : Fresh(toClient[i])
    /\ server = "Reply" => Fresh(reply)

AnswersOrdered ==
    /\ hasNew /\ receiver = "Publish" => latest.sequence < received.sequence
    /\ hasNew => \A i \in 1..Len(toClient) :
                    latest.sequence < toClient[i].sequence
    /\ hasNew /\ server = "Reply" => latest.sequence < reply.sequence
    /\ receiver = "Publish" => \A i \in 1..Len(toClient) :
                    received.sequence < toClient[i].sequence
    /\ receiver = "Publish" /\ server = "Reply" =>
                    received.sequence < reply.sequence
    /\ \A i, j \in 1..Len(toClient) :
          i < j => toClient[i].sequence < toClient[j].sequence
    /\ server = "Reply" => \A i \in 1..Len(toClient) :
                    toClient[i].sequence < reply.sequence

(* The newest answer is in the place nearest to the server. *)
NewestIsLast ==
    /\ server = "Reply" => reply.sequence = lastSequence
    /\ server = "Receive" =>
          IF toClient # <<>>
          THEN toClient[Len(toClient)].sequence = lastSequence
          ELSE IF receiver = "Publish" THEN received.sequence = lastSequence
          ELSE hasNew => latest.sequence = lastSequence

(* There is no receive thread before it is started. *)
NotStarted == main = "Start" => receiver = "None"

SyncInv ==
    TypeOK /\ NotStarted /\ AnswersFresh /\ AnswersOrdered /\ NewestIsLast

-----------------------------------------------------------------------------
(* What is left of a line when its first element is taken. *)
LEMMA TakeFirst ==
    ASSUME NEW S, NEW line \in Seq(S), line # <<>>
    PROVE  /\ Head(line) \in S /\ Head(line) = line[1] /\ 1 \in 1..Len(line)
           /\ Tail(line) \in Seq(S) /\ Len(Tail(line)) = Len(line) - 1
           /\ Len(line) \in Nat /\ Len(Tail(line)) \in Nat
           /\ \A i \in 1..Len(Tail(line)) :
                 i + 1 \in 1..Len(line) /\ Tail(line)[i] = line[i + 1]
OBVIOUS

(* What a line is with an element more. *)
LEMMA AddLast ==
    ASSUME NEW S, NEW line \in Seq(S), NEW new \in S
    PROVE  /\ Append(line, new) \in Seq(S)
           /\ Len(Append(line, new)) = Len(line) + 1 /\ Len(line) \in Nat
           /\ Append(line, new)[Len(line) + 1] = new
           /\ \A i \in 1..Len(line) : Append(line, new)[i] = line[i]
           /\ Append(line, new) # <<>>
OBVIOUS

(* The server's answer is a snapshot, about the packet it received. *)
LEMMA AnswerType ==
    ASSUME NEW move \in Moves, NEW ok \in BOOLEAN, approved \in 0..World,
           ok => move.position \in 0..World
    PROVE  /\ Answer(move, ok) \in Snapshots
           /\ Answer(move, ok).sequence = move.sequence
           /\ Answer(move, ok).position = IF ok THEN move.position ELSE approved
BY SyncAssumption DEF Answer, Moves, Snapshots

(* What a packet taken by the server does to its state. *)
LEMMA ServerTakes ==
    ASSUME TypeOK, ServerReceives
    PROVE  /\ toServer' \in Seq(Moves) /\ Len(toServer') <= BufferSize
           /\ \/ UNCHANGED <<server, approved, lastSequence, reply>>
              \/ /\ server' = "Reply" /\ reply' \in Snapshots
                 /\ lastSequence' \in 0..MaxSequence /\ lastSequence < lastSequence'
                 /\ approved' \in 0..World
                 /\ reply'.sequence = lastSequence'
                 /\ reply'.position = approved'
<1> DEFINE move == Head(toServer)
<1>1. /\ move \in Moves /\ toServer' = Tail(toServer) /\ toServer' \in Seq(Moves)
      /\ Len(toServer') <= BufferSize
  <2>1. toServer \in Seq(Moves) /\ toServer # <<>> /\ Len(toServer) <= BufferSize
    BY DEF TypeOK, ServerReceives
  <2>2. toServer' = Tail(toServer)
    BY DEF ServerReceives
  <2>3. /\ Head(toServer) \in Moves /\ Tail(toServer) \in Seq(Moves)
        /\ Len(Tail(toServer)) = Len(toServer) - 1 /\ Len(toServer) \in Nat
    BY ONLY <2>1, TakeFirst
  <2> QED BY <2>1, <2>2, <2>3, SyncAssumption
<1>2. CASE UNCHANGED <<server, approved, lastSequence, reply>>
  BY <1>1, <1>2
<1>3. CASE ~UNCHANGED <<server, approved, lastSequence, reply>>
  <2>1. PICK allowed \in AllowedDistances :
           /\ approved' = IF Approves(move, allowed) THEN move.position
                          ELSE approved
           /\ lastSequence' = move.sequence
           /\ reply' = Answer(move, Approves(move, allowed))
           /\ server' = "Reply"
    BY <1>3 DEF ServerReceives
  <2>2. ~(move.sequence <= lastSequence)
    BY <1>3 DEF ServerReceives
  <2>3. lastSequence \in 0..MaxSequence /\ approved \in 0..World
    BY DEF TypeOK
  <2>4. /\ Approves(move, allowed) \in BOOLEAN
        /\ Approves(move, allowed) => move.position \in 0..World
    BY DEF Approves
  <2>5. move.sequence \in 1..MaxSequence
    BY <1>1 DEF Moves
  <2> HIDE DEF move
  <2>6. /\ reply' \in Snapshots /\ reply'.sequence = move.sequence
        /\ reply'.position = IF Approves(move, allowed) THEN move.position
                             ELSE approved
    BY <1>1, <2>1, <2>3, <2>4, AnswerType
  <2> QED BY <1>1, <2>1, <2>2, <2>3, <2>4, <2>5, <2>6, SyncAssumption
<1> QED BY <1>2, <1>3

(* Every step keeps the types and the bounds of the two lines. *)
LEMMA TypeInductive == TypeOK /\ [Next]_vars => TypeOK'
<1> SUFFICES ASSUME TypeOK, [Next]_vars PROVE TypeOK'
  OBVIOUS
<1> USE SyncAssumption
<1>1. CASE StartReceiver \/ CloseWindow
  BY <1>1 DEF StartReceiver, CloseWindow, TypeOK, wires, serverVars, receiverVars
<1>2. CASE Frame
  BY <1>2 DEF Frame, TypeOK, wires, serverVars, receiverVars
<1>3. ASSUME NEW position \in Positions, Send(position),
             main' \in {"TestMove", "Consume"}
      PROVE  TypeOK'
  <2> DEFINE move == [sequence |-> moveSequence + 1, position |-> position]
  <2>1. moveSequence' \in 1..MaxSequence /\ moveSequence' = moveSequence + 1
    BY <1>3 DEF Send, TypeOK
  <2>2. move \in Moves
    BY <2>1 DEF Moves
  <2>3. toServer' = Append(toServer, move) /\ Len(toServer) < BufferSize
    BY <1>3, <2>1 DEF Send
  <2>4. toServer \in Seq(Moves)
    BY DEF TypeOK
  <2> HIDE DEF move
  <2>5. toServer' \in Seq(Moves) /\ Len(toServer') <= BufferSize
    BY <2>2, <2>3, <2>4, AddLast
  <2> QED BY <1>3, <2>1, <2>5 DEF TypeOK, Send, serverVars, receiverVars
<1>4. CASE SendMove \/ SendTestMove
  <2>1. player \in Positions /\ OutOfWorld \in Positions
    BY DEF TypeOK, Positions, OutOfWorld
  <2> QED BY <1>3, <1>4, <2>1 DEF SendMove, SendTestMove
<1>5. CASE SendFails \/ SendSkipped
  BY <1>5 DEF SendFails, SendSkipped, TypeOK, wires, serverVars, receiverVars
<1>6. CASE ConsumeLatest
  <2>1. player' \in 0..World
    BY <1>6 DEF ConsumeLatest, Corrected, TypeOK, Snapshots
  <2> QED BY <1>6, <2>1 DEF ConsumeLatest, TypeOK, wires, serverVars
<1>7. CASE StopReceiver \/ JoinReceiver \/ Disconnect
  BY <1>7 DEF StopReceiver, JoinReceiver, Disconnect, TypeOK, wires,
              serverVars, receiverVars
<1>8. CASE ReceiverTests \/ ReceiveFails \/ PublishLatest
  <2>1. NoSnapshot \in Snapshots
    BY DEF NoSnapshot, Snapshots
  <2> QED BY <1>8, <2>1 DEF ReceiverTests, ReceiveFails, PublishLatest, TypeOK,
                            wires, serverVars, clientVars
<1>9. CASE ReceivePacket
  <2>1. toClient \in Seq(Snapshots) /\ toClient # <<>> /\ Len(toClient) <= BufferSize
    BY <1>9 DEF TypeOK, ReceivePacket
  <2>2. /\ Head(toClient) \in Snapshots /\ Tail(toClient) \in Seq(Snapshots)
        /\ Len(Tail(toClient)) = Len(toClient) - 1 /\ Len(toClient) \in Nat
    BY ONLY <2>1, TakeFirst
  <2>3. /\ received' \in Snapshots /\ toClient' \in Seq(Snapshots)
        /\ Len(toClient') <= BufferSize
    BY <1>9, <2>1, <2>2 DEF ReceivePacket
  <2> QED BY <1>9, <2>3 DEF ReceivePacket, TypeOK, serverVars, clientVars
<1>10. CASE ServerReceives
  BY <1>10, ServerTakes DEF ServerReceives, TypeOK, clientVars, receiverVars
<1>11. CASE ServerReplies
  <2>1. NoSnapshot \in Snapshots
    BY DEF NoSnapshot, Snapshots
  <2>2. toClient \in Seq(Snapshots) /\ reply \in Snapshots
    BY DEF TypeOK
  <2>3. toClient' = Append(toClient, reply) /\ Len(toClient) < BufferSize
    BY <1>11 DEF ServerReplies
  <2>4. toClient' \in Seq(Snapshots) /\ Len(toClient') <= BufferSize
    BY <2>2, <2>3, AddLast
  <2> QED BY <1>11, <2>1, <2>4 DEF ServerReplies, TypeOK, clientVars, receiverVars
<1>12. CASE ServerSeesDisconnect \/ ServerDies
  BY <1>12 DEF ServerSeesDisconnect, ServerDies, TypeOK, clientVars,
               receiverVars, wires
<1>13. CASE Ended \/ UNCHANGED vars
  BY <1>13 DEF Ended, vars, clientVars, receiverVars, wires, serverVars, TypeOK
<1> QED
  BY <1>1, <1>2, <1>4, <1>5, <1>6, <1>7, <1>8, <1>9, <1>10, <1>11, <1>12, <1>13
  DEF Next, MainSteps, ReceiverSteps, ServerSteps

(* Every step keeps the answers under way in order, and the newest last. *)
LEMMA AnswersInductive ==
    SyncInv /\ [Next]_vars => AnswersFresh' /\ AnswersOrdered' /\ NewestIsLast'
<1> SUFFICES ASSUME TypeOK, NotStarted, AnswersFresh, AnswersOrdered,
                    NewestIsLast, [Next]_vars
             PROVE  AnswersFresh' /\ AnswersOrdered' /\ NewestIsLast'
  BY DEF SyncInv
<1> USE DEF AnswersFresh, AnswersOrdered, NewestIsLast, Fresh
<1>0. toClient \in Seq(Snapshots)
  BY DEF TypeOK
<1>1. CASE /\ UNCHANGED <<latest, received, toClient, reply, approved,
                          lastSequence>>
           /\ hasNew' = hasNew
           /\ receiver' = "Publish" <=> receiver = "Publish"
           /\ server' = "Gone" \/ server' = server
  BY <1>1
<1>2. CASE StartReceiver \/ JoinReceiver \/ ReceiverTests \/ ReceiveFails
  <2>1. receiver' = "Publish" <=> receiver = "Publish"
    BY <1>2 DEF StartReceiver, JoinReceiver, ReceiverTests, ReceiveFails, NotStarted
  <2> QED BY <1>1, <1>2, <2>1 DEF StartReceiver, JoinReceiver, ReceiverTests,
                         ReceiveFails, wires, serverVars
<1>3. CASE Frame \/ CloseWindow \/ SendFails \/ SendSkipped \/ StopReceiver
              \/ Disconnect
  BY <1>1, <1>3 DEF Frame, CloseWindow, SendFails, SendSkipped, StopReceiver,
                    Disconnect, wires, serverVars, receiverVars
<1>4. CASE SendMove \/ SendTestMove
  BY <1>1, <1>4 DEF SendMove, SendTestMove, Send, serverVars, receiverVars
<1>5. CASE ConsumeLatest
  BY <1>5 DEF ConsumeLatest, wires, serverVars
<1>6. CASE PublishLatest
  BY <1>6 DEF PublishLatest, wires, serverVars
<1>7. CASE ReceivePacket
  <2>1. /\ receiver = "Receive" /\ receiver' = "Publish" /\ toClient # <<>>
        /\ received' = Head(toClient) /\ toClient' = Tail(toClient)
        /\ UNCHANGED <<latest, hasNew, server, approved, lastSequence, reply>>
    BY <1>7 DEF ReceivePacket, serverVars
  <2>2. /\ received' = toClient[1] /\ 1 \in 1..Len(toClient)
        /\ Len(toClient) \in Nat /\ Len(toClient') = Len(toClient) - 1
        /\ \A i \in 1..Len(toClient') :
              i + 1 \in 1..Len(toClient) /\ toClient'[i] = toClient[i + 1]
        /\ toClient' \in Seq(Snapshots)
    BY <1>0, <2>1, TakeFirst
  <2>3. AnswersFresh'
    BY <2>1, <2>2
  <2>4. \A i \in 1..Len(toClient') : received'.sequence < toClient'[i].sequence
    <3>1. \A i \in 1..Len(toClient') : 1 < i + 1
      OBVIOUS
    <3> QED BY <2>2, <3>1
  <2>5. \A i, j \in 1..Len(toClient') :
           i < j => toClient'[i].sequence < toClient'[j].sequence
    <3>1. \A i, j \in 1..Len(toClient') : i < j => i + 1 < j + 1
      OBVIOUS
    <3> QED BY <2>2, <3>1
  <2>6. AnswersOrdered'
    BY <2>1, <2>2, <2>4, <2>5
  <2>7. NewestIsLast'
    <3>1. CASE toClient' = <<>>
      <4>1. Len(toClient) = 1
        BY <2>2, <3>1
      <4> QED BY <2>1, <2>2, <3>1, <4>1
    <3>2. CASE toClient' # <<>>
      <4>1. Len(toClient') \in 1..Len(toClient')
        BY <2>2, <3>2
      <4>2. toClient'[Len(toClient')] = toClient[Len(toClient)]
        BY <2>2, <4>1
      <4> QED BY <2>1, <3>2, <4>2
    <3> QED BY <3>1, <3>2
  <2> QED BY <2>3, <2>6, <2>7
<1>8. CASE ServerReceives
  <2>1. server = "Receive"
        /\ UNCHANGED <<latest, hasNew, receiver, received, toClient>>
    BY <1>8 DEF ServerReceives, receiverVars
  <2>2. CASE UNCHANGED <<server, approved, lastSequence, reply>>
    BY <1>1, <2>1, <2>2
  <2>3. CASE /\ server' = "Reply" /\ lastSequence' \in 0..MaxSequence
             /\ lastSequence < lastSequence'
             /\ reply'.sequence = lastSequence' /\ reply'.position = approved'
    <3>1. /\ lastSequence \in Nat /\ lastSequence' \in Nat
          /\ latest.sequence \in Nat /\ received.sequence \in Nat
      BY <2>3 DEF TypeOK, Snapshots
    <3>2. \A i \in 1..Len(toClient) : toClient[i].sequence \in Nat
      <4>1. \A i \in 1..Len(toClient) : toClient[i] \in Snapshots
        BY <1>0
      <4> QED BY <4>1 DEF Snapshots
    <3>3. AnswersFresh'
      BY <2>1, <2>3, <3>1, <3>2
    <3>4. AnswersOrdered'
      BY <2>1, <2>3, <3>1, <3>2
    <3> QED BY <2>3, <3>3, <3>4
  <2> QED BY <1>8, <2>2, <2>3, ServerTakes
<1>9. CASE ServerReplies
  <2>1. /\ server = "Reply" /\ server' = "Receive"
        /\ toClient' = Append(toClient, reply) /\ reply \in Snapshots
        /\ UNCHANGED <<latest, hasNew, receiver, received, approved, lastSequence>>
    BY <1>9 DEF ServerReplies, receiverVars, TypeOK
  <2>2. /\ Len(toClient') = Len(toClient) + 1 /\ Len(toClient) \in Nat
        /\ toClient'[Len(toClient) + 1] = reply
        /\ \A i \in 1..Len(toClient) : toClient'[i] = toClient[i]
        /\ toClient' # <<>>
    BY <1>0, <2>1, AddLast
  <2>3. \A i \in 1..Len(toClient') : i \in 1..Len(toClient) \/ i = Len(toClient) + 1
    BY <2>2
  <2>4. AnswersFresh'
    BY <2>1, <2>2, <2>3
  <2>5. \A i, j \in 1..Len(toClient') :
           i < j => toClient'[i].sequence < toClient'[j].sequence
    <3> SUFFICES ASSUME NEW i \in 1..Len(toClient'), NEW j \in 1..Len(toClient'),
                        i < j
                 PROVE  toClient'[i].sequence < toClient'[j].sequence
      OBVIOUS
    <3>1. i \in 1..Len(toClient)
      BY <2>2
    <3> QED BY <2>1, <2>2, <2>3, <3>1
  <2>6. AnswersOrdered'
    BY <2>1, <2>2, <2>3, <2>5
  <2>7. NewestIsLast'
    BY <2>1, <2>2
  <2> QED BY <2>4, <2>6, <2>7
<1>10. CASE ServerSeesDisconnect \/ ServerDies
  BY <1>1, <1>10 DEF ServerSeesDisconnect, ServerDies, receiverVars, wires
<1>11. CASE Ended \/ UNCHANGED vars
  BY <1>1, <1>11 DEF Ended, vars, receiverVars, wires, serverVars
<1> QED
  BY <1>2, <1>3, <1>4, <1>5, <1>6, <1>7, <1>8, <1>9, <1>10, <1>11
  DEF Next, MainSteps, ReceiverSteps, ServerSteps

(* The receive thread is there only once it was started. *)
LEMMA StartInductive == TypeOK /\ NotStarted /\ [Next]_vars => NotStarted'
BY DEF NotStarted, TypeOK, Next, MainSteps, ReceiverSteps, ServerSteps, vars,
       clientVars, receiverVars, wires, serverVars, StartReceiver, Frame,
       SendMove, SendTestMove, Send, SendFails, SendSkipped, ConsumeLatest,
       StopReceiver, JoinReceiver, Disconnect, CloseWindow, ReceiverTests,
       ReceivePacket, ReceiveFails, PublishLatest, ServerReceives,
       ServerReplies, ServerSeesDisconnect, ServerDies, Ended, Sending

(* The first state. *)
LEMMA SyncInitially == Init => SyncInv
<1> SUFFICES ASSUME Init PROVE SyncInv
  OBVIOUS
<1> USE DEF Init
<1>1. TypeOK
  <2>1. NoSnapshot \in Snapshots
    BY SyncAssumption DEF NoSnapshot, Snapshots
  <2>2. <<>> \in Seq(Moves) /\ <<>> \in Seq(Snapshots) /\ Len(<<>>) <= BufferSize
    BY SyncAssumption
  <2>3. 0 \in 0..World /\ 0 \in 0..MaxSequence
    BY SyncAssumption
  <2>4. toServer = <<>> /\ toClient = <<>>
    OBVIOUS
  <2>5. /\ toServer \in Seq(Moves) /\ toClient \in Seq(Snapshots)
        /\ Len(toServer) <= BufferSize /\ Len(toClient) <= BufferSize
    BY <2>2, <2>4
  <2>6. received \in Snapshots /\ latest \in Snapshots /\ reply \in Snapshots
    BY <2>1
  <2> QED BY <2>3, <2>5, <2>6 DEF TypeOK
<1>2. AnswersFresh /\ AnswersOrdered /\ NewestIsLast /\ NotStarted
  BY DEF AnswersFresh, AnswersOrdered, NewestIsLast, NotStarted
<1> QED BY <1>1, <1>2 DEF SyncInv

(* The invariant holds in every state of the two programs. *)
THEOREM SyncInvariance == Spec => []SyncInv
<1>1. SyncInv /\ [Next]_vars => SyncInv'
  BY TypeInductive, StartInductive, AnswersInductive DEF SyncInv
<1> QED BY <1>1, SyncInitially, PTL DEF Spec

(* The state of the two programs and of the connection keeps its types, and *)
(* neither direction of the connection holds more than it can.              *)
THEOREM SyncTypeCorrect == Spec => []TypeOK
<1>1. SyncInv => TypeOK
  BY DEF SyncInv
<1> QED BY <1>1, SyncInvariance, PTL

-----------------------------------------------------------------------------
(* From the places to the line of all answers under way *)

Ordered(line) ==
    \A i, j \in 1..Len(line) : i < j => line[i].sequence < line[j].sequence

Before(line, behind) ==
    \A i \in 1..Len(line), j \in 1..Len(behind) :
        line[i].sequence < behind[j].sequence

(* A line that follows another one. *)
LEMMA Following ==
    ASSUME NEW S, NEW line \in Seq(S), NEW behind \in Seq(S)
    PROVE  /\ line \o behind \in Seq(S)
           /\ Len(line \o behind) = Len(line) + Len(behind)
           /\ Len(line) \in Nat /\ Len(behind) \in Nat
           /\ \A i \in 1..Len(line) : (line \o behind)[i] = line[i]
           /\ \A i \in 1..Len(behind) :
                 (line \o behind)[Len(line) + i] = behind[i]
           /\ \A i \in 1..Len(line \o behind) :
                 \/ i \in 1..Len(line)
                 \/ i - Len(line) \in 1..Len(behind)
                       /\ i = Len(line) + (i - Len(line))
OBVIOUS

(* Two ordered lines, one before the other, make one ordered line. *)
LEMMA OrderedFollowing ==
    ASSUME NEW S, NEW line \in Seq(S), NEW behind \in Seq(S),
           Ordered(line), Ordered(behind), Before(line, behind)
    PROVE  Ordered(line \o behind)
<1> DEFINE all == line \o behind
           n == Len(line)
<1>1. /\ Len(all) = n + Len(behind) /\ n \in Nat /\ Len(behind) \in Nat
      /\ \A i \in 1..n : all[i] = line[i]
      /\ \A i \in 1..Len(behind) : all[n + i] = behind[i]
      /\ \A i \in 1..Len(all) :
            \/ i \in 1..n
            \/ i - n \in 1..Len(behind) /\ i = n + (i - n)
  BY Following
<1> HIDE DEF all
<1>2. SUFFICES ASSUME NEW i \in 1..Len(all), NEW j \in 1..Len(all), i < j
               PROVE  all[i].sequence < all[j].sequence
  BY DEF Ordered, all
<1>3. CASE j \in 1..n
  <2>1. i \in 1..n
    BY <1>1, <1>2, <1>3
  <2> QED BY <1>1, <1>2, <1>3, <2>1 DEF Ordered
<1>4. CASE i \in 1..n /\ j - n \in 1..Len(behind)
  <2>1. all[j] = behind[j - n] /\ all[i] = line[i]
    BY <1>1, <1>4
  <2> QED BY <1>4, <2>1 DEF Before
<1>5. CASE i - n \in 1..Len(behind) /\ j - n \in 1..Len(behind)
  <2>1. all[j] = behind[j - n] /\ all[i] = behind[i - n]
    BY <1>1, <1>5
  <2>2. i - n < j - n
    BY <1>1, <1>2
  <2> QED BY <1>5, <2>1, <2>2 DEF Ordered
<1> QED BY <1>1, <1>2, <1>3, <1>4, <1>5

(* What is behind both of two lines is behind the one they make. *)
LEMMA BeforeFollowing ==
    ASSUME NEW S, NEW line \in Seq(S), NEW next \in Seq(S), NEW behind \in Seq(S),
           Before(line, behind), Before(next, behind)
    PROVE  Before(line \o next, behind)
<1> DEFINE all == line \o next
           n == Len(line)
<1>1. /\ n \in Nat
      /\ \A i \in 1..n : all[i] = line[i]
      /\ \A i \in 1..Len(next) : all[n + i] = next[i]
      /\ \A i \in 1..Len(all) :
            \/ i \in 1..n
            \/ i - n \in 1..Len(next) /\ i = n + (i - n)
  BY Following
<1> HIDE DEF all
<1>2. SUFFICES ASSUME NEW i \in 1..Len(all), NEW j \in 1..Len(behind)
               PROVE  all[i].sequence < behind[j].sequence
  BY DEF Before, all
<1>3. CASE i \in 1..n
  BY <1>1, <1>3 DEF Before
<1>4. CASE i - n \in 1..Len(next) /\ i = n + (i - n)
  <2>1. all[i] = next[i - n]
    BY <1>1, <1>4
  <2> QED BY <1>4, <2>1 DEF Before
<1> QED BY <1>1, <1>3, <1>4

(* The newest answer under way always describes the server's present state, *)
(* and answers never overtake one another: the mailbox of the receive       *)
(* thread loses only answers that are out of date.                          *)
THEOREM NewestAlwaysCurrent == Spec => []NewestAnswerIsCurrent
<1> DEFINE held == IF hasNew THEN <<latest>> ELSE <<>>
           got == IF receiver = "Publish" THEN <<received>> ELSE <<>>
           owed == IF server = "Reply" THEN <<reply>> ELSE <<>>
           front == held \o got
           sent == front \o toClient
<1>1. ASSUME SyncInv PROVE NewestAnswerIsCurrent
  <2>1. /\ held \in Seq(Snapshots) /\ got \in Seq(Snapshots)
        /\ owed \in Seq(Snapshots) /\ toClient \in Seq(Snapshots)
    BY <1>1 DEF SyncInv, TypeOK
  <2>2. front \in Seq(Snapshots) /\ sent \in Seq(Snapshots)
    <3> HIDE DEF held, got
    <3>1. front \in Seq(Snapshots)
      BY <2>1
    <3> HIDE DEF front
    <3>2. sent \in Seq(Snapshots)
      BY <2>1, <3>1
    <3> QED BY <3>1, <3>2
  <2>3. OnTheWay = sent \o owed
    <3>1. OnTheWay = ((held \o got) \o toClient) \o owed
      <4> HIDE DEF held, got, owed
      <4> QED BY <2>1 DEF OnTheWay, held, got, owed
    <3> QED BY <3>1
  <2>4. Ordered(held) /\ Ordered(got) /\ Ordered(owed) /\ Ordered(toClient)
    <3>1. Ordered(toClient)
      BY <1>1 DEF SyncInv, AnswersOrdered, Ordered
    <3>2. Ordered(held) /\ Ordered(got) /\ Ordered(owed)
      BY DEF Ordered
    <3> QED BY <3>1, <3>2
  <2>5. /\ Before(held, got) /\ Before(held, toClient) /\ Before(held, owed)
        /\ Before(got, toClient) /\ Before(got, owed) /\ Before(toClient, owed)
    BY <1>1 DEF SyncInv, AnswersOrdered, Before
  <2>6. Ordered(OnTheWay)
    <3> HIDE DEF held, got, owed
    <3>1. Ordered(front) /\ Before(front, toClient) /\ Before(front, owed)
      BY <2>1, <2>4, <2>5, OrderedFollowing, BeforeFollowing
    <3> HIDE DEF front
    <3>2. Ordered(sent) /\ Before(sent, owed)
      BY <2>1, <2>2, <2>4, <2>5, <3>1, OrderedFollowing, BeforeFollowing
    <3> HIDE DEF sent
    <3>3. Ordered(sent \o owed)
      BY <2>1, <2>2, <2>4, <3>2, OrderedFollowing
    <3> QED BY <2>3, <3>3
  <2>7. ASSUME server # "Gone", OnTheWay # <<>>
        PROVE  /\ OnTheWay[Len(OnTheWay)].sequence = lastSequence
               /\ OnTheWay[Len(OnTheWay)].position = approved
    <3> DEFINE last == OnTheWay[Len(OnTheWay)]
    <3>1. server \in {"Receive", "Reply"}
      BY <1>1, <2>7 DEF SyncInv, TypeOK
    <3>2. CASE server = "Reply"
      <4>1. owed = <<reply>>
        BY <3>2
      <4> HIDE DEF owed, sent
      <4>2. last = reply
        BY <2>2, <2>3, <4>1
      <4> HIDE DEF last
      <4>3. Fresh(last) /\ last.sequence = lastSequence
        BY <1>1, <3>2, <4>2 DEF SyncInv, AnswersFresh, NewestIsLast
      <4> QED BY <4>3 DEF Fresh, last
    <3>3. CASE server = "Receive" /\ toClient # <<>>
      <4>1. owed = <<>>
        BY <3>3
      <4> HIDE DEF owed, sent
      <4>2. OnTheWay = sent
        BY <2>2, <2>3, <4>1
      <4> HIDE DEF front
      <4>3. last = toClient[Len(toClient)] /\ Len(toClient) \in 1..Len(toClient)
        BY <2>1, <2>2, <3>3, <4>2 DEF sent
      <4> HIDE DEF last
      <4>4. Fresh(last) /\ last.sequence = lastSequence
        BY <1>1, <3>3, <4>3 DEF SyncInv, AnswersFresh, NewestIsLast
      <4> QED BY <4>4 DEF Fresh, last
    <3>4. CASE server = "Receive" /\ toClient = <<>>
      <4>1. owed = <<>>
        BY <3>4
      <4>2. OnTheWay = front
        <5> HIDE DEF owed, front
        <5> QED BY <2>2, <2>3, <3>4, <4>1 DEF sent
      <4>3. CASE receiver = "Publish"
        <5>1. last = received
          <6>1. got = <<received>>
            BY <4>3
          <6> HIDE DEF held, got
          <6> QED BY <2>1, <4>2, <6>1
        <5> HIDE DEF last
        <5>2. Fresh(last) /\ last.sequence = lastSequence
          BY <1>1, <3>4, <4>3, <5>1 DEF SyncInv, AnswersFresh, NewestIsLast
        <5> QED BY <5>2 DEF Fresh, last
      <4>4. CASE receiver # "Publish"
        <5>1. got = <<>>
          BY <4>4
        <5>2. OnTheWay = held
          <6> HIDE DEF held, got
          <6> QED BY <2>1, <4>2, <5>1
        <5>3. hasNew /\ last = latest
          BY <2>7, <5>2
        <5> HIDE DEF last
        <5>4. Fresh(last) /\ last.sequence = lastSequence
          BY <1>1, <3>4, <4>4, <5>3 DEF SyncInv, AnswersFresh, NewestIsLast
        <5> QED BY <5>4 DEF Fresh, last
      <4> QED BY <4>3, <4>4
    <3> QED BY <3>1, <3>2, <3>3, <3>4
  <2> QED BY <2>6, <2>7 DEF NewestAnswerIsCurrent, Ordered
<1>2. SyncInv => NewestAnswerIsCurrent
  BY <1>1
<1> QED BY <1>2, SyncInvariance, PTL

(* Acting on the server's last answer leaves the player within the snap     *)
(* distance of the approved position, and exactly there after a rejection.  *)
THEOREM CorrectionAlwaysAgrees == Spec => CorrectionAgrees
<1> DEFINE Agrees ==
        main = "Consume" /\ main' = "Frame" /\ hasNew
           /\ latest.sequence = lastSequence =>
             /\ Distance(player', approved) <= SnapDistance
             /\ ~latest.accepted => player' = approved
<1>1. ASSUME SyncInv, [Next]_vars PROVE [Agrees]_vars
  <2> SUFFICES ASSUME main = "Consume", main' = "Frame", hasNew,
                      latest.sequence = lastSequence
               PROVE  /\ Distance(player', approved) <= SnapDistance
                      /\ ~latest.accepted => player' = approved
    OBVIOUS
  <2>1. ConsumeLatest
    BY <1>1
    DEF Next, MainSteps, ReceiverSteps, ServerSteps, vars, clientVars,
        StartReceiver, Frame, SendMove, SendTestMove, Send, SendFails,
        SendSkipped, Sending, StopReceiver, JoinReceiver, Disconnect,
        CloseWindow, ReceiverTests, ReceivePacket, ReceiveFails, PublishLatest,
        ServerReceives, ServerReplies, ServerSeesDisconnect, ServerDies, Ended
  <2>2. latest.position = approved
    BY <1>1 DEF SyncInv, AnswersFresh, Fresh
  <2>3. player' \in Corrected(latest)
    BY <2>1 DEF ConsumeLatest
  <2>4. player \in 0..World /\ approved \in 0..World /\ SnapDistance \in Nat
        /\ World \in Nat
    BY <1>1, SyncAssumption DEF SyncInv, TypeOK
  <2> QED BY <2>2, <2>3, <2>4 DEF Corrected, Distance
<1>2. SyncInv /\ [Next]_vars => [Agrees]_vars
  BY <1>1
<1> QED BY <1>2, SyncInvariance, PTL DEF Spec, CorrectionAgrees
=============================================================================
