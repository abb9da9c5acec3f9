--------------------------- MODULE TcpFraming_proofs ---------------------------
(***************************************************************************)
(* Proofs about the packets over the byte stream, for any size of the      *)
(* connection's buffers, any positions and any number of packets.  Carries *)
(* says of one direction what the fields under way are: those of the       *)
(* packets handed over, from the one the receiver has reached to the one   *)
(* the sender has reached.  FramingInv says it of both directions, with    *)
(* how far the loops at either end have come.                              *)
(***************************************************************************)
EXTENDS TcpFraming, SequenceTheorems, TLAPS

MovePackets == [n \in 1..Len(handedMoves) |-> MakePlayerMovePacket(handedMoves[n])]
StatePackets ==
    [n \in 1..Len(handedStates) |-> MakePlayerStatePacket(handedStates[n])]

(* All the fields ever sent, in either direction. *)
MoveFields == IF handedMoves = <<>> THEN 0
              ELSE MoveSize * (Len(handedMoves) - 1) + clientSent
StateFields == IF handedStates = <<>> THEN 0
               ELSE StateSize * (Len(handedStates) - 1) + serverSent

(* Of number packets of one size, total fields have been sent; done packets *)
(* have come out whole, received fields of the next are in filled, and the  *)
(* rest of what was sent is in the pipe.                                    *)
Carries(packets, number, size, total, pipe, done, filled, received) ==
    /\ total = size * done + received + Len(pipe)
    /\ \A n \in 1..number, j \in 1..size :
          /\ \A i \in 1..Len(pipe) :
                size * done + received + i = size * (n - 1) + j =>
                    pipe[i] = packets[n][j]
          /\ n = done + 1 /\ j <= received => filled[j] = packets[n][j]

FramingTypeOK ==
    /\ TypeOK
    /\ moveSequence \in 0..MaxPackets /\ lastSequence \in 0..MaxPackets
    /\ shut \in BOOLEAN
    /\ toServer \in Seq(Nat) /\ toClient \in Seq(Nat)
    /\ movePacket \in [1..MoveSize -> Nat] /\ packet \in [1..StateSize -> Nat]
    /\ handedMoves \in Seq(Moves) /\ takenMoves \in Seq(Moves)
    /\ handedStates \in Seq(Snapshots) /\ takenStates \in Seq(Snapshots)

(* The moves are numbered through, so the server takes each of them. *)
MovesNumbered ==
    /\ Len(handedMoves) = moveSequence
    /\ \A n \in 1..Len(handedMoves) : handedMoves[n].sequence = n
    /\ lastSequence = Len(takenMoves)

(* What came out is what was handed over, as far as it came. *)
Prefix(taken, handed) ==
    Len(taken) <= Len(handed) /\ \A n \in 1..Len(taken) : taken[n] = handed[n]

(* How far the four loops have come. *)
ClientSending ==
    /\ main = "Send" => /\ handedMoves # <<>> /\ clientSent < MoveSize
                        /\ outgoing = MovePackets[Len(handedMoves)]
    /\ main = "Idle" /\ handedMoves # <<>> => clientSent = MoveSize
ServerReceiving ==
    /\ server = "Receive" => serverReceived < MoveSize
    /\ server = "Check" => serverReceived = MoveSize
    /\ server = "Reply" => serverReceived = 0
ServerSending ==
    /\ server = "Reply" => /\ handedStates # <<>> /\ serverSent < StateSize
                           /\ statePacket = StatePackets[Len(handedStates)]
    /\ server \in {"Receive", "Check"} /\ handedStates # <<>> =>
          serverSent = StateSize
ClientReceiving ==
    /\ receiver = "Receive" => clientReceived < StateSize
    /\ receiver = "Check" => clientReceived = StateSize

MovesCarried ==
    Carries(MovePackets, Len(handedMoves), MoveSize, MoveFields, toServer,
            Len(takenMoves), movePacket, serverReceived)
StatesCarried ==
    Carries(StatePackets, Len(handedStates), StateSize, StateFields, toClient,
            Len(takenStates), packet, clientReceived)

FramingInv ==
    /\ FramingTypeOK /\ NothingRejected /\ MovesNumbered
    /\ Prefix(takenMoves, handedMoves) /\ Prefix(takenStates, handedStates)
    /\ ClientSending /\ ServerReceiving /\ ServerSending /\ ClientReceiving
    /\ MovesCarried /\ StatesCarried

-----------------------------------------------------------------------------
(* The conversions *)

LEMMA WordBound == LargestWord \in Nat /\ LargestWord < 2147483648 /\ 1 <= LargestWord
BY SMT DEF LargestWord

(* A number of at most 31 bits is made of its four bytes. *)
LEMMA Bytes ==
    ASSUME NEW n \in Nat, n < 2147483648
    PROVE  /\ n % 256 < 256 /\ n % 256 \in Nat
           /\ (n \div 256) % 256 < 256 /\ (n \div 256) % 256 \in Nat
           /\ (n \div 65536) % 256 < 256 /\ (n \div 65536) % 256 \in Nat
           /\ n \div 16777216 < 256 /\ n \div 16777216 \in Nat
           /\ n = (n \div 16777216) * 16777216 + ((n \div 65536) % 256) * 65536
                   + ((n \div 256) % 256) * 256 + (n % 256)
BY SMTT(30)

(* Swapping the bytes twice gives the number back. *)
LEMMA Swap32Twice ==
    ASSUME NEW n \in 0..LargestWord
    PROVE  Swap32(n) \in Nat /\ Swap32(Swap32(n)) = n
<1> DEFINE a == n % 256
           b == (n \div 256) % 256
           c == (n \div 65536) % 256
           d == n \div 16777216
           m == a * 16777216 + b * 65536 + c * 256 + d
<1>1. /\ a \in Nat /\ b \in Nat /\ c \in Nat /\ d \in Nat
      /\ a < 256 /\ b < 256 /\ c < 256 /\ d < 256
      /\ n = d * 16777216 + c * 65536 + b * 256 + a
  <2>1. n \in Nat /\ n < 2147483648
    BY WordBound
  <2> QED BY <2>1, Bytes
<1>2. Swap32(n) = m
  BY DEF Swap32
<1> HIDE DEF a, b, c, d
<1>3. m \in Nat
  BY <1>1
<1>4. m % 256 = d
  BY <1>1
<1>5. (m \div 256) % 256 = c
  BY <1>1
<1>6. (m \div 65536) % 256 = b
  BY <1>1
<1>7. m \div 16777216 = a
  BY <1>1
<1> HIDE DEF m
<1>8. Swap32(m) = d * 16777216 + c * 65536 + b * 256 + a
  BY <1>4, <1>5, <1>6, <1>7 DEF Swap32
<1> QED BY <1>1, <1>2, <1>3, <1>8

LEMMA Swap16Twice ==
    ASSUME NEW n \in Nat, n < 65536
    PROVE  Swap16(n) \in Nat /\ Swap16(Swap16(n)) = n
<1> DEFINE a == n % 256
           b == n \div 256
           m == a * 256 + b
<1>1. a \in Nat /\ b \in Nat /\ a < 256 /\ b < 256 /\ n = b * 256 + a
  OBVIOUS
<1>2. Swap16(n) = m
  BY DEF Swap16
<1> HIDE DEF a, b
<1>3. m \in Nat /\ m % 256 = b /\ m \div 256 = a
  BY <1>1
<1> HIDE DEF m
<1>4. Swap16(m) = b * 256 + a
  BY <1>3 DEF Swap16
<1> QED BY <1>1, <1>2, <1>3, <1>4

(* What a packet is made of, and that its receiver understands it. *)
LEMMA PacketFacts ==
    /\ \A move \in Moves :
          /\ MakePlayerMovePacket(move) \in [1..MoveSize -> Nat]
          /\ Valid(MakePlayerMovePacket(move), PlayerMove)
          /\ DecodedMove(MakePlayerMovePacket(move)) = move
    /\ \A state \in Snapshots :
          /\ MakePlayerStatePacket(state) \in [1..StateSize -> Nat]
          /\ Valid(MakePlayerStatePacket(state), PlayerState)
          /\ DecodedState(MakePlayerStatePacket(state)) = state
<1> USE DEF MoveSize, StateSize, PlayerMove, PlayerState
<1>1. /\ Swap16(4) \in Nat /\ Swap16(5) \in Nat /\ Swap16(1) \in Nat
      /\ Swap16(2) \in Nat
      /\ Swap16(Swap16(4)) = 4 /\ Swap16(Swap16(5)) = 5
      /\ Swap16(Swap16(1)) = 1 /\ Swap16(Swap16(2)) = 2
  <2>1. \A n \in 1..5 : Swap16(n) \in Nat /\ Swap16(Swap16(n)) = n
    BY Swap16Twice
  <2> QED BY <2>1
<1>2. ASSUME NEW move \in Moves
      PROVE  /\ MakePlayerMovePacket(move) \in [1..MoveSize -> Nat]
             /\ Valid(MakePlayerMovePacket(move), PlayerMove)
             /\ DecodedMove(MakePlayerMovePacket(move)) = move
  <2>1. move = [sequence |-> move.sequence, position |-> move.position]
        /\ move.sequence \in 0..LargestWord /\ move.position \in 0..LargestWord
    <3>1. 1..MaxPackets \subseteq 0..LargestWord
      BY FramingAssumption, WordBound
    <3>2. move \in [sequence : 0..LargestWord, position : 0..LargestWord]
      BY <3>1, FramingAssumption DEF Moves
    <3> QED BY ONLY <3>2
  <2> DEFINE x == Swap32(move.sequence)
             y == Swap32(move.position)
  <2>2. x \in Nat /\ y \in Nat /\ Swap32(x) = move.sequence /\ Swap32(y) = move.position
    BY <2>1, Swap32Twice
  <2>3. MakePlayerMovePacket(move) = <<Swap16(4), Swap16(1), x, y>>
    BY DEF MakePlayerMovePacket
  <2> HIDE DEF x, y
  <2>4. MakePlayerMovePacket(move) \in [1..MoveSize -> Nat]
    BY <1>1, <2>2, <2>3
  <2>5. Valid(MakePlayerMovePacket(move), PlayerMove)
    BY <1>1, <2>3 DEF Valid
  <2>6. DecodedMove(MakePlayerMovePacket(move)) = move
    BY <2>1, <2>2, <2>3 DEF DecodedMove
  <2> QED BY <2>4, <2>5, <2>6
<1>3. ASSUME NEW state \in Snapshots
      PROVE  /\ MakePlayerStatePacket(state) \in [1..StateSize -> Nat]
             /\ Valid(MakePlayerStatePacket(state), PlayerState)
             /\ DecodedState(MakePlayerStatePacket(state)) = state
  <2>1. /\ state = [sequence |-> state.sequence, position |-> state.position,
                    accepted |-> state.accepted]
        /\ state.sequence \in 0..LargestWord /\ state.position \in 0..LargestWord
        /\ state.accepted \in BOOLEAN
    <3>1. 1..MaxPackets \subseteq 0..LargestWord
      BY FramingAssumption, WordBound
    <3>2. state \in [sequence : 0..LargestWord, position : 0..LargestWord,
                     accepted : BOOLEAN]
      BY <3>1, FramingAssumption DEF Snapshots
    <3> QED BY ONLY <3>2
  <2> DEFINE bit == IF state.accepted THEN 1 ELSE 0
             x == Swap32(state.sequence)
             y == Swap32(state.position)
             z == Swap32(bit)
  <2>2. bit \in 0..LargestWord /\ (bit # 0 <=> state.accepted)
    <3>1. LargestWord \in Nat /\ 0 <= LargestWord /\ 1 <= LargestWord
      BY DEF LargestWord
    <3> QED BY <2>1, <3>1
  <2>3. /\ x \in Nat /\ y \in Nat /\ z \in Nat
        /\ Swap32(x) = state.sequence /\ Swap32(y) = state.position
        /\ Swap32(z) = bit
    BY <2>1, <2>2, Swap32Twice
  <2>4. MakePlayerStatePacket(state) = <<Swap16(5), Swap16(2), x, y, z>>
    BY DEF MakePlayerStatePacket
  <2> HIDE DEF x, y, z, bit
  <2>5. MakePlayerStatePacket(state) \in [1..StateSize -> Nat]
    BY <1>1, <2>3, <2>4
  <2>6. Valid(MakePlayerStatePacket(state), PlayerState)
    BY <1>1, <2>4 DEF Valid
  <2>7. DecodedState(MakePlayerStatePacket(state)) = state
    <3>1. (Swap32(z) # 0) = state.accepted
      BY <2>1, <2>2, <2>3
    <3> QED BY <2>1, <2>3, <2>4, <3>1 DEF DecodedState
  <2> QED BY <2>5, <2>6, <2>7
<1> QED BY <1>2, <1>3

-----------------------------------------------------------------------------
(* One direction *)

Sizes == {MoveSize, StateSize}
Fields(size) == [1..size -> Nat]

(* A field has one place: no two packets share a field. *)
LEMMA OnePlace ==
    ASSUME NEW size \in Sizes, NEW m \in Int, NEW n \in Int,
           NEW j \in 1..size, NEW k \in 1..size
    PROVE  /\ size * m + j = size * n + k => m = n /\ j = k
           /\ size * m + j <= size * n => m < n
           /\ m < n => size * m + j <= size * n
<1>1. CASE size = 4
  BY <1>1
<1>2. CASE size = 5
  BY <1>2
<1> QED BY <1>1, <1>2 DEF Sizes, MoveSize, StateSize

(* The fields of a packet are a sequence of its size, and two packets with *)
(* the same fields are the same.                                           *)
LEMMA FieldsAreSeq ==
    ASSUME NEW size \in Nat, NEW bytes \in [1..size -> Nat]
    PROVE  bytes \in Seq(Nat) /\ Len(bytes) = size
<1>1. bytes \in Seq(Nat)
  BY SeqDef
<1> QED BY <1>1, LenProperties

LEMMA SameFields ==
    ASSUME NEW size \in Nat, NEW f \in [1..size -> Nat],
           NEW g \in [1..size -> Nat], \A j \in 1..size : f[j] = g[j]
    PROVE  f = g
OBVIOUS

(* A part of the packet being sent goes into the pipe behind what is       *)
(* there.                                                                  *)
Grown(pipe, bytes, sent, count, longer) ==
    /\ longer \in Seq(Nat) /\ Len(longer) = Len(pipe) + count
    /\ \A i \in 1..Len(pipe) : longer[i] = pipe[i]
    /\ \A k \in 1..count : longer[Len(pipe) + k] = bytes[sent + k]

LEMMA SendGrows ==
    ASSUME NEW size \in Sizes, NEW bytes \in Fields(size),
           NEW pipe \in Seq(Nat), NEW sent \in Nat, NEW count \in Nat,
           sent + count <= size,
           NEW longer, longer = pipe \o Part(bytes, sent, count)
    PROVE  Grown(pipe, bytes, sent, count, longer)
<1> DEFINE part == Part(bytes, sent, count)
<1>1. size \in Nat
  BY DEF Sizes, MoveSize, StateSize
<1>2. bytes \in Seq(Nat) /\ Len(bytes) = size
  BY <1>1, FieldsAreSeq DEF Fields
<1>3. /\ part \in Seq(Nat) /\ Len(part) = count
      /\ \A k \in 1..count : part[k] = bytes[sent + k]
  <2>1. \A i \in sent + 1 .. sent + count : bytes[i] \in Nat
    BY <1>1, <1>2
  <2>2. /\ part \in Seq(Nat)
        /\ Len(part) = IF sent + 1 <= sent + count THEN (sent + count) - (sent + 1) + 1
                                                   ELSE 0
        /\ \A k \in 1..((sent + count) - (sent + 1) + 1) : part[k] = bytes[sent + 1 + k - 1]
    BY <2>1, <1>2, SubSeqProperties DEF Part
  <2> HIDE DEF part
  <2> QED BY <2>2
<1> HIDE DEF part
<1>4. /\ longer \in Seq(Nat) /\ Len(longer) = Len(pipe) + count
      /\ \A i \in 1..Len(pipe) : longer[i] = pipe[i]
      /\ \A k \in 1..count : longer[Len(pipe) + k] = part[k]
  <2>1. pipe \in Seq(Nat) /\ Len(pipe) \in Nat
    BY LenProperties
  <2>2. /\ longer \in Seq(Nat) /\ Len(longer) = Len(pipe) + Len(part)
        /\ \A i \in 1..(Len(pipe) + Len(part)) :
              longer[i] = IF i <= Len(pipe) THEN pipe[i] ELSE part[i - Len(pipe)]
    <3>1. longer = pipe \o part
      BY DEF part
    <3> QED BY ONLY <1>3, <2>1, <3>1, ConcatProperties
  <2>3. ASSUME NEW k \in 1..count
        PROVE  longer[Len(pipe) + k] = part[k]
    <3>1. /\ Len(pipe) + k \in 1..(Len(pipe) + Len(part))
          /\ ~(Len(pipe) + k <= Len(pipe)) /\ Len(pipe) + k - Len(pipe) = k
      BY ONLY <1>3, <2>1, count \in Nat, k \in 1..count
    <3> QED BY ONLY <2>2, <3>1
  <2>4. ASSUME NEW i \in 1..Len(pipe)
        PROVE  longer[i] = pipe[i]
    <3>1. i \in 1..(Len(pipe) + Len(part)) /\ i <= Len(pipe)
      BY ONLY <1>3, <2>1, count \in Nat, i \in 1..Len(pipe)
    <3> QED BY ONLY <2>2, <3>1
  <2> QED BY <1>3, <2>2, <2>3, <2>4
<1> QED BY <1>3, <1>4 DEF Grown

LEMMA SendKeeps ==
    ASSUME NEW size \in Sizes, NEW number \in Nat \ {0}, NEW total \in Nat,
           NEW packets, NEW pipe \in Seq(Nat), NEW done \in Nat, NEW filled,
           NEW received \in Nat, NEW sent \in Nat, NEW count \in Nat,
           Carries(packets, number, size, total, pipe, done, filled, received),
           total = size * (number - 1) + sent, sent + count <= size,
           packets[number] \in Fields(size),
           NEW longer, longer = pipe \o Part(packets[number], sent, count)
    PROVE  Carries(packets, number, size, total + count, longer, done, filled,
                   received)
<1>1. size \in Nat
  BY DEF Sizes, MoveSize, StateSize
<1>4. /\ longer \in Seq(Nat) /\ Len(longer) = Len(pipe) + count
      /\ \A i \in 1..Len(pipe) : longer[i] = pipe[i]
      /\ \A k \in 1..count : longer[Len(pipe) + k] = packets[number][sent + k]
  <2>1. Grown(pipe, packets[number], sent, count, longer)
    BY SendGrows, Zenon
  <2> QED BY <2>1 DEF Grown
<1>5. Len(pipe) \in Nat /\ total = size * done + received + Len(pipe)
  BY DEF Carries
<1>6. ASSUME NEW n \in 1..number, NEW j \in 1..size, NEW i \in 1..Len(longer),
             size * done + received + i = size * (n - 1) + j
      PROVE  longer[i] = packets[n][j]
  <2>1. CASE i \in 1..Len(pipe)
    BY <1>4, <1>6, <2>1 DEF Carries
  <2>2. CASE i \notin 1..Len(pipe)
    <3>1. PICK k \in 1..count : i = Len(pipe) + k
      <4>1. i \in 1..(Len(pipe) + count) /\ Len(pipe) \in Nat
        BY <1>4, <1>5
      <4>2. i - Len(pipe) \in 1..count /\ i = Len(pipe) + (i - Len(pipe))
        BY ONLY <4>1, <2>2, count \in Nat
      <4> QED BY <4>2
    <3>2. size * (number - 1) + (sent + k) = size * (n - 1) + j
      <4>1. size * done + received + i = total + k
        <5>1. size * done \in Int
          BY <1>1
        <5> QED BY ONLY <5>1, <1>5, <3>1, received \in Nat
      <4>2. size * (number - 1) \in Int
        BY <1>1
      <4> QED BY ONLY <4>1, <4>2, <1>6, total = size * (number - 1) + sent,
                      sent \in Nat, k \in 1..count, count \in Nat
    <3>3. sent + k \in 1..size
      BY <1>1
    <3>4. number - 1 \in Int /\ n - 1 \in Int
      OBVIOUS
    <3>5. number - 1 = n - 1 /\ sent + k = j
      BY <3>2, <3>3, <3>4, OnePlace
    <3>6. n = number
      BY <3>5
    <3> QED BY <1>4, <3>1, <3>5, <3>6
  <2> QED BY <2>1, <2>2
<1>7. total + count = size * done + received + Len(longer)
  <2>1. size * done \in Int
    BY <1>1
  <2> QED BY ONLY <2>1, <1>4, <1>5, received \in Nat, count \in Nat
<1>8. Carries(packets, number, size, total + count, longer, done, filled, received)
  <2>1. \A n \in 1..number, j \in 1..size : n = done + 1 /\ j <= received =>
           filled[j] = packets[n][j]
    BY DEF Carries
  <2> QED BY <1>6, <1>7, <2>1 DEF Carries
<1> QED BY <1>8

(* A part of the pipe goes behind what has been received of the packet.    *)
Delivered(packets, number, size, total, rest, done, fuller, received, left) ==
    /\ rest \in Seq(Nat) /\ Len(rest) = left /\ fuller \in Fields(size)
    /\ Carries(packets, number, size, total, rest, done, fuller, received)

LEMMA ReceiveKeeps ==
    ASSUME NEW size \in Sizes, NEW number \in Nat, NEW total \in Nat,
           NEW packets, NEW pipe \in Seq(Nat), NEW done \in Nat,
           NEW filled \in Fields(size),
           NEW received \in Nat, NEW count \in Nat,
           Carries(packets, number, size, total, pipe, done, filled, received),
           count <= Len(pipe), received + count <= size,
           NEW rest, rest = Rest(pipe, count),
           NEW fuller, fuller = Filled(filled, received, pipe, count)
    PROVE  Delivered(packets, number, size, total, rest, done, fuller,
                     received + count, Len(pipe) - count)
<1>1. size \in Nat /\ Len(pipe) \in Nat /\ size * done \in Int
  BY DEF Sizes, MoveSize, StateSize
<1>2. /\ rest \in Seq(Nat) /\ Len(rest) = Len(pipe) - count
      /\ \A i \in 1..Len(rest) : rest[i] = pipe[count + i]
  <2>1. \A i \in count + 1 .. Len(pipe) : pipe[i] \in Nat
    BY <1>1
  <2>2. count + 1 \in Int /\ Len(pipe) \in Int
    BY <1>1
  <2>3. /\ rest \in Seq(Nat)
        /\ Len(rest) = IF count + 1 <= Len(pipe) THEN Len(pipe) - (count + 1) + 1 ELSE 0
        /\ \A i \in 1..(Len(pipe) - (count + 1) + 1) : rest[i] = pipe[count + 1 + i - 1]
    BY <2>1, <2>2, SubSeqProperties DEF Rest
  <2>4. Len(rest) = Len(pipe) - count
    BY <1>1, <2>3
  <2>5. ASSUME NEW i \in 1..Len(rest)
        PROVE  rest[i] = pipe[count + i]
    <3>1. i \in 1..(Len(pipe) - (count + 1) + 1) /\ count + 1 + i - 1 = count + i
      BY <1>1, <2>4
    <3> QED BY <2>3, <3>1
  <2> QED BY <2>3, <2>4, <2>5
<1>3. /\ fuller \in [1..size -> Nat]
      /\ \A j \in 1..size : fuller[j] = IF j \in received + 1 .. received + count
                                        THEN pipe[j - received] ELSE filled[j]
  <2>1. \A j \in 1..size : j \in received + 1 .. received + count =>
           j - received \in 1..Len(pipe)
    BY <1>1
  <2>2. DOMAIN filled = 1..size /\ \A j \in 1..size : filled[j] \in Nat
    BY DEF Fields
  <2> QED BY <1>1, <2>1, <2>2 DEF Filled
<1>4. total = size * done + (received + count) + Len(rest)
  BY <1>1, <1>2 DEF Carries
<1>5. ASSUME NEW n \in 1..number, NEW j \in 1..size
      PROVE  /\ \A i \in 1..Len(rest) :
                   size * done + (received + count) + i = size * (n - 1) + j =>
                       rest[i] = packets[n][j]
             /\ n = done + 1 /\ j <= received + count => fuller[j] = packets[n][j]
  <2>1. /\ \A i \in 1..Len(pipe) :
              size * done + received + i = size * (n - 1) + j => pipe[i] = packets[n][j]
        /\ n = done + 1 /\ j <= received => filled[j] = packets[n][j]
    BY DEF Carries
  <2>2. ASSUME NEW i \in 1..Len(rest),
               size * done + (received + count) + i = size * (n - 1) + j
        PROVE  rest[i] = packets[n][j]
    <3>1. count + i \in 1..Len(pipe)
      BY <1>1, <1>2
    <3>2. size * done + received + (count + i) = size * (n - 1) + j
      BY <1>1, <1>2, <2>2
    <3> QED BY <1>2, <2>1, <3>1, <3>2
  <2>3. ASSUME n = done + 1, j <= received + count
        PROVE  fuller[j] = packets[n][j]
    <3>1. CASE j <= received
      <4>1. j \notin received + 1 .. received + count
        BY <1>1, <3>1
      <4> QED BY <1>3, <2>1, <2>3, <3>1, <4>1
    <3>2. CASE ~(j <= received)
      <4>1. j \in received + 1 .. received + count /\ j - received \in 1..Len(pipe)
        BY <1>1, <2>3, <3>2
      <4>2. size * done + received + (j - received) = size * (n - 1) + j
        BY <1>1, <2>3
      <4> QED BY <1>3, <2>1, <4>1, <4>2
    <3> QED BY <3>1, <3>2
  <2> QED BY <2>2, <2>3
<1>6. Carries(packets, number, size, total, rest, done, fuller, received + count)
  BY <1>4, <1>5 DEF Carries
<1> QED BY <1>2, <1>3, <1>6 DEF Delivered, Fields

AllFields(packets, number, size) ==
    \A n \in 1..number : packets[n] \in Fields(size)

Taken(packets, number, size, total, pipe, done, filled, empty) ==
    /\ done + 1 \in 1..number
    /\ filled = packets[done + 1]
    /\ Carries(packets, number, size, total, pipe, done + 1, empty, 0)

(* A packet received whole is the next one handed over, and reception of   *)
(* the one after it begins.                                                *)
LEMMA TakeKeeps ==
    ASSUME NEW size \in Sizes, NEW number \in Nat, NEW total \in Nat,
           NEW packets, NEW pipe \in Seq(Nat), NEW done \in Nat,
           NEW filled \in Fields(size), NEW empty,
           Carries(packets, number, size, total, pipe, done, filled, size),
           total <= size * number, AllFields(packets, number, size)
    PROVE  Taken(packets, number, size, total, pipe, done, filled, empty)
<1>1. size \in Nat \ {0} /\ Len(pipe) \in Nat /\ size * done \in Int
  BY DEF Sizes, MoveSize, StateSize
<1>2. total = size * done + size + Len(pipe)
  BY DEF Carries
<1>3. size * done + size <= size * number
  <2> DEFINE before == size * done
             whole == size * number
  <2>1. before \in Int /\ whole \in Int
    BY <1>1
  <2>2. total = before + size + Len(pipe) /\ total <= whole
    BY <1>2
  <2> HIDE DEF before, whole
  <2>3. before + size <= whole
    BY <1>1, <2>1, <2>2
  <2> QED BY <2>3 DEF before, whole
<1>4. done < number
  <2>1. size \in 1..size
    BY <1>1
  <2> QED BY <1>3, <2>1, OnePlace
<1>5. done + 1 \in 1..number
  BY <1>4
<1>6. filled = packets[done + 1]
  <2>1. \A j \in 1..size : filled[j] = packets[done + 1][j]
    BY <1>1, <1>5 DEF Carries
  <2>2. packets[done + 1] \in [1..size -> Nat] /\ filled \in [1..size -> Nat]
    BY <1>5 DEF AllFields, Fields
  <2> QED BY <1>1, <2>1, <2>2, SameFields
<1>7. size * (done + 1) = size * done + size
  BY <1>1
<1>8. Carries(packets, number, size, total, pipe, done + 1, empty, 0)
  <2>1. total = size * (done + 1) + 0 + Len(pipe)
    BY <1>1, <1>2, <1>7
  <2>2. ASSUME NEW n \in 1..number, NEW j \in 1..size, NEW i \in 1..Len(pipe),
               size * (done + 1) + 0 + i = size * (n - 1) + j
        PROVE  pipe[i] = packets[n][j]
    <3>1. size * done + size + i = size * (n - 1) + j
      BY <1>1, <1>7, <2>2
    <3> QED BY <3>1 DEF Carries
  <2>3. \A j \in 1..size : ~(j <= 0)
    BY <1>1
  <2> QED BY <2>1, <2>2, <2>3 DEF Carries
<1> QED BY <1>5, <1>6, <1>8 DEF Taken

(* Another packet is handed over when the one before it has been sent.     *)
LEMMA HandKeeps ==
    ASSUME NEW size \in Sizes, NEW number \in Nat, NEW total \in Nat,
           NEW packets, NEW more, NEW pipe \in Seq(Nat), NEW done \in Nat,
           NEW filled, NEW received \in Nat,
           Carries(packets, number, size, total, pipe, done, filled, received),
           total = size * number,
           \A n \in 1..number : more[n] = packets[n]
    PROVE  Carries(more, number + 1, size, total, pipe, done, filled, received)
<1>1. size \in Nat \ {0} /\ Len(pipe) \in Nat /\ size * done \in Int
      /\ size * number \in Int
  BY DEF Sizes, MoveSize, StateSize
<1>2. total = size * done + received + Len(pipe)
  BY DEF Carries
<1>3. ASSUME NEW n \in 1..number + 1, NEW j \in 1..size, NEW i \in 1..Len(pipe),
             size * done + received + i = size * (n - 1) + j
      PROVE  pipe[i] = more[n][j]
  <2>1. size * (n - 1) + j <= size * number
    BY ONLY <1>1, <1>2, <1>3, received \in Nat, total = size * number
  <2>2. n - 1 < number
    <3>1. n - 1 \in Int
      OBVIOUS
    <3> QED BY <2>1, <3>1, OnePlace
  <2>3. n \in 1..number
    BY <2>2
  <2> QED BY <1>3, <2>3 DEF Carries
<1>4. ASSUME NEW n \in 1..number + 1, NEW j \in 1..size, n = done + 1, j <= received
      PROVE  filled[j] = more[n][j]
  <2>1. size * done + j <= size * number
    BY ONLY <1>1, <1>2, <1>4, received \in Nat, j \in 1..size, total = size * number
  <2>2. done < number
    BY <2>1, OnePlace
  <2>3. n \in 1..number
    BY <1>4, <2>2
  <2> QED BY <1>4, <2>3 DEF Carries
<1> QED BY <1>2, <1>3, <1>4 DEF Carries

-----------------------------------------------------------------------------
(* Both directions *)

(* What the packets handed over are, and how many of their fields have     *)
(* been sent.                                                              *)
LEMMA HandedFacts ==
    ASSUME FramingInv
    PROVE  /\ \A n \in 1..Len(handedMoves) :
                 /\ MovePackets[n] = MakePlayerMovePacket(handedMoves[n])
                 /\ MovePackets[n] \in [1..MoveSize -> Nat]
           /\ \A n \in 1..Len(handedStates) :
                 /\ StatePackets[n] = MakePlayerStatePacket(handedStates[n])
                 /\ StatePackets[n] \in [1..StateSize -> Nat]
           /\ MoveFields \in Nat /\ MoveFields <= MoveSize * Len(handedMoves)
           /\ StateFields \in Nat /\ StateFields <= StateSize * Len(handedStates)
<1>1. handedMoves \in Seq(Moves) /\ handedStates \in Seq(Snapshots)
  BY DEF FramingInv, FramingTypeOK
<1>2. ASSUME NEW n \in 1..Len(handedMoves)
      PROVE  /\ MovePackets[n] = MakePlayerMovePacket(handedMoves[n])
             /\ MovePackets[n] \in [1..MoveSize -> Nat]
  <2>1. handedMoves[n] \in Moves
    BY <1>1
  <2>2. MovePackets[n] = MakePlayerMovePacket(handedMoves[n])
    BY DEF MovePackets
  <2> QED BY <2>1, <2>2, PacketFacts
<1>3. ASSUME NEW n \in 1..Len(handedStates)
      PROVE  /\ StatePackets[n] = MakePlayerStatePacket(handedStates[n])
             /\ StatePackets[n] \in [1..StateSize -> Nat]
  <2>1. handedStates[n] \in Snapshots
    BY <1>1
  <2>2. StatePackets[n] = MakePlayerStatePacket(handedStates[n])
    BY DEF StatePackets
  <2> QED BY <2>1, <2>2, PacketFacts
<1>4. MoveFields \in Nat /\ MoveFields <= MoveSize * Len(handedMoves)
  <2>1. clientSent \in 0..4 /\ Len(handedMoves) \in Nat
        /\ (handedMoves # <<>> => Len(handedMoves) # 0)
    BY <1>1 DEF FramingInv, FramingTypeOK, TypeOK, MoveSize
  <2> QED BY <2>1 DEF MoveFields, MoveSize
<1>5. StateFields \in Nat /\ StateFields <= StateSize * Len(handedStates)
  <2>1. serverSent \in 0..5 /\ Len(handedStates) \in Nat
        /\ (handedStates # <<>> => Len(handedStates) # 0)
    BY <1>1 DEF FramingInv, FramingTypeOK, TypeOK, StateSize
  <2> QED BY <2>1 DEF StateFields, StateSize
<1> QED BY <1>2, <1>3, <1>4, <1>5

LEMMA NumberFacts ==
    ASSUME FramingInv
    PROVE  /\ MoveSize \in Sizes /\ StateSize \in Sizes
           /\ MoveSize \in Nat \ {0} /\ StateSize \in Nat \ {0}
           /\ clientSent \in Nat /\ serverSent \in Nat
           /\ serverReceived \in Nat /\ clientReceived \in Nat
           /\ toServer \in Seq(Nat) /\ toClient \in Seq(Nat)
           /\ Len(toServer) \in Nat /\ Len(toClient) \in Nat
           /\ Len(handedMoves) \in Nat /\ Len(takenMoves) \in Nat
           /\ Len(handedStates) \in Nat /\ Len(takenStates) \in Nat
           /\ handedMoves # <<>> => Len(handedMoves) \in Nat \ {0}
           /\ handedStates # <<>> => Len(handedStates) \in Nat \ {0}
<1>1. MoveSize \in Sizes /\ StateSize \in Sizes
      /\ MoveSize \in Nat \ {0} /\ StateSize \in Nat \ {0}
  BY DEF Sizes, MoveSize, StateSize
<1>2. /\ clientSent \in Nat /\ serverSent \in Nat
      /\ serverReceived \in Nat /\ clientReceived \in Nat
  <2>1. TypeOK
    BY DEF FramingInv, FramingTypeOK
  <2> QED BY ONLY <2>1 DEF TypeOK, MoveSize, StateSize
<1>3. /\ toServer \in Seq(Nat) /\ toClient \in Seq(Nat)
      /\ handedMoves \in Seq(Moves) /\ takenMoves \in Seq(Moves)
      /\ handedStates \in Seq(Snapshots) /\ takenStates \in Seq(Snapshots)
  BY DEF FramingInv, FramingTypeOK
<1>4. /\ Len(toServer) \in Nat /\ Len(toClient) \in Nat
      /\ Len(handedMoves) \in Nat /\ Len(takenMoves) \in Nat
      /\ Len(handedStates) \in Nat /\ Len(takenStates) \in Nat
  BY <1>3
<1>5. /\ handedMoves # <<>> => Len(handedMoves) \in Nat \ {0}
      /\ handedStates # <<>> => Len(handedStates) \in Nat \ {0}
  BY <1>3, EmptySeq
<1> QED BY <1>1, <1>2, <1>3, <1>4, <1>5

(* A step that touches neither end of a direction keeps what it carries.   *)
LEMMA MovesUntouched ==
    ASSUME MovesCarried,
           UNCHANGED <<clientSent, handedMoves, toServer, movePacket,
                       serverReceived, takenMoves>>
    PROVE  MovesCarried'
BY DEF MovesCarried, MovePackets, MoveFields, Carries

LEMMA StatesUntouched ==
    ASSUME StatesCarried,
           UNCHANGED <<serverSent, handedStates, toClient, packet,
                       clientReceived, takenStates>>
    PROVE  StatesCarried'
BY DEF StatesCarried, StatePackets, StateFields, Carries

(* Appending a packet keeps the ones before it, and what came out.         *)
LEMMA HandedGrows ==
    ASSUME NEW S, NEW handed \in Seq(S), NEW p \in S
    PROVE  LET more == Append(handed, p)
           IN  /\ more \in Seq(S) /\ Len(more) = Len(handed) + 1
               /\ more[Len(handed) + 1] = p /\ more # <<>>
               /\ \A n \in 1..Len(handed) : more[n] = handed[n]
               /\ \A n \in 1..Len(more) : n \in 1..Len(handed) \/ n = Len(handed) + 1
OBVIOUS

LEMMA PrefixHand ==
    ASSUME NEW S, NEW handed \in Seq(S), NEW p \in S, NEW taken \in Seq(S),
           Prefix(taken, handed)
    PROVE  Prefix(taken, Append(handed, p))
<1>1. \A n \in 1..Len(taken) : n \in 1..Len(handed)
  BY DEF Prefix
<1> QED BY <1>1, HandedGrows DEF Prefix

LEMMA PrefixTake ==
    ASSUME NEW S, NEW handed \in Seq(S), NEW taken \in Seq(S),
           Prefix(taken, handed), Len(taken) < Len(handed)
    PROVE  LET more == Append(taken, handed[Len(taken) + 1])
           IN  more \in Seq(S) /\ Len(more) = Len(taken) + 1 /\ Prefix(more, handed)
<1>1. handed[Len(taken) + 1] \in S
  OBVIOUS
<1> DEFINE more == Append(taken, handed[Len(taken) + 1])
<1>2. /\ more \in Seq(S) /\ Len(more) = Len(taken) + 1
      /\ more[Len(taken) + 1] = handed[Len(taken) + 1]
      /\ \A n \in 1..Len(taken) : more[n] = taken[n]
      /\ \A n \in 1..Len(more) : n \in 1..Len(taken) \/ n = Len(taken) + 1
  BY <1>1, HandedGrows
<1> HIDE DEF more
<1>3. Prefix(more, handed)
  BY <1>2 DEF Prefix
<1> QED BY <1>2, <1>3 DEF more

LEMMA FramingInitial == Init => FramingInv
<1> SUFFICES ASSUME Init PROVE FramingInv
  OBVIOUS
<1> USE DEF Init
<1>1. FramingTypeOK
  <2>1. /\ Zeros(MoveSize) \in [1..MoveSize -> Nat]
        /\ Zeros(StateSize) \in [1..StateSize -> Nat]
    BY DEF Zeros
  <2>2. 0 \in 0..MaxPackets
    BY FramingAssumption, WordBound
  <2>3. TypeOK
    BY FramingAssumption DEF TypeOK, MoveSize, StateSize
  <2>4. moveSequence \in 0..MaxPackets /\ lastSequence \in 0..MaxPackets
    BY <2>2
  <2>5. /\ toServer \in Seq(Nat) /\ toClient \in Seq(Nat) /\ shut \in BOOLEAN
        /\ handedMoves \in Seq(Moves) /\ takenMoves \in Seq(Moves)
        /\ handedStates \in Seq(Snapshots) /\ takenStates \in Seq(Snapshots)
    <3>1. /\ <<>> \in Seq(Nat) /\ <<>> \in Seq(Moves) /\ <<>> \in Seq(Snapshots)
      BY EmptySeq
    <3>2. shut \in BOOLEAN
      OBVIOUS
    <3> QED BY <3>1, <3>2
  <2>6. movePacket \in [1..MoveSize -> Nat] /\ packet \in [1..StateSize -> Nat]
    BY <2>1
  <2> QED BY ONLY <2>3, <2>4, <2>5, <2>6 DEF FramingTypeOK
<1>2. NothingRejected /\ MovesNumbered
  BY DEF NothingRejected, MovesNumbered
<1>3. Prefix(takenMoves, handedMoves) /\ Prefix(takenStates, handedStates)
  BY DEF Prefix
<1>4. ClientSending /\ ServerReceiving /\ ServerSending /\ ClientReceiving
  BY DEF ClientSending, ServerReceiving, ServerSending, ClientReceiving,
         MoveSize, StateSize
<1>5. MovesCarried /\ StatesCarried
  BY DEF MovesCarried, StatesCarried, MoveFields, StateFields, Carries,
         MoveSize, StateSize
<1> QED BY <1>1, <1>2, <1>3, <1>4, <1>5 DEF FramingInv

-----------------------------------------------------------------------------
(* The client's main thread *)

LEMMA StartSendKeeps ==
    ASSUME FramingInv, NEW position \in WorldPositions, StartSend(position)
    PROVE  FramingInv' /\ \E move \in Moves : MovesLine!Hand(move)
<1> DEFINE move == [sequence |-> moveSequence + 1, position |-> position]
<1>1. /\ main = "Idle" /\ moveSequence < MaxPackets
      /\ moveSequence' = moveSequence + 1
      /\ outgoing' = MakePlayerMovePacket(move)
      /\ handedMoves' = Append(handedMoves, move)
      /\ clientSent' = 0 /\ main' = "Send"
  BY DEF StartSend
<1>2. UNCHANGED <<toServer, toClient, shut, server, movePacket, serverReceived,
                  lastSequence, statePacket, serverSent, takenMoves,
                  handedStates, receiver, packet, clientReceived, takenStates>>
  BY DEF StartSend, wires, serverVars, receiverVars
<1>3. FramingTypeOK /\ MovesNumbered /\ MovesCarried
  BY DEF FramingInv
<1>4. move \in Moves
  <2>1. moveSequence \in 0..MaxPackets /\ MaxPackets \in Nat
    BY <1>3, FramingAssumption, WordBound DEF FramingTypeOK
  <2>2. moveSequence + 1 \in 1..MaxPackets
    BY <1>1, <2>1
  <2> QED BY <2>2 DEF Moves
<1>5. /\ handedMoves \in Seq(Moves) /\ handedMoves' \in Seq(Moves)
      /\ Len(handedMoves) \in Nat
      /\ Len(handedMoves') = Len(handedMoves) + 1
      /\ handedMoves'[Len(handedMoves) + 1] = move /\ handedMoves' # <<>>
      /\ \A n \in 1..Len(handedMoves) : handedMoves'[n] = handedMoves[n]
      /\ \A n \in 1..Len(handedMoves') :
            n \in 1..Len(handedMoves) \/ n = Len(handedMoves) + 1
  <2>1. handedMoves \in Seq(Moves)
    BY <1>3 DEF FramingTypeOK
  <2> HIDE DEF move
  <2> QED BY <1>1, <1>4, <2>1, HandedGrows
<1>6. move.sequence = moveSequence + 1
  OBVIOUS
<1> HIDE DEF move
<1>7. FramingTypeOK'
  <2>1. moveSequence' \in 0..MaxPackets
    <3>1. moveSequence \in Nat /\ MaxPackets \in Nat
      BY <1>3, FramingAssumption, WordBound DEF FramingTypeOK
    <3> QED BY <1>1, <3>1
  <2>2. TypeOK'
    BY <1>1, <1>2, <1>3 DEF FramingTypeOK, TypeOK, MoveSize
  <2> QED BY <1>2, <1>3, <1>5, <2>1, <2>2 DEF FramingTypeOK
<1>8. NothingRejected'
  BY <1>2 DEF FramingInv, NothingRejected
<1>9. MovesNumbered'
  <2>1. Len(handedMoves') = moveSequence'
    BY <1>1, <1>3, <1>5 DEF MovesNumbered
  <2>2. \A n \in 1..Len(handedMoves') : handedMoves'[n].sequence = n
    BY <1>3, <1>5, <1>6 DEF MovesNumbered
  <2> QED BY <1>2, <1>3, <2>1, <2>2 DEF MovesNumbered
<1>10. Prefix(takenMoves, handedMoves)' /\ Prefix(takenStates, handedStates)'
  <2>1. Prefix(takenMoves, handedMoves) /\ Prefix(takenStates, handedStates)
        /\ takenMoves \in Seq(Moves)
    BY DEF FramingInv, FramingTypeOK
  <2>2. Prefix(takenMoves, Append(handedMoves, move))
    BY <1>4, <1>5, <2>1, PrefixHand
  <2> QED BY <1>1, <1>2, <2>1, <2>2
<1>11. ClientSending'
  <2>1. MovePackets'[Len(handedMoves')] = MakePlayerMovePacket(move)
    BY <1>5 DEF MovePackets
  <2> QED BY <1>1, <1>5, <2>1 DEF ClientSending, MoveSize
<1>12. ServerReceiving' /\ ServerSending' /\ ClientReceiving'
  BY <1>2 DEF FramingInv, ServerReceiving, ServerSending, ClientReceiving, StatePackets
<1>13. MovesCarried'
  <2>1. MoveFields = MoveSize * Len(handedMoves)
    <3>1. CASE handedMoves = <<>>
      BY <3>1 DEF MoveFields, MoveSize
    <3>2. CASE handedMoves # <<>>
      <4>1. clientSent = MoveSize
        BY <1>1, <3>2 DEF FramingInv, ClientSending
      <4> QED BY <1>5, <3>2, <4>1 DEF MoveFields, MoveSize
    <3> QED BY <3>1, <3>2
  <2>2. MoveFields' = MoveFields
    <3>1. MoveFields' = MoveSize * (Len(handedMoves) + 1 - 1) + 0
      BY <1>1, <1>5 DEF MoveFields
    <3> QED BY <1>5, <2>1, <3>1 DEF MoveSize
  <2>3. \A n \in 1..Len(handedMoves) : MovePackets'[n] = MovePackets[n]
    BY <1>5 DEF MovePackets
  <2>4. /\ toServer \in Seq(Nat) /\ serverReceived \in Nat /\ MoveFields \in Nat
        /\ Len(takenMoves) \in Nat /\ MoveSize \in Sizes
    BY HandedFacts, NumberFacts
  <2>5. Carries(MovePackets, Len(handedMoves), MoveSize, MoveFields, toServer,
                Len(takenMoves), movePacket, serverReceived)
    BY <1>3 DEF MovesCarried
  <2>6. Carries(MovePackets', Len(handedMoves) + 1, MoveSize, MoveFields, toServer,
                Len(takenMoves), movePacket, serverReceived)
    BY <1>5, <2>1, <2>3, <2>4, <2>5, HandKeeps
  <2> QED BY <1>2, <1>5, <2>2, <2>6 DEF MovesCarried
<1>14. StatesCarried'
  BY <1>2, StatesUntouched DEF FramingInv
<1>15. MovesLine!Hand(move)
  BY <1>1, <1>2 DEF MovesLine!Hand
<1> QED BY <1>4, <1>7, <1>8, <1>9, <1>10, <1>11, <1>12, <1>13, <1>14, <1>15
        DEF FramingInv

LEMMA ClientSendsKeeps ==
    ASSUME FramingInv, ClientSends
    PROVE  FramingInv'
<1>1. main = "Send"
  BY DEF ClientSends
<1>2. PICK count \in Sendable(outgoing, clientSent, toServer) :
          /\ toServer' = toServer \o Part(outgoing, clientSent, count)
          /\ clientSent' = clientSent + count
  BY DEF ClientSends
<1>3. main' = IF clientSent' < Len(outgoing) THEN "Send" ELSE "Idle"
  BY DEF ClientSends
<1>4. UNCHANGED <<outgoing, moveSequence, handedMoves, toClient, shut, server,
                  movePacket, serverReceived, lastSequence, statePacket,
                  serverSent, takenMoves, handedStates, receiver, packet,
                  clientReceived, takenStates>>
  BY DEF ClientSends, serverVars, receiverVars
<1>5. FramingTypeOK /\ MovesNumbered /\ MovesCarried /\ ClientSending
  BY DEF FramingInv
<1>6. /\ handedMoves # <<>> /\ clientSent < MoveSize
      /\ outgoing = MovePackets[Len(handedMoves)]
  BY <1>1, <1>5 DEF ClientSending
<1>7. /\ handedMoves \in Seq(Moves) /\ Len(handedMoves) \in Nat \ {0}
      /\ Len(handedMoves) \in 1..Len(handedMoves)
      /\ clientSent \in Nat /\ toServer \in Seq(Nat) /\ Len(toServer) \in Nat
      /\ serverReceived \in Nat /\ Len(takenMoves) \in Nat
      /\ MoveSize \in Sizes /\ MoveFields \in Nat
  <2>1. handedMoves \in Seq(Moves)
    BY <1>5 DEF FramingTypeOK
  <2>2. Len(handedMoves) \in Nat \ {0}
    BY <1>6, NumberFacts
  <2>3. Len(handedMoves) \in 1..Len(handedMoves)
    BY <2>2
  <2> QED BY <2>1, <2>2, <2>3, HandedFacts, NumberFacts
<1>8. outgoing \in [1..MoveSize -> Nat] /\ Len(outgoing) = MoveSize
  <2>1. outgoing \in [1..MoveSize -> Nat]
    BY <1>6, <1>7, HandedFacts
  <2>2. MoveSize \in Nat
    BY DEF MoveSize
  <2> QED BY <2>1, <2>2, FieldsAreSeq
<1>9. /\ count \in Nat \ {0} /\ clientSent + count <= MoveSize
      /\ Len(toServer) + count <= PipeSize
  BY <1>2, <1>7, <1>8, FramingAssumption DEF Sendable, Smaller, MoveSize
<1>10. MoveFields = MoveSize * (Len(handedMoves) - 1) + clientSent
  BY <1>6 DEF MoveFields
<1>11. /\ toServer' \in Seq(Nat) /\ Len(toServer') = Len(toServer) + count
       /\ Carries(MovePackets, Len(handedMoves), MoveSize, MoveFields + count,
                  toServer', Len(takenMoves), movePacket, serverReceived)
  <2>1. Carries(MovePackets, Len(handedMoves), MoveSize, MoveFields, toServer,
                Len(takenMoves), movePacket, serverReceived)
    BY <1>5 DEF MovesCarried
  <2>2. MovePackets[Len(handedMoves)] \in Fields(MoveSize)
    BY <1>6, <1>8 DEF Fields
  <2>3. toServer' = toServer \o Part(MovePackets[Len(handedMoves)], clientSent, count)
    BY <1>2, <1>6
  <2>4. count \in Nat /\ MoveSize \in Nat
    BY <1>9, NumberFacts
  <2>5. /\ Len(handedMoves) \in Nat \ {0} /\ MoveSize \in Sizes /\ MoveFields \in Nat
        /\ toServer \in Seq(Nat) /\ Len(takenMoves) \in Nat /\ serverReceived \in Nat
        /\ clientSent \in Nat /\ clientSent + count <= MoveSize
    BY <1>7, <1>9
  <2>6. toServer' \in Seq(Nat) /\ Len(toServer') = Len(toServer) + count
    <3>1. Grown(toServer, MovePackets[Len(handedMoves)], clientSent, count, toServer')
      BY ONLY <2>2, <2>3, <2>4, <2>5, SendGrows, Zenon
    <3> QED BY <3>1 DEF Grown
  <2>7. Carries(MovePackets, Len(handedMoves), MoveSize, MoveFields + count,
                toServer', Len(takenMoves), movePacket, serverReceived)
    BY ONLY <1>10, <2>1, <2>2, <2>3, <2>4, <2>5, SendKeeps, Zenon
  <2> QED BY <2>6, <2>7
<1>12. MovesCarried'
  <2>1. MoveFields' = MoveFields + count
    <3>1. MoveFields' = MoveSize * (Len(handedMoves) - 1) + (clientSent + count)
      BY <1>2, <1>4, <1>6 DEF MoveFields
    <3> QED BY <1>7, <1>9, <1>10, <3>1 DEF MoveSize
  <2>2. MovePackets' = MovePackets
    BY <1>4 DEF MovePackets
  <2> QED BY <1>4, <1>11, <2>1, <2>2 DEF MovesCarried
<1>13. FramingTypeOK'
  <2>1. TypeOK'
    <3>1. clientSent' \in 0..MoveSize
      BY <1>2, <1>7, <1>9 DEF MoveSize
    <3>2. Len(toServer') <= PipeSize /\ main' \in {"Send", "Idle"}
      BY <1>3, <1>9, <1>11
    <3> QED BY <1>4, <1>5, <3>1, <3>2 DEF FramingTypeOK, TypeOK
  <2> QED BY <1>4, <1>5, <1>11, <2>1 DEF FramingTypeOK
<1>14. ClientSending'
  <2>1. MovePackets' = MovePackets
    BY <1>4 DEF MovePackets
  <2>2. clientSent' <= MoveSize /\ clientSent' \in Nat
    BY <1>2, <1>7, <1>9
  <2>3. CASE clientSent' < MoveSize
    BY <1>3, <1>4, <1>6, <1>8, <2>1, <2>3 DEF ClientSending
  <2>4. CASE ~(clientSent' < MoveSize)
    <3>1. clientSent' = MoveSize /\ main' = "Idle"
      BY <1>3, <1>8, <2>2, <2>4 DEF MoveSize
    <3> QED BY <3>1 DEF ClientSending
  <2> QED BY <2>3, <2>4
<1>15. /\ NothingRejected' /\ MovesNumbered'
       /\ Prefix(takenMoves, handedMoves)' /\ Prefix(takenStates, handedStates)'
  BY <1>4 DEF FramingInv, NothingRejected, MovesNumbered
<1>16. ServerReceiving' /\ ServerSending' /\ ClientReceiving'
  BY <1>4 DEF FramingInv, ServerReceiving, ServerSending, ClientReceiving, StatePackets
<1>17. StatesCarried'
  BY <1>4, StatesUntouched DEF FramingInv
<1> QED BY <1>12, <1>13, <1>14, <1>15, <1>16, <1>17 DEF FramingInv

(* The steps with which the main thread ends, with which the server or the *)
(* receive thread goes, and those that change nothing, move no field.      *)
LEMMA QuietStepsKeep ==
    ASSUME FramingInv,
           UNCHANGED <<outgoing, clientSent, moveSequence, handedMoves, toServer,
                       toClient, movePacket, serverReceived, lastSequence,
                       statePacket, serverSent, takenMoves, handedStates, packet,
                       clientReceived, takenStates>>,
           shut' \in BOOLEAN,
           main' = main \/ main' \in {"Close", "Ended"},
           server' = server \/ server' = "Gone",
           receiver' = receiver \/ receiver' = "Exited"
    PROVE  FramingInv'
<1>1. FramingTypeOK
  BY DEF FramingInv
<1>2. TypeOK'
  BY <1>1 DEF FramingTypeOK, TypeOK
<1>3. FramingTypeOK'
  BY <1>1, <1>2 DEF FramingTypeOK
<1>4. /\ NothingRejected' /\ MovesNumbered'
      /\ Prefix(takenMoves, handedMoves)' /\ Prefix(takenStates, handedStates)'
  BY DEF FramingInv, NothingRejected, MovesNumbered
<1>5. ClientSending'
  BY DEF FramingInv, ClientSending, MovePackets
<1>6. ServerReceiving' /\ ClientReceiving'
  BY DEF FramingInv, ServerReceiving, ClientReceiving
<1>7. ServerSending'
  BY DEF FramingInv, ServerSending, StatePackets
<1>8. MovesCarried' /\ StatesCarried'
  BY MovesUntouched, StatesUntouched DEF FramingInv
<1> QED BY <1>3, <1>4, <1>5, <1>6, <1>7, <1>8 DEF FramingInv

-----------------------------------------------------------------------------
(* The server *)

LEMMA ServerReceivesKeeps ==
    ASSUME FramingInv, ServerReceives
    PROVE  FramingInv'
<1>1. server = "Receive"
  BY DEF ServerReceives
<1>2. PICK count \in Receivable(movePacket, serverReceived, toServer) :
          /\ movePacket' = Filled(movePacket, serverReceived, toServer, count)
          /\ serverReceived' = serverReceived + count
          /\ toServer' = Rest(toServer, count)
  BY DEF ServerReceives
<1>3. server' = IF serverReceived' < MoveSize THEN "Receive" ELSE "Check"
  BY DEF ServerReceives
<1>4. UNCHANGED <<main, outgoing, clientSent, moveSequence, handedMoves, toClient,
                  shut, lastSequence, statePacket, serverSent, takenMoves,
                  handedStates, receiver, packet, clientReceived, takenStates>>
  BY DEF ServerReceives, clientVars, receiverVars
<1>5. FramingTypeOK /\ MovesCarried
  BY DEF FramingInv
<1>6. movePacket \in [1..MoveSize -> Nat] /\ Len(movePacket) = MoveSize
      /\ movePacket \in Fields(MoveSize)
  <2>1. movePacket \in [1..MoveSize -> Nat]
    BY <1>5 DEF FramingTypeOK
  <2> QED BY <2>1, NumberFacts, FieldsAreSeq DEF Fields
<1>7. /\ count \in Nat \ {0} /\ serverReceived + count <= MoveSize
      /\ count <= Len(toServer)
  <2>1. serverReceived < MoveSize
    BY <1>1 DEF FramingInv, ServerReceiving
  <2>2. serverReceived \in Nat /\ Len(toServer) \in Nat /\ MoveSize \in Nat
    BY NumberFacts
  <2>3. count \in 1..Smaller(MoveSize - serverReceived, Len(toServer))
    BY <1>6 DEF Receivable
  <2> QED BY ONLY <2>1, <2>2, <2>3 DEF Smaller
<1>8. Delivered(MovePackets, Len(handedMoves), MoveSize, MoveFields, toServer',
                Len(takenMoves), movePacket', serverReceived + count,
                Len(toServer) - count)
  <2>1. Carries(MovePackets, Len(handedMoves), MoveSize, MoveFields, toServer,
                Len(takenMoves), movePacket, serverReceived)
    BY <1>5 DEF MovesCarried
  <2>2. count \in Nat /\ count <= Len(toServer) /\ serverReceived + count <= MoveSize
    BY <1>7
  <2>3. /\ MoveSize \in Sizes /\ Len(handedMoves) \in Nat /\ MoveFields \in Nat
        /\ toServer \in Seq(Nat) /\ Len(takenMoves) \in Nat /\ serverReceived \in Nat
        /\ movePacket \in Fields(MoveSize)
    BY <1>6, HandedFacts, NumberFacts
  <2>4. /\ toServer' = Rest(toServer, count)
        /\ movePacket' = Filled(movePacket, serverReceived, toServer, count)
    BY <1>2
  <2> QED BY ONLY <2>1, <2>2, <2>3, <2>4, ReceiveKeeps, Zenon
<1>9. MovesCarried'
  <2>1. MoveFields' = MoveFields /\ MovePackets' = MovePackets
    BY <1>4 DEF MoveFields, MovePackets
  <2> QED BY <1>2, <1>4, <1>8, <2>1 DEF MovesCarried, Delivered
<1>10. /\ serverReceived' \in 0..MoveSize /\ server' \in {"Receive", "Check"}
       /\ server' = "Receive" => serverReceived' < MoveSize
       /\ server' = "Check" => serverReceived' = MoveSize
  <2>1. serverReceived' \in 0..MoveSize
    BY <1>2, <1>7, NumberFacts
  <2> QED BY <1>3, <2>1, NumberFacts
<1>11. FramingTypeOK'
  <2>1. /\ toServer' \in Seq(Nat) /\ Len(toServer') = Len(toServer) - count
        /\ movePacket' \in [1..MoveSize -> Nat]
    BY <1>8 DEF Delivered, Fields
  <2>2. Len(toServer') <= PipeSize
    <3>1. Len(toServer) <= PipeSize /\ Len(toServer) \in Nat /\ PipeSize \in Nat
      BY <1>5, NumberFacts, FramingAssumption DEF FramingTypeOK, TypeOK
    <3> QED BY ONLY <3>1, <2>1, <1>7
  <2>3. TypeOK'
    BY <1>4, <1>5, <1>10, <2>2 DEF FramingTypeOK, TypeOK
  <2> QED BY <1>4, <1>5, <2>1, <2>3 DEF FramingTypeOK
<1>12. /\ NothingRejected' /\ MovesNumbered'
       /\ Prefix(takenMoves, handedMoves)' /\ Prefix(takenStates, handedStates)'
  BY <1>4, <1>10 DEF FramingInv, NothingRejected, MovesNumbered
<1>13. ClientSending' /\ ClientReceiving'
  BY <1>4 DEF FramingInv, ClientSending, ClientReceiving, MovePackets
<1>14. ServerReceiving' /\ ServerSending'
  <2>1. handedStates # <<>> => serverSent = StateSize
    BY <1>1 DEF FramingInv, ServerSending
  <2> QED BY <1>4, <1>10, <2>1 DEF ServerReceiving, ServerSending
<1>15. StatesCarried'
  BY <1>4, StatesUntouched DEF FramingInv
<1> QED BY <1>9, <1>11, <1>12, <1>13, <1>14, <1>15 DEF FramingInv

(* The packet the server has received whole is the next move handed over,  *)
(* and it answers it.                                                      *)
LEMMA NextMove ==
    ASSUME FramingInv, server = "Check"
    PROVE  /\ Len(takenMoves) + 1 \in 1..Len(handedMoves)
           /\ movePacket = MakePlayerMovePacket(handedMoves[Len(takenMoves) + 1])
           /\ Valid(movePacket, PlayerMove)
           /\ DecodedMove(movePacket) = handedMoves[Len(takenMoves) + 1]
           /\ handedMoves[Len(takenMoves) + 1] \in Moves
           /\ \A empty : Carries(MovePackets, Len(handedMoves), MoveSize, MoveFields,
                                 toServer, Len(takenMoves) + 1, empty, 0)
<1>1. Carries(MovePackets, Len(handedMoves), MoveSize, MoveFields, toServer,
              Len(takenMoves), movePacket, MoveSize)
  <2>1. serverReceived = MoveSize /\ MovesCarried
    BY DEF FramingInv, ServerReceiving
  <2> QED BY <2>1 DEF MovesCarried
<1>2. /\ MoveSize \in Sizes /\ Len(handedMoves) \in Nat /\ MoveFields \in Nat
      /\ toServer \in Seq(Nat) /\ Len(takenMoves) \in Nat
      /\ movePacket \in Fields(MoveSize)
      /\ MoveFields <= MoveSize * Len(handedMoves)
      /\ AllFields(MovePackets, Len(handedMoves), MoveSize)
  <2>1. movePacket \in Fields(MoveSize)
    BY DEF FramingInv, FramingTypeOK, Fields
  <2>2. AllFields(MovePackets, Len(handedMoves), MoveSize)
    BY HandedFacts DEF AllFields, Fields
  <2> QED BY <2>1, <2>2, HandedFacts, NumberFacts
<1>3. ASSUME NEW empty
      PROVE  Taken(MovePackets, Len(handedMoves), MoveSize, MoveFields, toServer,
                   Len(takenMoves), movePacket, empty)
  BY ONLY <1>1, <1>2, TakeKeeps, Zenon
<1>4. /\ Len(takenMoves) + 1 \in 1..Len(handedMoves)
      /\ movePacket = MovePackets[Len(takenMoves) + 1]
  BY <1>3 DEF Taken
<1>5. /\ movePacket = MakePlayerMovePacket(handedMoves[Len(takenMoves) + 1])
      /\ handedMoves[Len(takenMoves) + 1] \in Moves
  <2>1. handedMoves \in Seq(Moves)
    BY DEF FramingInv, FramingTypeOK
  <2> QED BY <1>4, <2>1, HandedFacts
<1>6. /\ Valid(movePacket, PlayerMove)
      /\ DecodedMove(movePacket) = handedMoves[Len(takenMoves) + 1]
  BY <1>5, PacketFacts
<1> QED BY <1>3, <1>4, <1>5, <1>6 DEF Taken

(* Every packet is answered: it is valid, and none has its number.         *)
LEMMA ServerAnswers ==
    ASSUME FramingInv, ServerChecks
    PROVE  /\ server' = "Reply" /\ serverSent' = 0
           /\ MovesLine!Take
           /\ lastSequence' = Len(takenMoves) + 1
           /\ lastSequence' \in 0..MaxPackets
           /\ \E state \in Snapshots :
                 /\ statePacket' = MakePlayerStatePacket(state)
                 /\ handedStates' = Append(handedStates, state)
<1> DEFINE move == handedMoves[Len(takenMoves) + 1]
<1>1. server = "Check"
  BY DEF ServerChecks
<1>2. /\ Valid(movePacket, PlayerMove) /\ DecodedMove(movePacket) = move
      /\ Len(takenMoves) + 1 \in 1..Len(handedMoves) /\ move \in Moves
  BY <1>1, NextMove
<1>3. move.sequence = Len(takenMoves) + 1 /\ ~(move.sequence <= lastSequence)
  <2>1. MovesNumbered
    BY DEF FramingInv
  <2>2. move.sequence = Len(takenMoves) + 1 /\ lastSequence = Len(takenMoves)
    BY <1>2, <2>1 DEF MovesNumbered
  <2>3. Len(takenMoves) \in Nat
    BY NumberFacts
  <2> QED BY ONLY <2>2, <2>3
<1>4. /\ takenMoves' = Append(takenMoves, move) /\ lastSequence' = move.sequence
      /\ StartReply(move.sequence) /\ server' = "Reply"
  <2> HIDE DEF move
  <2> QED BY <1>2, <1>3 DEF ServerChecks
<1>5. move.sequence \in 1..MaxPackets
  <2> HIDE DEF move
  <2> QED BY <1>2 DEF Moves
<1>6. \E state \in Snapshots :
         /\ statePacket' = MakePlayerStatePacket(state)
         /\ handedStates' = Append(handedStates, state)
  <2> HIDE DEF move
  <2>1. PICK position \in WorldPositions, accepted \in BOOLEAN :
           LET state == [sequence |-> move.sequence, position |-> position,
                         accepted |-> accepted]
           IN  /\ statePacket' = MakePlayerStatePacket(state)
               /\ handedStates' = Append(handedStates, state)
    BY <1>4 DEF StartReply
  <2>2. [sequence |-> move.sequence, position |-> position, accepted |-> accepted]
           \in Snapshots
    BY <1>5 DEF Snapshots
  <2> QED BY <2>1, <2>2
<1>7. MovesLine!Take
  <2>1. handedMoves' = handedMoves
    BY DEF ServerChecks, clientVars
  <2>2. Len(takenMoves) < Len(handedMoves)
    BY <1>2, NumberFacts
  <2> QED BY <1>4, <2>1, <2>2 DEF MovesLine!Take
<1>8. lastSequence' \in 0..MaxPackets
  <2> HIDE DEF move
  <2>1. MaxPackets \in Nat
    BY FramingAssumption, WordBound
  <2> QED BY <1>4, <1>5, <2>1
<1>9. serverSent' = 0
  BY <1>4 DEF StartReply
<1> QED BY <1>3, <1>4, <1>6, <1>7, <1>8, <1>9

LEMMA ServerChecksKeeps ==
    ASSUME FramingInv, ServerChecks
    PROVE  FramingInv' /\ MovesLine!Take /\ \E state \in Snapshots : StatesLine!Hand(state)
<1>1. PICK state \in Snapshots :
         /\ statePacket' = MakePlayerStatePacket(state)
         /\ handedStates' = Append(handedStates, state)
  BY ServerAnswers
<1>2. /\ server = "Check" /\ server' = "Reply" /\ serverSent' = 0
      /\ MovesLine!Take /\ lastSequence' = Len(takenMoves) + 1
      /\ lastSequence' \in 0..MaxPackets
      /\ movePacket' = Zeros(MoveSize) /\ serverReceived' = 0
  BY ServerAnswers DEF ServerChecks
<1>3. UNCHANGED <<main, outgoing, clientSent, moveSequence, handedMoves, toServer,
                  toClient, shut, receiver, packet, clientReceived, takenStates>>
  BY DEF ServerChecks, clientVars, wires, receiverVars
<1>4. FramingTypeOK /\ MovesNumbered /\ StatesCarried
  BY DEF FramingInv
<1>5. /\ takenMoves' \in Seq(Moves) /\ Len(takenMoves') = Len(takenMoves) + 1
      /\ Prefix(takenMoves, handedMoves)'
  <2>1. takenMoves' = Append(takenMoves, handedMoves[Len(takenMoves) + 1])
        /\ Len(takenMoves) < Len(handedMoves)
    BY <1>2 DEF MovesLine!Take
  <2>2. takenMoves \in Seq(Moves) /\ handedMoves \in Seq(Moves)
        /\ Prefix(takenMoves, handedMoves)
    BY <1>4 DEF FramingTypeOK, FramingInv
  <2>3. Prefix(Append(takenMoves, handedMoves[Len(takenMoves) + 1]), handedMoves)
        /\ Append(takenMoves, handedMoves[Len(takenMoves) + 1]) \in Seq(Moves)
        /\ Len(Append(takenMoves, handedMoves[Len(takenMoves) + 1])) = Len(takenMoves) + 1
    BY ONLY <2>1, <2>2, PrefixTake
  <2> QED BY <1>3, <2>1, <2>3
<1>6. /\ handedStates \in Seq(Snapshots) /\ handedStates' \in Seq(Snapshots)
      /\ Len(handedStates') = Len(handedStates) + 1
      /\ handedStates'[Len(handedStates) + 1] = state /\ handedStates' # <<>>
      /\ \A n \in 1..Len(handedStates) : handedStates'[n] = handedStates[n]
  <2>1. handedStates \in Seq(Snapshots)
    BY <1>4 DEF FramingTypeOK
  <2> QED BY <1>1, <2>1, HandedGrows
<1>7. Prefix(takenStates, handedStates)'
  <2>1. takenStates \in Seq(Snapshots) /\ Prefix(takenStates, handedStates)
    BY <1>4 DEF FramingTypeOK, FramingInv
  <2>2. Prefix(takenStates, Append(handedStates, state))
    BY <1>6, <2>1, PrefixHand
  <2> QED BY <1>1, <1>3, <2>2
<1>8. FramingTypeOK'
  <2>1. TypeOK'
    BY <1>2, <1>3, <1>4 DEF FramingTypeOK, TypeOK, MoveSize, StateSize
  <2>2. movePacket' \in [1..MoveSize -> Nat]
    BY <1>2 DEF Zeros
  <2> QED BY <1>2, <1>3, <1>4, <1>5, <1>6, <2>1, <2>2 DEF FramingTypeOK
<1>9. NothingRejected' /\ MovesNumbered'
  <2>1. NothingRejected'
    BY <1>2, <1>3 DEF FramingInv, NothingRejected
  <2> QED BY <1>2, <1>3, <1>4, <1>5, <2>1 DEF MovesNumbered
<1>10. ClientSending' /\ ClientReceiving'
  BY <1>3 DEF FramingInv, ClientSending, ClientReceiving, MovePackets
<1>11. ServerReceiving' /\ ServerSending'
  <2>1. StatePackets'[Len(handedStates')] = MakePlayerStatePacket(state)
    <3>1. Len(handedStates') \in 1..Len(handedStates')
      BY <1>6, NumberFacts
    <3> QED BY <1>6, <3>1 DEF StatePackets
  <2> QED BY <1>1, <1>2, <1>6, <2>1 DEF ServerReceiving, ServerSending, StateSize
<1>12. MovesCarried'
  <2>1. Carries(MovePackets, Len(handedMoves), MoveSize, MoveFields, toServer,
                Len(takenMoves) + 1, movePacket', 0)
    BY <1>2, NextMove
  <2>2. MoveFields' = MoveFields /\ MovePackets' = MovePackets
    BY <1>3 DEF MoveFields, MovePackets
  <2> QED BY <1>2, <1>3, <1>5, <2>1, <2>2 DEF MovesCarried
<1>13. StatesCarried'
  <2>1. StateFields = StateSize * Len(handedStates)
    <3>1. CASE handedStates = <<>>
      BY <3>1 DEF StateFields, StateSize
    <3>2. CASE handedStates # <<>>
      <4>1. serverSent = StateSize
        BY <1>2, <3>2 DEF FramingInv, ServerSending
      <4> QED BY <3>2, <4>1, NumberFacts DEF StateFields, StateSize
    <3> QED BY <3>1, <3>2
  <2>2. StateFields' = StateFields
    <3>1. StateFields' = StateSize * (Len(handedStates) + 1 - 1) + 0
      BY <1>2, <1>6 DEF StateFields
    <3> QED BY <2>1, <3>1, NumberFacts DEF StateSize
  <2>3. \A n \in 1..Len(handedStates) : StatePackets'[n] = StatePackets[n]
    <3>1. \A n \in 1..Len(handedStates) : n \in 1..Len(handedStates')
      BY <1>6, NumberFacts
    <3> QED BY <1>6, <3>1 DEF StatePackets
  <2>4. /\ toClient \in Seq(Nat) /\ clientReceived \in Nat /\ StateFields \in Nat
        /\ Len(takenStates) \in Nat /\ Len(handedStates) \in Nat /\ StateSize \in Sizes
    BY HandedFacts, NumberFacts
  <2>5. Carries(StatePackets, Len(handedStates), StateSize, StateFields, toClient,
                Len(takenStates), packet, clientReceived)
    BY <1>4 DEF StatesCarried
  <2>6. Carries(StatePackets', Len(handedStates) + 1, StateSize, StateFields, toClient,
                Len(takenStates), packet, clientReceived)
    BY ONLY <2>1, <2>3, <2>4, <2>5, HandKeeps
  <2> QED BY <1>3, <1>6, <2>2, <2>6 DEF StatesCarried
<1>14. StatesLine!Hand(state)
  BY <1>1, <1>3 DEF StatesLine!Hand
<1> QED BY <1>2, <1>5, <1>7, <1>8, <1>9, <1>10, <1>11, <1>12, <1>13, <1>14
        DEF FramingInv

LEMMA ServerSendsKeeps ==
    ASSUME FramingInv, ServerSends
    PROVE  FramingInv'
<1>1. server = "Reply"
  BY DEF ServerSends
<1>2. PICK count \in Sendable(statePacket, serverSent, toClient) :
          /\ toClient' = toClient \o Part(statePacket, serverSent, count)
          /\ serverSent' = serverSent + count
  BY DEF ServerSends
<1>3. server' = IF serverSent' < StateSize THEN "Reply" ELSE "Receive"
  BY DEF ServerSends
<1>4. UNCHANGED <<main, outgoing, clientSent, moveSequence, handedMoves, toServer,
                  shut, movePacket, serverReceived, lastSequence, statePacket,
                  takenMoves, handedStates, receiver, packet, clientReceived,
                  takenStates>>
  BY DEF ServerSends, clientVars, receiverVars
<1>5. FramingTypeOK /\ StatesCarried
  BY DEF FramingInv
<1>6. /\ handedStates # <<>> /\ serverSent < StateSize
      /\ statePacket = StatePackets[Len(handedStates)] /\ serverReceived = 0
  BY <1>1 DEF FramingInv, ServerSending, ServerReceiving
<1>7. /\ Len(handedStates) \in Nat \ {0} /\ Len(handedStates) \in 1..Len(handedStates)
      /\ StateSize \in Sizes /\ StateFields \in Nat /\ toClient \in Seq(Nat)
      /\ Len(takenStates) \in Nat /\ clientReceived \in Nat /\ serverSent \in Nat
  <2>1. Len(handedStates) \in Nat \ {0}
    BY <1>6, NumberFacts
  <2>2. Len(handedStates) \in 1..Len(handedStates)
    BY <2>1
  <2> QED BY <2>1, <2>2, HandedFacts, NumberFacts
<1>8. /\ statePacket \in [1..StateSize -> Nat] /\ Len(statePacket) = StateSize
      /\ statePacket \in Fields(StateSize)
  <2>1. statePacket \in [1..StateSize -> Nat]
    BY <1>6, <1>7, HandedFacts
  <2> QED BY <2>1, NumberFacts, FieldsAreSeq DEF Fields
<1>9. /\ count \in Nat \ {0} /\ serverSent + count <= StateSize
      /\ Len(toClient) + count <= PipeSize
  <2>1. count \in 1..Smaller(StateSize - serverSent, PipeSize - Len(toClient))
    BY <1>8 DEF Sendable
  <2>2. /\ serverSent \in Nat /\ StateSize \in Nat /\ Len(toClient) \in Nat
        /\ PipeSize \in Nat
    BY NumberFacts, FramingAssumption
  <2> QED BY ONLY <2>1, <2>2 DEF Smaller
<1>10. StateFields = StateSize * (Len(handedStates) - 1) + serverSent
  BY <1>6 DEF StateFields
<1>11. /\ toClient' \in Seq(Nat) /\ Len(toClient') = Len(toClient) + count
       /\ Carries(StatePackets, Len(handedStates), StateSize, StateFields + count,
                  toClient', Len(takenStates), packet, clientReceived)
  <2>1. Carries(StatePackets, Len(handedStates), StateSize, StateFields, toClient,
                Len(takenStates), packet, clientReceived)
    BY <1>5 DEF StatesCarried
  <2>2. StatePackets[Len(handedStates)] \in Fields(StateSize)
    BY <1>6, <1>8
  <2>3. toClient' = toClient \o Part(StatePackets[Len(handedStates)], serverSent, count)
    BY <1>2, <1>6
  <2>4. count \in Nat /\ serverSent + count <= StateSize
    BY <1>9
  <2>5. /\ Len(handedStates) \in Nat \ {0} /\ StateSize \in Sizes
        /\ StateFields \in Nat /\ toClient \in Seq(Nat)
        /\ Len(takenStates) \in Nat /\ clientReceived \in Nat /\ serverSent \in Nat
    BY <1>7
  <2>6. toClient' \in Seq(Nat) /\ Len(toClient') = Len(toClient) + count
    <3>1. Grown(toClient, StatePackets[Len(handedStates)], serverSent, count, toClient')
      BY ONLY <2>2, <2>3, <2>4, <2>5, SendGrows, Zenon
    <3> QED BY <3>1 DEF Grown
  <2>7. Carries(StatePackets, Len(handedStates), StateSize, StateFields + count,
                toClient', Len(takenStates), packet, clientReceived)
    BY ONLY <1>10, <2>1, <2>2, <2>3, <2>4, <2>5, SendKeeps, Zenon
  <2> QED BY <2>6, <2>7
<1>12. StatesCarried'
  <2>1. StateFields' = StateFields + count
    <3>1. StateFields' = StateSize * (Len(handedStates) - 1) + (serverSent + count)
      BY <1>2, <1>4, <1>6 DEF StateFields
    <3> QED BY <1>7, <1>9, <1>10, <3>1 DEF StateSize
  <2>2. StatePackets' = StatePackets
    BY <1>4 DEF StatePackets
  <2> QED BY <1>4, <1>11, <2>1, <2>2 DEF StatesCarried
<1>13. FramingTypeOK'
  <2>1. TypeOK'
    <3>1. serverSent' \in 0..StateSize
      BY <1>2, <1>9, NumberFacts
    <3>2. Len(toClient') <= PipeSize /\ server' \in {"Reply", "Receive"}
      BY <1>3, <1>9, <1>11
    <3> QED BY <1>4, <1>5, <3>1, <3>2 DEF FramingTypeOK, TypeOK
  <2> QED BY <1>4, <1>5, <1>11, <2>1 DEF FramingTypeOK
<1>14. ServerSending' /\ ServerReceiving'
  <2>1. StatePackets' = StatePackets
    BY <1>4 DEF StatePackets
  <2>2. serverSent' <= StateSize /\ serverSent' \in Nat
    BY <1>2, <1>7, <1>9
  <2>3. CASE serverSent' < StateSize
    BY <1>3, <1>4, <1>6, <2>1, <2>3 DEF ServerSending, ServerReceiving, MoveSize
  <2>4. CASE ~(serverSent' < StateSize)
    <3>1. serverSent' = StateSize /\ server' = "Receive"
      BY <1>3, <2>2, <2>4, NumberFacts
    <3> QED BY <1>4, <1>6, <3>1 DEF ServerSending, ServerReceiving, MoveSize
  <2> QED BY <2>3, <2>4
<1>15. /\ NothingRejected' /\ MovesNumbered'
       /\ Prefix(takenMoves, handedMoves)' /\ Prefix(takenStates, handedStates)'
  BY <1>3, <1>4 DEF FramingInv, NothingRejected, MovesNumbered
<1>16. ClientSending' /\ ClientReceiving'
  BY <1>4 DEF FramingInv, ClientSending, ClientReceiving, MovePackets
<1>17. MovesCarried'
  BY <1>4, MovesUntouched DEF FramingInv
<1> QED BY <1>12, <1>13, <1>14, <1>15, <1>16, <1>17 DEF FramingInv

-----------------------------------------------------------------------------
(* The client's receive thread *)

LEMMA ClientReceivesKeeps ==
    ASSUME FramingInv, ClientReceives
    PROVE  FramingInv'
<1>1. receiver = "Receive"
  BY DEF ClientReceives
<1>2. PICK count \in Receivable(packet, clientReceived, toClient) :
          /\ packet' = Filled(packet, clientReceived, toClient, count)
          /\ clientReceived' = clientReceived + count
          /\ toClient' = Rest(toClient, count)
  BY DEF ClientReceives
<1>3. receiver' = IF clientReceived' < StateSize THEN "Receive" ELSE "Check"
  BY DEF ClientReceives
<1>4. UNCHANGED <<main, outgoing, clientSent, moveSequence, handedMoves, toServer,
                  shut, server, movePacket, serverReceived, lastSequence,
                  statePacket, serverSent, takenMoves, handedStates, takenStates>>
  BY DEF ClientReceives, clientVars, serverVars
<1>5. FramingTypeOK /\ StatesCarried
  BY DEF FramingInv
<1>6. packet \in [1..StateSize -> Nat] /\ Len(packet) = StateSize
      /\ packet \in Fields(StateSize)
  <2>1. packet \in [1..StateSize -> Nat]
    BY <1>5 DEF FramingTypeOK
  <2> QED BY <2>1, NumberFacts, FieldsAreSeq DEF Fields
<1>7. /\ count \in Nat \ {0} /\ clientReceived + count <= StateSize
      /\ count <= Len(toClient)
  <2>1. clientReceived < StateSize
    BY <1>1 DEF FramingInv, ClientReceiving
  <2>2. clientReceived \in Nat /\ Len(toClient) \in Nat /\ StateSize \in Nat
    BY NumberFacts
  <2>3. count \in 1..Smaller(StateSize - clientReceived, Len(toClient))
    BY <1>6 DEF Receivable
  <2> QED BY ONLY <2>1, <2>2, <2>3 DEF Smaller
<1>8. Delivered(StatePackets, Len(handedStates), StateSize, StateFields, toClient',
                Len(takenStates), packet', clientReceived + count,
                Len(toClient) - count)
  <2>1. Carries(StatePackets, Len(handedStates), StateSize, StateFields, toClient,
                Len(takenStates), packet, clientReceived)
    BY <1>5 DEF StatesCarried
  <2>2. count \in Nat /\ count <= Len(toClient) /\ clientReceived + count <= StateSize
    BY <1>7
  <2>3. /\ StateSize \in Sizes /\ Len(handedStates) \in Nat /\ StateFields \in Nat
        /\ toClient \in Seq(Nat) /\ Len(takenStates) \in Nat /\ clientReceived \in Nat
        /\ packet \in Fields(StateSize)
    BY <1>6, HandedFacts, NumberFacts
  <2>4. /\ toClient' = Rest(toClient, count)
        /\ packet' = Filled(packet, clientReceived, toClient, count)
    BY <1>2
  <2> QED BY ONLY <2>1, <2>2, <2>3, <2>4, ReceiveKeeps, Zenon
<1>9. StatesCarried'
  <2>1. StateFields' = StateFields /\ StatePackets' = StatePackets
    BY <1>4 DEF StateFields, StatePackets
  <2> QED BY <1>2, <1>4, <1>8, <2>1 DEF StatesCarried, Delivered
<1>10. /\ clientReceived' \in 0..StateSize /\ receiver' \in {"Receive", "Check"}
       /\ receiver' = "Receive" => clientReceived' < StateSize
       /\ receiver' = "Check" => clientReceived' = StateSize
  <2>1. clientReceived' \in 0..StateSize
    BY <1>2, <1>7, NumberFacts
  <2> QED BY <1>3, <2>1, NumberFacts
<1>11. FramingTypeOK'
  <2>1. /\ toClient' \in Seq(Nat) /\ Len(toClient') = Len(toClient) - count
        /\ packet' \in [1..StateSize -> Nat]
    BY <1>8 DEF Delivered, Fields
  <2>2. Len(toClient') <= PipeSize
    <3>1. Len(toClient) <= PipeSize /\ Len(toClient) \in Nat /\ PipeSize \in Nat
      BY <1>5, NumberFacts, FramingAssumption DEF FramingTypeOK, TypeOK
    <3> QED BY ONLY <3>1, <2>1, <1>7
  <2>3. TypeOK'
    BY <1>4, <1>5, <1>10, <2>2 DEF FramingTypeOK, TypeOK
  <2> QED BY <1>4, <1>5, <2>1, <2>3 DEF FramingTypeOK
<1>12. /\ NothingRejected' /\ MovesNumbered'
       /\ Prefix(takenMoves, handedMoves)' /\ Prefix(takenStates, handedStates)'
  BY <1>4, <1>10 DEF FramingInv, NothingRejected, MovesNumbered
<1>13. ClientSending' /\ ServerReceiving' /\ ServerSending'
  BY <1>4 DEF FramingInv, ClientSending, ServerReceiving, ServerSending, MovePackets,
              StatePackets
<1>14. ClientReceiving'
  BY <1>10 DEF ClientReceiving
<1>15. MovesCarried'
  BY <1>4, MovesUntouched DEF FramingInv
<1> QED BY <1>9, <1>11, <1>12, <1>13, <1>14, <1>15 DEF FramingInv

(* The packet the client has received whole is the server's next answer.   *)
LEMMA NextState ==
    ASSUME FramingInv, receiver = "Check"
    PROVE  /\ Len(takenStates) + 1 \in 1..Len(handedStates)
           /\ Valid(packet, PlayerState)
           /\ DecodedState(packet) = handedStates[Len(takenStates) + 1]
           /\ \A empty : Carries(StatePackets, Len(handedStates), StateSize,
                                 StateFields, toClient, Len(takenStates) + 1,
                                 empty, 0)
<1>1. Carries(StatePackets, Len(handedStates), StateSize, StateFields, toClient,
              Len(takenStates), packet, StateSize)
  <2>1. clientReceived = StateSize /\ StatesCarried
    BY DEF FramingInv, ClientReceiving
  <2> QED BY <2>1 DEF StatesCarried
<1>2. /\ StateSize \in Sizes /\ Len(handedStates) \in Nat /\ StateFields \in Nat
      /\ toClient \in Seq(Nat) /\ Len(takenStates) \in Nat
      /\ packet \in Fields(StateSize)
      /\ StateFields <= StateSize * Len(handedStates)
      /\ AllFields(StatePackets, Len(handedStates), StateSize)
  <2>1. packet \in Fields(StateSize)
    BY DEF FramingInv, FramingTypeOK, Fields
  <2>2. AllFields(StatePackets, Len(handedStates), StateSize)
    BY HandedFacts DEF AllFields, Fields
  <2> QED BY <2>1, <2>2, HandedFacts, NumberFacts
<1>3. ASSUME NEW empty
      PROVE  Taken(StatePackets, Len(handedStates), StateSize, StateFields, toClient,
                   Len(takenStates), packet, empty)
  BY ONLY <1>1, <1>2, TakeKeeps, Zenon
<1>4. /\ Len(takenStates) + 1 \in 1..Len(handedStates)
      /\ packet = StatePackets[Len(takenStates) + 1]
  BY <1>3 DEF Taken
<1>5. /\ packet = MakePlayerStatePacket(handedStates[Len(takenStates) + 1])
      /\ handedStates[Len(takenStates) + 1] \in Snapshots
  <2>1. handedStates \in Seq(Snapshots)
    BY DEF FramingInv, FramingTypeOK
  <2> QED BY <1>4, <2>1, HandedFacts
<1>6. /\ Valid(packet, PlayerState)
      /\ DecodedState(packet) = handedStates[Len(takenStates) + 1]
  BY <1>5, PacketFacts
<1> QED BY <1>3, <1>4, <1>6 DEF Taken

LEMMA ReceiverChecksKeeps ==
    ASSUME FramingInv, ReceiverChecks
    PROVE  FramingInv' /\ StatesLine!Take
<1>1. receiver = "Check" /\ packet' = Zeros(StateSize) /\ clientReceived' = 0
  BY DEF ReceiverChecks
<1>2. UNCHANGED <<main, outgoing, clientSent, moveSequence, handedMoves, toServer,
                  toClient, shut, server, movePacket, serverReceived, lastSequence,
                  statePacket, serverSent, takenMoves, handedStates>>
  BY DEF ReceiverChecks, clientVars, wires, serverVars
<1>3. receiver' = "Receive"
      /\ takenStates' = Append(takenStates, handedStates[Len(takenStates) + 1])
  BY <1>1, NextState DEF ReceiverChecks
<1>4. FramingTypeOK
  BY DEF FramingInv
<1>5. Len(takenStates) < Len(handedStates)
  BY <1>1, NextState, NumberFacts
<1>6. /\ takenStates' \in Seq(Snapshots) /\ Len(takenStates') = Len(takenStates) + 1
      /\ Prefix(takenStates, handedStates)'
  <2>1. takenStates \in Seq(Snapshots) /\ handedStates \in Seq(Snapshots)
        /\ Prefix(takenStates, handedStates)
    BY <1>4 DEF FramingTypeOK, FramingInv
  <2>2. Prefix(Append(takenStates, handedStates[Len(takenStates) + 1]), handedStates)
        /\ Append(takenStates, handedStates[Len(takenStates) + 1]) \in Seq(Snapshots)
        /\ Len(Append(takenStates, handedStates[Len(takenStates) + 1]))
              = Len(takenStates) + 1
    BY ONLY <1>5, <2>1, PrefixTake
  <2> QED BY <1>2, <1>3, <2>2
<1>7. FramingTypeOK'
  <2>1. TypeOK'
    BY <1>1, <1>2, <1>3, <1>4 DEF FramingTypeOK, TypeOK, StateSize
  <2>2. packet' \in [1..StateSize -> Nat]
    BY <1>1 DEF Zeros
  <2> QED BY <1>2, <1>4, <1>6, <2>1, <2>2 DEF FramingTypeOK
<1>8. NothingRejected' /\ MovesNumbered' /\ Prefix(takenMoves, handedMoves)'
  BY <1>2, <1>3 DEF FramingInv, NothingRejected, MovesNumbered
<1>9. ClientSending' /\ ServerReceiving' /\ ServerSending'
  BY <1>2 DEF FramingInv, ClientSending, ServerReceiving, ServerSending, MovePackets,
              StatePackets
<1>10. ClientReceiving'
  BY <1>1, <1>3 DEF ClientReceiving, StateSize
<1>11. MovesCarried'
  BY <1>2, MovesUntouched DEF FramingInv
<1>12. StatesCarried'
  <2>1. Carries(StatePackets, Len(handedStates), StateSize, StateFields, toClient,
                Len(takenStates) + 1, packet', 0)
    BY <1>1, NextState
  <2>2. StateFields' = StateFields /\ StatePackets' = StatePackets
    BY <1>2 DEF StateFields, StatePackets
  <2> QED BY <1>1, <1>2, <1>6, <2>1, <2>2 DEF StatesCarried
<1>13. StatesLine!Take
  BY <1>2, <1>3, <1>5 DEF StatesLine!Take
<1> QED BY <1>6, <1>7, <1>8, <1>9, <1>10, <1>11, <1>12, <1>13 DEF FramingInv

-----------------------------------------------------------------------------
(* The steps together *)

LEMMA FramingStep ==
    ASSUME FramingInv, [Next]_vars
    PROVE  /\ FramingInv'
           /\ [MovesLine!Next]_<<handedMoves, takenMoves>>
           /\ [StatesLine!Next]_<<handedStates, takenStates>>
<1>1. ASSUME NEW position \in WorldPositions, StartSend(position)
      PROVE  /\ FramingInv' /\ [MovesLine!Next]_<<handedMoves, takenMoves>>
             /\ [StatesLine!Next]_<<handedStates, takenStates>>
  <2>1. UNCHANGED <<handedStates, takenStates>>
    BY <1>1 DEF StartSend, serverVars, receiverVars
  <2>2. FramingInv' /\ \E move \in Moves : MovesLine!Hand(move)
    BY <1>1, StartSendKeeps
  <2> QED BY <2>1, <2>2 DEF MovesLine!Next
<1>2. CASE ServerChecks
  <2>1. UNCHANGED takenStates
    BY <1>2 DEF ServerChecks, receiverVars
  <2>2. FramingInv' /\ MovesLine!Take /\ \E state \in Snapshots : StatesLine!Hand(state)
    BY <1>2, ServerChecksKeeps
  <2> QED BY <2>1, <2>2 DEF MovesLine!Next, StatesLine!Next
<1>3. CASE ReceiverChecks
  <2>1. UNCHANGED <<handedMoves, takenMoves>>
    BY <1>3 DEF ReceiverChecks, clientVars, serverVars
  <2>2. FramingInv' /\ StatesLine!Take
    BY <1>3, ReceiverChecksKeeps
  <2> QED BY <2>1, <2>2 DEF StatesLine!Next
<1>4. CASE ClientSends
  <2>1. UNCHANGED <<handedMoves, takenMoves, handedStates, takenStates>>
    BY <1>4 DEF ClientSends, serverVars, receiverVars
  <2> QED BY <1>4, <2>1, ClientSendsKeeps
<1>5. CASE ServerReceives
  <2>1. UNCHANGED <<handedMoves, takenMoves, handedStates, takenStates>>
    BY <1>5 DEF ServerReceives, clientVars, receiverVars
  <2> QED BY <1>5, <2>1, ServerReceivesKeeps
<1>6. CASE ServerSends
  <2>1. UNCHANGED <<handedMoves, takenMoves, handedStates, takenStates>>
    BY <1>6 DEF ServerSends, clientVars, receiverVars
  <2> QED BY <1>6, <2>1, ServerSendsKeeps
<1>7. CASE ClientReceives
  <2>1. UNCHANGED <<handedMoves, takenMoves, handedStates, takenStates>>
    BY <1>7 DEF ClientReceives, clientVars, serverVars
  <2> QED BY <1>7, <2>1, ClientReceivesKeeps
<1>8. CASE \/ ClientSendFails \/ CloseWindow \/ Shutdown \/ ServerSeesDisconnect
           \/ ServerDies \/ ReceiverSeesDisconnect \/ Ended \/ UNCHANGED vars
  <2> USE DEF clientVars, wires, serverVars, receiverVars, vars
  <2>1. UNCHANGED <<outgoing, clientSent, moveSequence, handedMoves, toServer,
                    toClient, movePacket, serverReceived, lastSequence,
                    statePacket, serverSent, takenMoves, handedStates, packet,
                    clientReceived, takenStates>>
    BY <1>8 DEF ClientSendFails, CloseWindow, Shutdown, ServerSeesDisconnect,
                ServerDies, ReceiverSeesDisconnect, Ended
  <2>2. shut' = shut \/ shut' = TRUE
    BY <1>8 DEF ClientSendFails, CloseWindow, Shutdown, ServerSeesDisconnect,
                ServerDies, ReceiverSeesDisconnect, Ended
  <2>3. /\ main' = main \/ main' \in {"Close", "Ended"}
        /\ server' = server \/ server' = "Gone"
        /\ receiver' = receiver \/ receiver' = "Exited"
    BY <1>8 DEF ClientSendFails, CloseWindow, Shutdown, ServerSeesDisconnect,
                ServerDies, ReceiverSeesDisconnect, Ended
  <2>4. shut' \in BOOLEAN
    <3>1. shut \in BOOLEAN
      BY DEF FramingInv, FramingTypeOK
    <3> QED BY <2>2, <3>1
  <2>5. FramingInv'
    BY <2>1, <2>3, <2>4, QuietStepsKeep
  <2> QED BY <2>1, <2>5
<1> QED BY <1>1, <1>2, <1>3, <1>4, <1>5, <1>6, <1>7, <1>8
        DEF Next, MainSteps, ServerSteps, ReceiverSteps

(* FramingInv holds throughout, for any buffers, positions and number of   *)
(* packets.                                                                *)
THEOREM FramingInvariance == Spec => []FramingInv
<1>1. Init => FramingInv
  BY FramingInitial
<1>2. FramingInv /\ [Next]_vars => FramingInv'
  BY FramingStep
<1> QED BY <1>1, <1>2, PTL DEF Spec

(* Every loop of TcpClient.cpp and Server/main.cpp keeps its counts within *)
(* the packet, and neither direction holds more than its buffer.           *)
THEOREM FramingTypeCorrect == Spec => []TypeOK
<1>1. FramingInv => TypeOK
  BY DEF FramingInv, FramingTypeOK
<1> QED BY <1>1, FramingInvariance, PTL

(* Neither side ever refuses a packet of the other, however send and recv  *)
(* cut the stream.                                                         *)
THEOREM NeverRejects == Spec => []NothingRejected
<1>1. FramingInv => NothingRejected
  BY DEF FramingInv
<1> QED BY <1>1, FramingInvariance, PTL

(* In both directions packets come out whole, once, unchanged and in the   *)
(* order they were handed over, wherever the connection breaks.            *)
THEOREM FramingImplementsLine == Spec => ImplementsLine
<1>1. Init => MovesLine!Init /\ StatesLine!Init
  BY DEF Init, MovesLine!Init, StatesLine!Init
<1>2. FramingInv /\ [Next]_vars => /\ [MovesLine!Next]_<<handedMoves, takenMoves>>
                                   /\ [StatesLine!Next]_<<handedStates, takenStates>>
  BY FramingStep
<1> QED BY <1>1, <1>2, FramingInvariance, PTL
        DEF Spec, ImplementsLine, MovesLine!Spec, StatesLine!Spec
=============================================================================
