--------------------------- MODULE ClientLifecycle ---------------------------
(***************************************************************************)
(* The life of the client process: wWinMain (Client/main.cpp), the start   *)
(* sequence of Application::Run, which may fail at every step, the message *)
(* loop of Platform::Window, the two threads the client owns, and the      *)
(* unwinding of it all in the reverse order of Application's members.      *)
(* Beside it the life of the server (Server/main.cpp, TcpListener), which  *)
(* serves one client, perhaps not this one.  What the threads do while     *)
(* they live is the matter of AsyncTextureLoader and MoveSync.             *)
(***************************************************************************)
EXTENDS Naturals, Sequences, FiniteSets, SequencesExt

VARIABLES
    main,           \* where the main thread is
    made,           \* number of objects D3D11Renderer::Initialize has made
    unwind,         \* the steps left of leaving Run and wWinMain
    apartment,      \* the threads that have entered COM's apartment
    winsock,        \* WSAStartup without WSACleanup, in the client
    socket,         \* socket_ of TcpClient
    receiver,       \* the receive thread; "None" = not joinable
    running,        \* running_ of ServerStateReceiver
    classRegistered, window,    \* of Platform::Window
    closePosted,    \* the user has asked the window to close
    quitPosted,     \* PostQuitMessage was called
    worker,         \* the texture loader's thread; "None" = not joinable
    workerFactory,  \* the decoder of the worker holds its WIC factory
    stopRequested,  \* stopRequested_ of AsyncTextureLoader
    full,           \* the connection takes no more from this client
    server,         \* where the server's main is
    serverWinsock, listening,   \* what the server holds
    served          \* whose socket it has accepted

start == <<main, made, unwind>>
network == <<winsock, socket, receiver, running, full>>
windowVars == <<classRegistered, window, closePosted, quitPosted>>
workerVars == <<worker, workerFactory, stopRequested>>
serverVars == <<server, serverWinsock, listening, served>>
vars == <<start, apartment, network, windowVars, workerVars, serverVars>>

-----------------------------------------------------------------------------
(* What D3D11Renderer::Initialize makes, in its order, with what each      *)
(* object is made from.  The device stands for swap chain and context too, *)
(* a failing stage leaves what it had made before.                         *)

From(object, needs) == [object |-> object, needs |-> needs]
OfDevice(objects) ==
    [i \in 1..Len(objects) |-> From(objects[i], {"device"})]

CreateDeviceAndSwapChain == <<From("device", {"window"})>>
InitializeTextureLoader == <<From("factory", {"com"})>>
CreateTextureResources ==
    << From("spriteAtlas", {"device", "factory"}),
       From("groundTexture", {"device", "factory"}),
       From("backgroundTexture", {"device", "factory"}) >>
CreateSamplersAndBlendState ==
    OfDevice(<<"spriteSampler", "groundSampler", "spriteBlendState">>)
CreateGpuTimingQueries == OfDevice(<<"gpuTimingQueries">>)
CreateRenderTarget == OfDevice(<<"renderTargetView">>)
InitializeDiagnosticsOverlay ==
    << From("d2dFactory", {}), From("writeFactory", {}),
       From("overlayTarget", {"device", "d2dFactory"}),
       From("textFormat", {"writeFactory"}),
       From("brushes", {"overlayTarget"}) >>
CreateDepthBuffer ==
    <<From("depthBuffer", {"device"}),
      From("depthStencilView", {"device", "depthBuffer"})>>
CreateSpriteGeometryBuffers == OfDevice(<<"vertexBuffer", "indexBuffer">>)
CreateGroundGeometryBuffers ==
    OfDevice(<<"groundVertexBuffer", "groundIndexBuffer">>)
CreateBackgroundGeometryBuffers ==
    OfDevice(<<"backgroundVertexBuffer", "backgroundIndexBuffer">>)
CreateConstantBuffer == OfDevice(<<"constantBuffer">>)
CreateInstanceBuffer == OfDevice(<<"instanceBuffer">>)
CreateShadersAndInputLayout ==
    OfDevice(<<"vertexShader", "pixelShader", "inputLayout">>)
CreateGroundShadersAndInputLayout ==
    OfDevice(<<"groundVertexShader", "groundPixelShader",
               "groundInputLayout">>)

Initialization ==
    CreateDeviceAndSwapChain \o InitializeTextureLoader
        \o CreateTextureResources \o CreateSamplersAndBlendState
        \o CreateGpuTimingQueries \o CreateRenderTarget
        \o InitializeDiagnosticsOverlay \o CreateDepthBuffer
        \o CreateSpriteGeometryBuffers \o CreateGroundGeometryBuffers
        \o CreateBackgroundGeometryBuffers \o CreateConstantBuffer
        \o CreateInstanceBuffer \o CreateShadersAndInputLayout
        \o CreateGroundShadersAndInputLayout

Objects == {Initialization[i].object : i \in 1..made}

(* What an object can be made from at present. *)
Available ==
    Objects \cup (IF window = "Exists" THEN {"window"} ELSE {})
            \cup (IF apartment # {} THEN {"com"} ELSE {})

-----------------------------------------------------------------------------
(* Leaving.  A destructor is a few steps; the members are destroyed in the *)
(* reverse of the order they are declared in.                              *)

StopManager == <<"RequestWorkerStop", "JoinWorker">>
StopReceiver == <<"ShutdownSocket", "JoinReceiver">>

Destructor(member) ==
    CASE member = "winsock" -> <<"CleanupWinsock">>
      [] member = "tcpClient" -> <<"CloseSocket">>
      [] member = "serverStateReceiver" -> StopReceiver
      [] member = "window" -> <<"DestroyWindow", "UnregisterClass">>
      [] member = "renderer" -> <<"ReleaseObjects">>
      [] member = "textureResourceManager" -> StopManager

MutantMembers ==
    <<"winsock", "serverStateReceiver", "tcpClient", "window", "renderer",
      "textureResourceManager">>

(* The members of Application with a life of their own. *)
Members ==
    <<"winsock", "tcpClient", "serverStateReceiver", "window", "renderer",
      "textureResourceManager">>

(* Application goes out of scope in wWinMain, then COM is left. *)
LeaveMain ==
    FlattenSeq([i \in 1..Len(Members) |-> Destructor(Reverse(Members)[i])])
        \o <<"CoUninitialize">>

(* Run returns EXIT_FAILURE at once; at its end it stops both threads. *)
Fail == main' = "Unwind" /\ unwind' = LeaveMain
Succeed == main' = "Unwind" /\ unwind' = StopManager \o StopReceiver \o LeaveMain

-----------------------------------------------------------------------------
Init ==
    /\ main = "EnterCom" /\ made = 0 /\ unwind = <<>> /\ apartment = {}
    /\ winsock = FALSE /\ socket = "None" /\ receiver = "None"
    /\ running = FALSE /\ full = FALSE
    /\ classRegistered = FALSE /\ window = "None"
    /\ closePosted = FALSE /\ quitPosted = FALSE
    /\ worker = "None" /\ workerFactory = FALSE /\ stopRequested = FALSE
    /\ server = "Startup" /\ serverWinsock = FALSE /\ listening = FALSE
    /\ served = "None"

ServerGone == server = "Gone"

(* The start-up of the client: wWinMain, then Run *)

EnterCom ==
    /\ main = "EnterCom"
    /\ \/ apartment' = {"main"} /\ main' = "StartWinsock"
       \/ main' = "Ended" /\ UNCHANGED apartment
    /\ UNCHANGED <<made, unwind, network, windowVars, workerVars, serverVars>>

(* The constructor of winsock_, and Run's look at it. *)
StartWinsock ==
    /\ main = "StartWinsock"
    /\ \/ winsock' = TRUE /\ main' = "Connect" /\ UNCHANGED unwind
       \/ Fail /\ UNCHANGED winsock
    /\ UNCHANGED <<made, apartment, socket, receiver, running, full,
                   windowVars, workerVars, serverVars>>

(* A connection is made as soon as the server listens, whether it will     *)
(* ever accept it or not; a failed Connect leaves no socket behind.        *)
Connect ==
    /\ main = "Connect"
    /\ \/ listening /\ socket' = "Open" /\ main' = "StartReceiver"
          /\ UNCHANGED unwind
       \/ Fail /\ UNCHANGED socket
    /\ UNCHANGED <<made, apartment, winsock, receiver, running, full,
                   windowVars, workerVars, serverVars>>

StartReceiver ==
    /\ main = "StartReceiver"
    /\ \/ running' = TRUE /\ receiver' = "Test" /\ main' = "RegisterClass"
          /\ UNCHANGED unwind
       \/ Fail /\ UNCHANGED <<running, receiver>>
    /\ UNCHANGED <<made, apartment, winsock, socket, full, windowVars,
                   workerVars, serverVars>>

RegisterClass ==
    /\ main = "RegisterClass"
    /\ \/ classRegistered' = TRUE /\ main' = "CreateWindow" /\ UNCHANGED unwind
       \/ Fail /\ UNCHANGED classRegistered
    /\ UNCHANGED <<made, apartment, network, window, closePosted, quitPosted,
                   workerVars, serverVars>>

CreateWindow ==
    /\ main = "CreateWindow"
    /\ \/ window' = "Exists" /\ main' = "InitializeRenderer"
          /\ UNCHANGED unwind
       \/ Fail /\ UNCHANGED window
    /\ UNCHANGED <<made, apartment, network, classRegistered, closePosted,
                   quitPosted, workerVars, serverVars>>

(* D3D11Renderer::Initialize, object by object. *)
InitializeRenderer ==
    /\ main = "InitializeRenderer"
    /\ \/ /\ made' = made + 1
          /\ main' = IF made' = Len(Initialization) THEN "StartManager"
                     ELSE "InitializeRenderer"
          /\ UNCHANGED unwind
       \/ Fail /\ UNCHANGED made
    /\ UNCHANGED <<apartment, network, windowVars, workerVars, serverVars>>

StartTextureManager ==
    /\ main = "StartManager"
    /\ \/ worker' = "Start" /\ main' = "Messages" /\ UNCHANGED unwind
       \/ Fail /\ UNCHANGED worker
    /\ UNCHANGED <<made, apartment, network, windowVars, workerFactory,
                   stopRequested, serverVars>>

-----------------------------------------------------------------------------
(* The frame loop *)

(* ProcessMessages dispatches WM_CLOSE: DefWindowProc destroys the window, *)
(* and WindowProcedure answers WM_DESTROY by posting the quit message.     *)
DispatchClose ==
    /\ main = "Messages" /\ closePosted
    /\ closePosted' = FALSE /\ quitPosted' = TRUE /\ window' = "Destroyed"
    /\ UNCHANGED <<start, apartment, network, classRegistered, workerVars,
                   serverVars>>

(* The quit message comes behind all others; without it the frame goes on. *)
MessagesProcessed ==
    /\ main = "Messages" /\ ~closePosted
    /\ IF quitPosted THEN Succeed ELSE main' = "Frame" /\ UNCHANGED unwind
    /\ UNCHANGED <<made, apartment, network, windowVars, workerVars,
                   serverVars>>

(* The rest of the frame.  send fails when the server is gone and blocks   *)
(* while the connection is full; the server this client is served by       *)
(* empties it.                                                             *)
Frame ==
    /\ main = "Frame"
    /\ \/ /\ full => served = "This"
          /\ main' = "Messages" /\ UNCHANGED unwind
       \/ ServerGone /\ Fail
    /\ UNCHANGED <<made, apartment, network, windowVars, workerVars,
                   serverVars>>

(* External: the user closes the window. *)
UserCloses ==
    /\ window = "Exists" /\ ~closePosted
    /\ closePosted' = TRUE
    /\ UNCHANGED <<start, apartment, network, classRegistered, window,
                   quitPosted, workerVars, serverVars>>

-----------------------------------------------------------------------------
(* Unwinding, step by step *)

Take(step) ==
    /\ main = "Unwind" /\ unwind # <<>> /\ Head(unwind) = step
    /\ unwind' = Tail(unwind)
    /\ UNCHANGED main

RequestWorkerStop ==
    /\ Take("RequestWorkerStop")
    /\ stopRequested' = (stopRequested \/ worker # "None")
    /\ UNCHANGED <<made, apartment, network, windowVars, worker,
                   workerFactory, serverVars>>

MutantDetachesWorker ==
    /\ Take("JoinWorker")
    /\ UNCHANGED <<made, apartment, network, windowVars, workerVars,
                   serverVars>>

JoinWorker ==
    /\ Take("JoinWorker")
    /\ worker \in {"None", "Exited"}
    /\ worker' = "None"
    /\ UNCHANGED <<made, apartment, network, windowVars, workerFactory,
                   stopRequested, serverVars>>

ReleaseObjects ==
    /\ Take("ReleaseObjects")
    /\ made' = 0
    /\ UNCHANGED <<apartment, network, windowVars, workerVars, serverVars>>

(* The window may have been destroyed by its user already. *)
DestroyWindow ==
    /\ Take("DestroyWindow")
    /\ IF window = "Exists"
       THEN window' = "Destroyed" /\ quitPosted' = TRUE /\ closePosted' = FALSE
       ELSE UNCHANGED <<window, quitPosted, closePosted>>
    /\ UNCHANGED <<made, apartment, network, classRegistered, workerVars,
                   serverVars>>

UnregisterClass ==
    /\ Take("UnregisterClass")
    /\ classRegistered' = FALSE
    /\ UNCHANGED <<made, apartment, network, window, closePosted, quitPosted,
                   workerVars, serverVars>>

MutantNoShutdown ==
    /\ Take("ShutdownSocket")
    /\ running' = FALSE
    /\ UNCHANGED <<made, apartment, winsock, socket, receiver, full,
                   windowVars, workerVars, serverVars>>

(* ServerStateReceiver::Stop up to its join. *)
ShutdownSocket ==
    /\ Take("ShutdownSocket")
    /\ running' = FALSE
    /\ socket' = IF receiver # "None" /\ socket = "Open" THEN "Shut"
                 ELSE socket
    /\ UNCHANGED <<made, apartment, winsock, receiver, full, windowVars,
                   workerVars, serverVars>>

JoinReceiver ==
    /\ Take("JoinReceiver")
    /\ receiver \in {"None", "Exited"}
    /\ receiver' = "None"
    /\ UNCHANGED <<made, apartment, winsock, socket, running, full,
                   windowVars, workerVars, serverVars>>

(* TcpClient::Disconnect *)
CloseSocket ==
    /\ Take("CloseSocket")
    /\ socket' = "None"
    /\ UNCHANGED <<made, apartment, winsock, receiver, running, full,
                   windowVars, workerVars, serverVars>>

CleanupWinsock ==
    /\ Take("CleanupWinsock")
    /\ winsock' = FALSE
    /\ UNCHANGED <<made, apartment, socket, receiver, running, full,
                   windowVars, workerVars, serverVars>>

LeaveCom ==
    /\ Take("CoUninitialize")
    /\ apartment' = apartment \ {"main"}
    /\ UNCHANGED <<made, network, windowVars, workerVars, serverVars>>

MainReturns ==
    /\ main = "Unwind" /\ unwind = <<>>
    /\ main' = "Ended"
    /\ UNCHANGED <<made, unwind, apartment, network, windowVars, workerVars,
                   serverVars>>

-----------------------------------------------------------------------------
(* The receive thread *)

ReceiverTests ==
    /\ receiver = "Test"
    /\ receiver' = IF running THEN "Receive" ELSE "Exited"
    /\ UNCHANGED <<start, apartment, winsock, socket, running, full,
                   windowVars, workerVars, serverVars>>

(* Only the server that serves this client answers it. *)
ReceiverReceives ==
    /\ receiver = "Receive" /\ socket = "Open" /\ served = "This"
    /\ receiver' = "Test"
    /\ UNCHANGED <<start, apartment, winsock, socket, running, full,
                   windowVars, workerVars, serverVars>>

ReceiverFails ==
    /\ receiver = "Receive" /\ (socket = "Shut" \/ ServerGone)
    /\ receiver' = "Exited" /\ running' = FALSE
    /\ UNCHANGED <<start, apartment, winsock, socket, full, windowVars,
                   workerVars, serverVars>>

(* The texture loader's worker: it leaves COM before its decoder, which    *)
(* holds the factory, goes out of scope.                                   *)
WorkerStarts ==
    /\ worker = "Start"
    /\ worker' = "Work"
    /\ \E entered, created \in BOOLEAN :
          /\ apartment' = IF entered THEN apartment \cup {"worker"}
                          ELSE apartment
          /\ workerFactory' = (entered /\ created)
    /\ UNCHANGED <<start, network, windowVars, stopRequested, serverVars>>

WorkerLeavesCom ==
    /\ worker = "Work" /\ stopRequested
    /\ worker' = "Return"
    /\ apartment' = apartment \ {"worker"}
    /\ UNCHANGED <<start, network, windowVars, workerFactory, stopRequested,
                   serverVars>>

WorkerReturns ==
    /\ worker = "Return"
    /\ worker' = "Exited" /\ workerFactory' = FALSE
    /\ UNCHANGED <<start, apartment, network, windowVars, stopRequested,
                   serverVars>>

-----------------------------------------------------------------------------
(* The server process *)

ServerStarts ==
    /\ server = "Startup"
    /\ \/ serverWinsock' = TRUE /\ server' = "Listen"
       \/ server' = "Gone" /\ UNCHANGED serverWinsock
    /\ UNCHANGED <<start, apartment, network, windowVars, workerVars,
                   listening, served>>

(* TcpListener::Start; if a part of it fails it leaves no socket. *)
ServerListens ==
    /\ server = "Listen"
    /\ \/ listening' = TRUE /\ server' = "Accept"
       \/ server' = "Leave" /\ UNCHANGED listening
    /\ UNCHANGED <<start, apartment, network, windowVars, workerVars,
                   serverWinsock, served>>

(* Accept takes this client, if it has connected, or another one, and it   *)
(* is called once.                                                         *)
ServerAccepts ==
    /\ server = "Accept"
    /\ \/ socket = "Open" /\ served' = "This" /\ server' = "Serve"
       \/ served' = "Other" /\ server' = "Serve"
       \/ server' = "Leave" /\ UNCHANGED served
    /\ UNCHANGED <<start, apartment, network, windowVars, workerVars,
                   serverWinsock, listening>>

(* Each way out of the server's loop closes the client's socket first. *)
ServerSeesDisconnect ==
    /\ server = "Serve" /\ served = "This" /\ socket # "Open"
    /\ served' = "None" /\ server' = "Leave"
    /\ UNCHANGED <<start, apartment, network, windowVars, workerVars,
                   serverWinsock, listening>>

(* External: the other client leaves, when it likes. *)
OtherLeaves ==
    /\ server = "Serve" /\ served = "Other"
    /\ served' = "None" /\ server' = "Leave"
    /\ UNCHANGED <<start, apartment, network, windowVars, workerVars,
                   serverWinsock, listening>>

(* The destructors of listener and winsock. *)
ServerLeaves ==
    /\ server = "Leave"
    /\ listening' = FALSE /\ serverWinsock' = FALSE /\ server' = "Gone"
    /\ UNCHANGED <<start, apartment, network, windowVars, workerVars, served>>

(* External: the server process is ended, wherever it is. *)
ServerDies ==
    /\ ~ServerGone
    /\ server' = "Gone" /\ served' = "None"
    /\ listening' = FALSE /\ serverWinsock' = FALSE
    /\ UNCHANGED <<start, apartment, network, windowVars, workerVars>>

(* A connection nobody has accepted takes what fits into its buffers, and  *)
(* no more.                                                                *)
ConnectionFills ==
    /\ socket = "Open" /\ served # "This" /\ ~ServerGone
    /\ main = "Frame" /\ ~full
    /\ full' = TRUE
    /\ UNCHANGED <<start, apartment, winsock, socket, receiver, running,
                   windowVars, workerVars, serverVars>>

-----------------------------------------------------------------------------
StartUp ==
    EnterCom \/ StartWinsock \/ Connect \/ StartReceiver \/ RegisterClass
        \/ CreateWindow \/ InitializeRenderer \/ StartTextureManager
FrameLoop == DispatchClose \/ MessagesProcessed \/ Frame
Unwinding ==
    RequestWorkerStop \/ JoinWorker \/ ReleaseObjects \/ DestroyWindow
        \/ UnregisterClass \/ ShutdownSocket \/ JoinReceiver \/ CloseSocket
        \/ CleanupWinsock \/ LeaveCom \/ MainReturns
MainSteps == StartUp \/ FrameLoop \/ Unwinding
ReceiverSteps == ReceiverTests \/ ReceiverReceives \/ ReceiverFails
WorkerSteps == WorkerStarts \/ WorkerLeavesCom \/ WorkerReturns
ServerSteps ==
    ServerStarts \/ ServerListens \/ ServerAccepts \/ ServerSeesDisconnect
        \/ ServerLeaves

Ended == main = "Ended" /\ UNCHANGED vars

Next ==
    \/ MainSteps \/ ReceiverSteps \/ WorkerSteps \/ ServerSteps
    \/ UserCloses \/ OtherLeaves \/ ServerDies \/ ConnectionFills \/ Ended

(* The threads and both processes are scheduled; the user, the other       *)
(* client and the buffers do what they like.                               *)
FairSpec ==
    /\ Init /\ [][Next]_vars
    /\ WF_vars(MainSteps) /\ WF_vars(ReceiverSteps) /\ WF_vars(WorkerSteps)
    /\ WF_vars(ServerSteps)

-----------------------------------------------------------------------------
(* Whatever is in use has what it stands on.  The receive thread has a     *)
(* socket and the socket has Winsock, wherever the start failed; the next  *)
(* Direct3D object finds all it is made from; while anything is left of    *)
(* the renderer its window class is there; a WIC factory, the worker's     *)
(* after it has left COM included, is released while some thread keeps COM *)
(* alive; and no frame is drawn once the window is gone.                   *)
UsesOnlyAlive ==
    /\ receiver \in {"Test", "Receive"} => socket # "None"
    /\ socket # "None" => winsock
    /\ main = "InitializeRenderer" =>
          Initialization[made + 1].needs \subseteq Available
    /\ made > 0 => classRegistered
    /\ workerFactory \/ "factory" \in Objects => apartment # {}
    /\ main = "Frame" =>
          window = "Exists" /\ made = Len(Initialization) /\ worker # "None"

(* Whichever step of the start fails and whenever the window is closed,    *)
(* the client ends with nothing left behind, and so does the server.       *)
EndsClean ==
    /\ main = "Ended" =>
          /\ receiver = "None" /\ worker = "None" /\ ~workerFactory
          /\ socket = "None" /\ ~winsock /\ made = 0
          /\ ~classRegistered /\ window # "Exists" /\ apartment = {}
    /\ ServerGone => ~serverWinsock /\ ~listening /\ served = "None"

(* A client that has begun to leave ends, although its receive thread may  *)
(* be blocked in recv, and the server it was served by ends too; and one   *)
(* whose window is to be closed begins to leave, unless the server serves  *)
(* another client: then the main thread may be blocked in send.            *)
ClosingEnds ==
    /\ main = "Unwind" ~> main = "Ended"
    /\ main = "Ended" /\ served = "This" ~> ServerGone
    /\ closePosted ~> main = "Ended" \/ served = "Other"
=============================================================================
