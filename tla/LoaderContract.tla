---------------------------- MODULE LoaderContract ----------------------------
(***************************************************************************)
(* What the asynchronous loader promises to the thread that uses it,       *)
(* without its threads, locks and queues: a session hands back every       *)
(* accepted request once, in the order of acceptance, never has two        *)
(* requests for one path outstanding, holds at most Capacity of them, and  *)
(* forgets all of them when it closes.                                     *)
(***************************************************************************)
EXTENDS Integers, Sequences

CONSTANTS Paths, Capacity

VARIABLES
    open,         \* requests are accepted
    lastId,       \* the id of the last accepted request of this session
    outstanding   \* accepted and not handed back, oldest first

contract == <<open, lastId, outstanding>>

Closed == open = FALSE /\ lastId = 0 /\ outstanding = <<>>

Open ==
    /\ ~open
    /\ open' \in BOOLEAN
    /\ lastId' = 0
    /\ outstanding' = <<>>

Accept(path) ==
    /\ open
    /\ Len(outstanding) < Capacity
    /\ \A i \in 1..Len(outstanding) : outstanding[i].path # path
    /\ lastId' = lastId + 1
    /\ outstanding' = Append(outstanding, [id |-> lastId', path |-> path])
    /\ UNCHANGED open

HandBack ==
    /\ outstanding # <<>>
    /\ outstanding' = Tail(outstanding)
    /\ UNCHANGED <<open, lastId>>

Close ==
    /\ open' = FALSE
    /\ outstanding' = <<>>
    /\ UNCHANGED lastId

Step == Open \/ (\E path \in Paths : Accept(path)) \/ HandBack \/ Close

Contract == Closed /\ [][Step]_contract
=============================================================================
