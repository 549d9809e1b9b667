-------------------------- MODULE WebsocketBackend --------------------------
(***************************************************************************)
(* WebsocketBackend.cpp: the message handler that the websocket library    *)
(* calls in its own thread, and the send that any thread may call.  The    *)
(* library itself (connections opening and closing, delivery) is external  *)
(* and modelled as far as the handler and the send can tell.               *)
(***************************************************************************)
EXTENDS Queues

CONSTANTS
    Incoming,       \* the packets clients may send
    MayClose,       \* the connections that may close
    MaxReceived     \* bound: packets received in a behaviour

VARIABLES
    RxQueue,        \* packets received and not yet parsed, oldest first
    closed,         \* the connections that are no longer open
    received,       \* packets received so far
    listening       \* FALSE once the library's thread has ended

connectionVars == <<closed, received, listening>>

backendVars == <<RxQueue, connectionVars>>

ASSUME IncomingAssumption ==
    /\ Incoming \subseteq Packet
    /\ MayClose \subseteq Connection
    /\ MaxReceived \in Nat

BackendInit ==
    /\ RxQueue = <<>>
    /\ closed = {}
    /\ received = 0
    /\ listening = TRUE

(* The handler queues the packet; the bound ends the clients' traffic.     *)
MessageReceived(packet) ==
    /\ running
    /\ listening
    /\ received < MaxReceived
    /\ packet.conn \notin closed
    /\ RxQueue' = Append(RxQueue, packet)
    /\ received' = received + 1
    /\ UNCHANGED <<queueVars, closed, listening>>

(* External: a client goes away; its connection handle no longer locks or  *)
(* its connection is no longer in the open state.                          *)
ConnectionClosed(c) ==
    /\ running
    /\ listening
    /\ c \in MayClose \ closed
    /\ closed' = closed \cup {c}
    /\ UNCHANGED <<queueVars, RxQueue, received, listening>>

(* StartSocket catches whatever the library throws (the port is in use, an *)
(* accept fails) and returns: nothing is received any more and no closing  *)
(* noticed, the other threads go on.  It is told apart only while there    *)
(* are packets to come.                                                    *)
StartSocketEnds ==
    /\ running
    /\ listening
    /\ received < MaxReceived
    /\ listening' = FALSE
    /\ UNCHANGED <<queueVars, RxQueue, closed, received>>

(* Server.send throws when the connection is not open.  No caller catches  *)
(* the exception, and it leaves the thread's function: the process ends.   *)
SendWebsocketppMessage(conn) == running' = (conn \notin closed)

BackendTypeOK ==
    /\ RxQueue \in Seq(Packet)
    /\ closed \subseteq Connection
    /\ received \in Nat
    /\ listening \in BOOLEAN

=============================================================================
