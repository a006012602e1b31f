---------------------------- MODULE ReceiverExit -----------------------------
(***************************************************************************)
(* How frenet_planner_node opens its UDP receivers and gives them up again: *)
(* UdpManager's constructor, the base class Receiver with its thread        *)
(* (udp_network/receiver/receiver.cpp, the same file in both nodes), and    *)
(* the unwinding when one of the later sockets cannot be bound.             *)
(*                                                                         *)
(* What recv() does when another thread closes its socket is the kernel's:  *)
(* on Linux a recv() that already waits goes on waiting, and still takes    *)
(* the next datagram.                                                       *)
(***************************************************************************)
EXTENDS Integers

CONSTANT Receivers  \* how many receivers are opened one after the other

Ids == 1..Receivers

VARIABLES
  main,     \* where the main thread is
  current,  \* the receiver it constructs or destroys
  object,   \* what the receiver is: "none", "base" or "derived"
  socket,   \* sock_ is open
  running,  \* running_
  thread    \* "none", "test" (the loop condition), "recv" (about
            \* to call), "wait" (in recv()), "parse", "done"

vars == <<main, current, object, socket, running, thread>>

Init ==
  /\ main = "construct"
  /\ current = 1
  /\ object = [i \in Ids |-> "none"]
  /\ socket = [i \in Ids |-> FALSE]
  /\ running = [i \in Ids |-> FALSE]
  /\ thread = [i \in Ids |-> "none"]
------------------------------------------------------------------------------
(***************************************************************************)
(* The main thread: UdpManager::UdpManager().                               *)
(***************************************************************************)
\* Receiver::Receiver(): the thread starts while the object is a Receiver.
Bind ==
  /\ main = "construct" /\ object[current] = "none"
  /\ socket' = [socket EXCEPT ![current] = TRUE]
  /\ running' = [running EXCEPT ![current] = TRUE]
  /\ thread' = [thread EXCEPT ![current] = "test"]
  /\ object' = [object EXCEPT ![current] = "base"]
  /\ UNCHANGED <<main, current>>

\* bind() fails: an exception, and the receivers before are destroyed in
\* reverse order.
BindFails ==
  /\ main = "construct" /\ object[current] = "none"
  /\ main' = "destroy"
  /\ current' = current - 1
  /\ UNCHANGED <<object, socket, running, thread>>

\* The constructor of the derived class ends: parse_data() is there.
Derive ==
  /\ main = "construct" /\ object[current] = "base"
  /\ object' = [object EXCEPT ![current] = "derived"]
  /\ IF current = Receivers
       THEN main' = "loop" /\ UNCHANGED current
       ELSE current' = current + 1 /\ UNCHANGED main
  /\ UNCHANGED <<socket, running, thread>>

\* The derived part is destroyed first, with its mutex and its data.
Destroy ==
  /\ main = "destroy" /\ current > 0
  /\ object' = [object EXCEPT ![current] = "base"]
  /\ main' = "close"
  /\ UNCHANGED <<current, socket, running, thread>>

\* Receiver::~Receiver() up to join().
Close ==
  /\ main = "close"
  /\ running' = [running EXCEPT ![current] = FALSE]
  /\ socket' = [socket EXCEPT ![current] = FALSE]
  /\ main' = "join"
  /\ UNCHANGED <<current, object, thread>>

Join ==
  /\ main = "join" /\ thread[current] = "done"
  /\ object' = [object EXCEPT ![current] = "none"]
  /\ current' = current - 1
  /\ main' = "destroy"
  /\ UNCHANGED <<socket, running, thread>>

\* Everything is unwound: main() catches, says why and returns 1.
Report ==
  /\ main = "destroy" /\ current = 0
  /\ main' = "reported"
  /\ UNCHANGED <<current, object, socket, running, thread>>

Main == Bind \/ BindFails \/ Derive \/ Destroy \/ Close \/ Join \/ Report
------------------------------------------------------------------------------
(***************************************************************************)
(* A receiver thread: receive_loop().                                       *)
(***************************************************************************)
Alive == main \notin {"reported", "aborted"}

TestRunning(i) ==
  /\ Alive /\ thread[i] = "test"
  /\ thread' = [thread EXCEPT ![i] = IF running[i] THEN "recv" ELSE "done"]
  /\ UNCHANGED <<main, current, object, socket, running>>

\* recv() on a closed socket fails at once, if it has not begun to wait.
RecvFails(i) ==
  /\ Alive /\ thread[i] = "recv" /\ ~socket[i]
  /\ thread' = [thread EXCEPT ![i] = "test"]
  /\ UNCHANGED <<main, current, object, socket, running>>

RecvWaits(i) ==
  /\ Alive /\ thread[i] = "recv" /\ socket[i]
  /\ thread' = [thread EXCEPT ![i] = "wait"]
  /\ UNCHANGED <<main, current, object, socket, running>>

\* parse_data() of the object as it is now: pure virtual in Receiver.
ParseData(i) ==
  /\ Alive /\ thread[i] = "parse"
  /\ IF object[i] = "derived"
       THEN thread' = [thread EXCEPT ![i] = "test"] /\ UNCHANGED main
       ELSE main' = "aborted" /\ UNCHANGED thread
  /\ UNCHANGED <<current, object, socket, running>>

Thread(i) == TestRunning(i) \/ RecvFails(i) \/ RecvWaits(i) \/ ParseData(i)

\* A datagram arrives: nobody promises that one does.
Arrive(i) ==
  /\ Alive /\ thread[i] = "wait"
  /\ thread' = [thread EXCEPT ![i] = "parse"]
  /\ UNCHANGED <<main, current, object, socket, running>>

Next == Main \/ \E i \in Ids : Thread(i) \/ Arrive(i)

FairSpec ==
  Init /\ [][Next]_vars /\ WF_vars(Main) /\ \A i \in Ids : WF_vars(Thread(i))

------------------------------------------------------------------------------
(***************************************************************************)
(* receiver.cpp:38: "close the socket first, to wake the recv() that        *)
(* blocks".  So join() returns, and main() can say that the initialisation  *)
(* failed and return 1 (main.cpp:50-57).                                    *)
(***************************************************************************)
CloseWakesReceiver == main = "join" ~> main # "join"
==============================================================================
