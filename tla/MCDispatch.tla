----------------------------- MODULE MCDispatch -----------------------------
(* Two accept threads, two clients, a limit of one and one client thread:   *)
(* enough for a full proxy, a queue, two clients let in by the same free    *)
(* place and read at once, and both loops of alloc_task.                    *)
EXTENDS Dispatch

(* A client that was written to a socket pair by its address is served or   *)
(* closed, however many arrive in one read.  One client stands for all:     *)
(* they differ in nothing.  (read_clientSocket)                             *)
HandedIsServed == IsServed(CHOOSE c \in Clients : TRUE)
=============================================================================
