-------------------------------- MODULE EventFd --------------------------------
(***************************************************************************)
(* The two threads of other/eventfd/eventfd.c: main writes to an eventfd,  *)
(* received_routine reads it after an edge-triggered epoll_wait.           *)
(***************************************************************************)
EXTENDS Integers

CONSTANT MaxCount   \* the largest count an eventfd holds, 2^64 - 2

VARIABLES
  start_flag, rereads,  \* the shared int; whether main's loop reads it again
  counter, edge,        \* the eventfd, and its place in epoll's ready list
  reader,               \* "start", "mark", "wait", "read" or "exited"
  writer                \* "look", "write", "sleep", "stuck" or "exited"

efdVars == <<start_flag, rereads, counter, edge, reader, writer>>

(* start_flag is neither atomic nor locked: a compiler may read it once    *)
(* before the loop, or in every round.                                     *)
EfdInit ==
  /\ start_flag = 0 /\ rereads \in BOOLEAN
  /\ counter = 0 /\ edge = FALSE
  /\ reader = "start" /\ writer = "look"

(* received_routine.  A failure to set up ends the process. *)
echo_epoll_init ==
  /\ reader = "start"
  /\ \/ reader' = "mark" /\ UNCHANGED writer
     \/ reader' = "exited" /\ writer' = "exited"
  /\ UNCHANGED <<start_flag, rereads, counter, edge>>

MarkStarted ==
  /\ reader = "mark"
  /\ start_flag' = 1
  /\ reader' = "wait"
  /\ UNCHANGED <<rereads, counter, edge, writer>>

(* epoll_wait takes the descriptor off the ready list and reports it if    *)
(* there is something to read; it may be there for what was read before.   *)
EpollWait ==
  /\ reader = "wait" /\ edge
  /\ edge' = FALSE
  /\ reader' = IF counter > 0 THEN "read" ELSE "wait"
  /\ UNCHANGED <<start_flag, rereads, counter, writer>>

(* mutant: an interrupted epoll_wait is an error, as a silent one is *)
InterruptedLeaves ==
  /\ reader = "wait" /\ ~edge
  /\ reader' = "exited"
  /\ UNCHANGED <<start_flag, rereads, counter, edge, writer>>

(* A signal makes epoll_wait return -1: no event, and no error either. *)
Interrupted ==
  /\ reader = "wait" /\ ~edge
  /\ reader' = "mark"
  /\ UNCHANGED <<start_flag, rereads, counter, edge, writer>>

(* mutant: the eventfd counts down, as with EFD_SEMAPHORE *)
ReadOne ==
  /\ reader = "read"
  /\ counter' = IF counter > 0 THEN counter - 1 ELSE counter
  /\ reader' = "mark"
  /\ UNCHANGED <<start_flag, rereads, edge, writer>>

(* eventfd_read, whose result is not looked at. *)
ReadEvent ==
  /\ reader = "read"
  /\ counter' = 0
  /\ reader' = "mark"
  /\ UNCHANGED <<start_flag, rereads, edge, writer>>

(* The loop of main. *)
SeesFlag ==
  /\ writer = "look" /\ start_flag = 1
  /\ writer' = "write"
  /\ UNCHANGED <<start_flag, rereads, counter, edge, reader>>

SpinsForEver ==
  /\ writer = "look" /\ start_flag = 0 /\ ~rereads
  /\ writer' = "stuck"
  /\ UNCHANGED <<start_flag, rereads, counter, edge, reader>>

(* A full counter refuses the write, which is reported and forgotten. *)
Write ==
  /\ writer = "write"
  /\ IF counter < MaxCount
     THEN counter' = counter + 1 /\ edge' = TRUE
     ELSE UNCHANGED <<counter, edge>>
  /\ writer' = "sleep"
  /\ UNCHANGED <<start_flag, rereads, reader>>

WakesUp ==
  /\ writer = "sleep"
  /\ writer' = "look"
  /\ UNCHANGED <<start_flag, rereads, counter, edge, reader>>

received_routine ==
  echo_epoll_init \/ MarkStarted \/ EpollWait \/ ReadEvent

main == SeesFlag \/ SpinsForEver \/ Write \/ WakesUp

EfdNext == received_routine \/ Interrupted \/ main

EfdTypeOK ==
  /\ start_flag \in {0, 1} /\ rereads \in BOOLEAN
  /\ counter \in 0..MaxCount /\ edge \in BOOLEAN
  /\ reader \in {"start", "mark", "wait", "read", "exited"}
  /\ writer \in {"look", "write", "sleep", "stuck", "exited"}

(* The edge is reported once (line 35), so what is counted either has its  *)
(* wake-up on the ready list or is about to be read.  And eventfd_read     *)
(* finds a count: its result is not checked, and the value printed would   *)
(* be an uninitialised one (lines 89-91).                                  *)
WakeupsExact ==
  /\ counter > 0 => edge \/ reader = "read"
  /\ reader = "read" => counter > 0

(* Whatever main writes is read in the end, even while it writes on and    *)
(* signals interrupt the wait (lines 72-94, 131-137).                      *)
EveryWriteRead == counter > 0 ~> counter = 0
================================================================================
