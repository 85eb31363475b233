------------------------------- MODULE MCWaiting -------------------------------
(***************************************************************************)
(* The programs that wait, under the fairness their scheduling justifies:  *)
(* ping, the port probe, the eventfd example, the timers and the echo      *)
(* server.  A behaviour runs one of them, and the others never start.  The *)
(* timers and the server are those of ListTimer and EchoServer, with their *)
(* variables renamed.                                                      *)
(***************************************************************************)
EXTENDS EventFd, Ping, Probe, TLC

(* "Test", as the source has it, and data of odd length with all bits set. *)
Payloads == {<<84, 101, 115, 116>>, <<255, 255, 255>>}

ASSUME WaitingAssumption == {Timeout, MaxQueue, MaxCount} \subseteq Nat \ {0}

CONSTANTS
  Adder, Reader, Offset, MaxTime, MaxTimers,      \* of ListTimer
  Lengths, EAGAIN, BufSize, MaxBytes, MaxFd       \* of EchoServer

VARIABLES
  program,
  first, next, time, cb, alloc, mutex, thread, node, new, now, serial, log,
  conn, free, free_n, sock, backlog, epoll, rdllist, events, server, cur, n, lost

timerVars ==
  <<first, next, time, cb, alloc, mutex, thread, node, new, now, serial, log>>
echoVars ==
  <<conn, free, free_n, sock, backlog, epoll, rdllist, events, server, cur, n, lost>>

T == INSTANCE ListTimer WITH
       Node <- {"n1", "n2"}, NULL <- "null", NoThread <- "none", pc <- thread

(* Orderly clients, and calls that do not fail. *)
Clients == <<"x1", "x2", "x3">>
E == INSTANCE EchoServer WITH
       Client <- {"x1", "x2", "x3"}, Conn <- {"c1", "c2"}, Listener <- "listener", None <- "none",
       Failures <- {}, Junk <- {"clean"}, SlowClients <- FALSE, Orderly <- TRUE,
       pc <- server, batch <- events

WaitingVars == <<program, pingVars, probeVars, efdVars, timerVars, echoVars>>

WaitingInit ==
  /\ program \in {"ping", "probe", "eventfd", "timer", "echo"}
  /\ PingInit /\ ProbeInit /\ EfdInit /\ T!Init /\ E!Init
  /\ program # "eventfd" => rereads
  /\ program # "echo" => free[1] = "c1"

OnlyPing ==
  program = "ping" /\ UNCHANGED <<program, probeVars, efdVars, timerVars, echoVars>>
OnlyProbe ==
  program = "probe" /\ UNCHANGED <<program, pingVars, efdVars, timerVars, echoVars>>
OnlyEventFd ==
  program = "eventfd" /\ UNCHANGED <<program, pingVars, probeVars, timerVars, echoVars>>
OnlyTimer ==
  program = "timer" /\ UNCHANGED <<program, pingVars, probeVars, efdVars, echoVars>>
OnlyEcho ==
  program = "echo" /\ UNCHANGED <<program, pingVars, probeVars, efdVars, timerVars>>

(* Clients are alike: it is enough that they connect in the order of their *)
(* names, and that the pool starts with one of its entries.                *)
InTurn ==
  \A i \in 2 .. Len(Clients) :
    sock[Clients[i]].state # "none" => sock[Clients[i - 1]].state # "none"

WaitingNext ==
  \/ PingNext /\ OnlyPing
  \/ ProbeNext /\ OnlyProbe
  \/ EfdNext /\ OnlyEventFd
  \/ T!Next /\ OnlyTimer
  \/ E!Next /\ OnlyEcho /\ InTurn'

(* Processes and threads that run keep running, and time passes.  Neither  *)
(* network nor clients nor signals need ever come, main of the eventfd     *)
(* example need not write, and no adder need add.  One of the readers that *)
(* keep coming back to the timers' mutex gets it in the end.               *)
WaitingSpec ==
  /\ WaitingInit /\ [][WaitingNext]_WaitingVars
  /\ WF_WaitingVars(PingProgram /\ OnlyPing)
  /\ WF_WaitingVars(Tick /\ OnlyPing)
  /\ WF_WaitingVars(received_routine /\ OnlyEventFd)
  /\ WF_WaitingVars(T!Tick /\ OnlyTimer)
  /\ \A a \in Adder : WF_WaitingVars(T!AdderStep(a) /\ OnlyTimer)
  /\ \A r \in Reader : WF_WaitingVars(T!ReaderStep(r) /\ OnlyTimer)
  /\ SF_WaitingVars((\E r \in Reader : T!ReadLock(r)) /\ OnlyTimer)
  /\ WF_WaitingVars(E!Server /\ OnlyEcho)

(* Each of one program, in the behaviours that run it; they are explained  *)
(* in its module.                                                          *)
PingEnds == program = "ping" => EndsUnlessBusy
EveryTimerFires == program = "timer" => T!EveryTimerFires
ClientsServed == program = "echo" => E!ClientsServed
================================================================================
