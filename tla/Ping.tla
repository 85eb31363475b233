---------------------------------- MODULE Ping ----------------------------------
(***************************************************************************)
(* network/ping/packet_ping2.c: one echo request, sent again when nothing  *)
(* recognised as a reply comes in time.  The socket it listens on gets     *)
(* every frame of the interface.                                           *)
(***************************************************************************)
EXTENDS Integers, Sequences, SequencesExt

CONSTANTS
  Payload,    \* what data may hold: the source is edited to change it
  TryLimit,   \* trylim, 3
  Timeout,    \* 2 s, in ticks of the clock
  MaxQueue    \* frames that the receiving socket holds; more are dropped

ASSUME PingAssumption ==
  /\ TryLimit \in Nat \ {0} /\ Payload \subseteq Seq(0..255)

VARIABLES
  stage,      \* a step of the setup, "send", "receive", "close" or "exited"
  outcome,    \* "none", "reply", "silence" or "failure"
  frame,      \* send_ether_frame: the IPv4 header and the ICMP message
  requests,   \* history: frames sent, counted up to TryLimit + 1
  trycount,
  waited,     \* ticks since the running recvfrom was called
  queue,      \* frames in the receiving socket
  heard       \* history: an echo reply came into the queue

pingVars ==
  <<stage, outcome, frame, requests, trycount, waited, queue, heard>>

Setup == <<"allocate", "interface", "resolve", "headers", "receiver">>

PingInit ==
  /\ stage = "allocate" /\ outcome = "none"
  /\ frame = [header |-> <<>>, message |-> <<>>]
  /\ requests = 0 /\ trycount = 0 /\ waited = 0
  /\ queue = <<>> /\ heard = FALSE

(* A message is a sequence of bytes.  The machine's words have their low   *)
(* byte first; an odd last byte is a word of its own.                      *)
Sum16(bytes) ==
  LET Sum[n \in 0..Len(bytes)] ==
        IF n = 0 THEN 0
        ELSE Sum[n - 1] + (IF n % 2 = 1 THEN bytes[n] ELSE 256 * bytes[n])
  IN Sum[Len(bytes)]

Folded[sum \in Nat] ==
  IF sum >= 2^16 THEN Folded[(sum % 2^16) + (sum \div 2^16)] ELSE sum

(* mutant: the carries are dropped and not added again *)
checksum_truncated(bytes) == 2^16 - 1 - (Sum16(bytes) % 2^16)

checksum(bytes) == 2^16 - 1 - Folded[Sum16(bytes)]

(* The two bytes from n on are filled with the checksum, once they are 0.  *)
WithChecksum(bytes, n) ==
  LET sum == checksum(bytes)
  IN [bytes EXCEPT ![n] = sum % 256, ![n + 1] = sum \div 256]

(* The sum is taken over a copy that is padded to a whole word. *)
icmp4_checksum(icmphdr, payload) ==
  checksum(icmphdr \o payload \o [n \in 1..(Len(payload) % 2) |-> 0])

send_iphdr(datalen) ==
  LET total == 20 + 8 + datalen
  IN WithChecksum(<<69, 0, total \div 256, total % 256, 0, 0, 0, 0, 255, 1, 0, 0,
                    10, 10, 22, 65, 10, 10, 22, 60>>, 11)

send_icmphdr(data) ==
  LET icmphdr == <<8, 0, 0, 0, 3, 232, 0, 0>>
      sum == icmp4_checksum(icmphdr, data)
  IN [icmphdr EXCEPT ![3] = sum % 256, ![4] = sum \div 256]

(* Each step of the setup either works or ends the program. *)
Prepare(data) ==
  /\ \E n \in DOMAIN Setup :
       /\ stage = Setup[n]
       /\ stage' = IF n = Len(Setup) THEN "send" ELSE Setup[n + 1]
  /\ frame' = IF stage = "headers"
              THEN [header |-> send_iphdr(Len(data)),
                    message |-> send_icmphdr(data) \o data]
              ELSE frame
  /\ UNCHANGED <<outcome, requests, trycount, waited, queue, heard>>

Fails ==
  /\ stage \in ToSet(Setup) \cup {"send", "receive"}
  /\ stage = "receive" => queue = <<>>
  /\ stage' = "exited" /\ outcome' = "failure"
  /\ UNCHANGED <<frame, requests, trycount, waited, queue, heard>>

(* The receiving socket is open from before the first request on.  A frame *)
(* has the parts the program looks at.                                     *)
Frame ==
  [ethertype : {"ip", "arp"}, protocol : {"icmp", "udp"},
   type : {"request", "reply"}, code : {0, 1}]

IsEchoReply(f) ==
  /\ f.ethertype = "ip" /\ f.protocol = "icmp"
  /\ f.type = "reply" /\ f.code = 0

Reply == [ethertype |-> "ip", protocol |-> "icmp", type |-> "reply", code |-> 0]

Send ==
  /\ stage = "send"
  /\ requests' = IF requests > TryLimit THEN requests ELSE requests + 1
  /\ waited' = 0
  /\ stage' = "receive"
  /\ UNCHANGED <<outcome, frame, trycount, queue, heard>>

(* The network: replies come late, twice or not at all, from the host that *)
(* was asked or from another one, and so does everything else.             *)
Arrives(f) ==
  /\ stage \in {"send", "receive"} /\ Len(queue) < MaxQueue
  /\ queue' = Append(queue, f)
  /\ heard' = (heard \/ f = Reply)
  /\ UNCHANGED <<stage, outcome, frame, requests, trycount, waited>>

Foreign == \E f \in Frame \ {Reply} : Arrives(f)

Tick ==
  /\ stage = "receive" /\ queue = <<>> /\ waited < Timeout
  /\ waited' = waited + 1
  /\ UNCHANGED <<stage, outcome, frame, requests, trycount, queue, heard>>

(* mutant: a timeout is not counted *)
TimesOutUncounted ==
  /\ stage = "receive" /\ queue = <<>> /\ waited = Timeout
  /\ stage' = "send"
  /\ UNCHANGED <<outcome, frame, requests, trycount, waited, queue, heard>>

TimesOut ==
  /\ stage = "receive" /\ queue = <<>> /\ waited = Timeout
  /\ trycount' = trycount + 1
  /\ IF trycount' = TryLimit
     THEN stage' = "close" /\ outcome' = "silence"
     ELSE stage' = "send" /\ UNCHANGED outcome
  /\ UNCHANGED <<frame, requests, waited, queue, heard>>

(* recvfrom is called again, and waits for the whole time again. *)
PingInterrupted ==
  /\ stage = "receive" /\ queue = <<>> /\ waited > 0
  /\ waited' = 0
  /\ UNCHANGED <<stage, outcome, frame, requests, trycount, queue, heard>>

Ignores ==
  /\ stage = "receive" /\ queue # <<>>
  /\ ~IsEchoReply(Head(queue))
  /\ queue' = Tail(queue)
  /\ waited' = 0
  /\ UNCHANGED <<stage, outcome, frame, requests, trycount, heard>>

(* Neither the sender nor the identifier nor the number is looked at. *)
Recognises ==
  /\ stage = "receive" /\ queue # <<>>
  /\ IsEchoReply(Head(queue))
  /\ queue' = Tail(queue)
  /\ stage' = "close" /\ outcome' = "reply"
  /\ UNCHANGED <<frame, requests, trycount, waited, heard>>

PingClose ==
  /\ stage = "close"
  /\ stage' = "exited"
  /\ UNCHANGED <<outcome, frame, requests, trycount, waited, queue, heard>>

PingProgram ==
  \/ \E data \in Payload : Prepare(data)
  \/ Send \/ TimesOut \/ Ignores \/ Recognises \/ PingClose

PingNext ==
  \/ PingProgram \/ Tick
  \/ Fails \/ PingInterrupted
  \/ \E f \in Frame : Arrives(f)

(* A host takes a message whose words, the checksum among them, add up to  *)
(* all ones with end-around carry.                                         *)
Verifies(bytes) == Folded[Sum16(bytes)] = 2^16 - 1

(* "Recognized no echo replies after 3 tries" (line 367) is said only when *)
(* that many requests went out, in a form that hosts accept (lines         *)
(* 395-476), and no echo reply had come in by the end of the last wait: a  *)
(* reply that is late for its own try is found by the next one.            *)
SilenceIsTrue ==
  outcome = "silence" =>
    /\ requests = TryLimit
    /\ Verifies(frame.header) /\ Verifies(frame.message)
    /\ ~heard

(* The program ends, by a reply or by its tries (lines 290-371).  Only     *)
(* frames it ignores, or signals, can keep it from that, and only if they  *)
(* never cease: each starts the wait of lines 304-307 anew.  So ping does  *)
(* not "keep at it for 'timeout' seconds" (line 313) where other traffic   *)
(* never pauses that long.                                                 *)
EndsUnlessBusy ==
  \/ []<><<Foreign>>_pingVars \/ []<><<PingInterrupted>>_pingVars
  \/ <>(stage = "exited")
================================================================================
