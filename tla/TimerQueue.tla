------------------------------ MODULE TimerQueue ------------------------------
(***************************************************************************)
(* What the timer list of timer/list_timer.c promises its users, with no   *)
(* list, no lock and no threads: a queue of timers ordered by expiry, in   *)
(* which timers of equal expiry keep the order they were added in, and     *)
(* from which a timer is taken only once it has expired.                   *)
(***************************************************************************)
EXTENDS Integers, Sequences

CONSTANTS
  Offset,     \* what an adder may add to the clock: true_random() % 10
  MaxTime,    \* bound of the clock
  MaxTimers   \* bound of the number of timers ever added

VARIABLES
  queue,      \* the pending timers, as records [time, cb]
  taken,      \* callbacks of the timers taken out, not yet run
  log,        \* the callbacks that ran, in order
  now,        \* the clock, in seconds
  serial      \* how many timers were added: timer i carries callback i

vars == <<queue, taken, log, now, serial>>

Timer == [time : Int, cb : 1 .. MaxTimers]

Init ==
  /\ queue = <<>>
  /\ taken = {}
  /\ log = <<>>
  /\ now = 0
  /\ serial = 0

(* The new timer goes behind every timer that expires no later than it. *)
Add(t) ==
  /\ serial < MaxTimers
  /\ serial' = serial + 1
  /\ \E k \in 0 .. Len(queue) :
       /\ \A i \in 1 .. k : queue[i].time <= t
       /\ \A i \in k + 1 .. Len(queue) : queue[i].time > t
       /\ queue' = SubSeq(queue, 1, k) \o <<[time |-> t, cb |-> serial + 1]>>
                     \o SubSeq(queue, k + 1, Len(queue))
  /\ UNCHANGED <<taken, log, now>>

Take ==
  /\ queue # <<>>
  /\ Head(queue).time <= now
  /\ queue' = Tail(queue)
  /\ taken' = taken \cup {Head(queue).cb}
  /\ UNCHANGED <<log, now, serial>>

Fire(i) ==
  /\ i \in taken
  /\ taken' = taken \ {i}
  /\ log' = Append(log, i)
  /\ UNCHANGED <<queue, now, serial>>

Tick ==
  /\ now < MaxTime
  /\ now' = now + 1
  /\ UNCHANGED <<queue, taken, log, serial>>

Next ==
  \/ \E off \in Offset, back \in 0 .. MaxTime : Add(now - back + off)
  \/ Take
  \/ \E i \in taken : Fire(i)
  \/ Tick

Spec == Init /\ [][Next]_vars
===============================================================================
