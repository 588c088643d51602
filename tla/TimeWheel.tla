------------------------------ MODULE TimeWheel ------------------------------
(***************************************************************************)
(* The local timer of internal/timer/timer.go with the system clock:        *)
(* goroutines that call Schedule, the returned cancellation and Wake, and   *)
(* the goroutine in Run, which meet at the mutex, at the wake channel with  *)
(* one slot and at the timer Run sleeps on.                                 *)
(*                                                                         *)
(* A section under the mutex is one step.  The signal that Schedule and     *)
(* cancellation send after unlocking is another.                            *)
(***************************************************************************)
EXTENDS Integers

CONSTANTS
  Events,      \* the calls of Schedule
  MaxTime,     \* bound on the clock; no event is due later
  MaxSignals,  \* bound on callers between unlock and signal
  None         \* no event

VARIABLES
  event,     \* at, sequence and cancelled of every event
  events,    \* those in the heap (index >= 0)
  sequence,  \* calls of Schedule so far
  wake,      \* the token in the wake channel
  signals,   \* callers that have changed the heap and not yet signalled
  run,       \* Run: program point, next, what is left of its timer
  done,      \* ctx.Done()
  ran,       \* events whose callback was called
  now

vars == <<event, events, sequence, wake, signals, run, done, ran, now>>

ASSUME WheelAssumption ==
  /\ MaxTime \in Nat
  /\ MaxSignals \in Nat
  /\ None \notin Events

Points == {"scan", "idle", "arm", "sleep", "pop", "call", "ended"}

WheelTypeOK ==
  /\ event \in [Events -> [at : 0 .. MaxTime, sequence : Nat, cancelled : BOOLEAN]]
  /\ events \in SUBSET Events
  /\ sequence \in Nat
  /\ wake \in BOOLEAN
  /\ signals \in 0 .. MaxSignals
  /\ run \in [at : Points, next : Events \cup {None}, left : 0 .. MaxTime]
  /\ done \in BOOLEAN
  /\ ran \in SUBSET Events
  /\ now \in 0 .. MaxTime

NewWithClock ==
  /\ event = [e \in Events |-> [at |-> 0, sequence |-> 0, cancelled |-> FALSE]]
  /\ events = {}
  /\ sequence = 0
  /\ wake = FALSE
  /\ signals = 0
  /\ run = [at |-> "scan", next |-> None, left |-> 0]
  /\ done = FALSE
  /\ ran = {}
  /\ now = 0

\* The order of the heap.
Less(d, e) ==
  \/ event[d].at < event[e].at
  \/ event[d].at = event[e].at /\ event[d].sequence < event[e].sequence

First(e) == \A d \in events \ {e} : Less(e, d)

-----------------------------------------------------------------------------
(* The callers *)

Unlock == signals < MaxSignals /\ signals' = signals + 1

\* Mutant: Run is not told of the new event.
ScheduleSilent(e, time) ==
  /\ event[e].sequence = 0
  /\ sequence' = sequence + 1
  /\ event' = [event EXCEPT ![e] = [at |-> time, sequence |-> sequence + 1,
                                    cancelled |-> FALSE]]
  /\ events' = events \cup {e}
  /\ UNCHANGED <<wake, signals, run, done, ran, now>>

Schedule(e, time) ==
  /\ event[e].sequence = 0
  /\ sequence' = sequence + 1
  /\ event' = [event EXCEPT ![e] = [at |-> time, sequence |-> sequence + 1,
                                    cancelled |-> FALSE]]
  /\ events' = events \cup {e}
  /\ Unlock
  /\ UNCHANGED <<wake, run, done, ran, now>>

\* The function that Schedule returned; it may be called again and late.
cancel(e) ==
  /\ event[e].sequence > 0
  /\ event' = IF e \in events THEN [event EXCEPT ![e].cancelled = TRUE]
                              ELSE event
  /\ Unlock
  /\ UNCHANGED <<events, sequence, wake, run, done, ran, now>>

\* A send that gives up when the slot is taken.
signal ==
  /\ signals > 0 /\ signals' = signals - 1
  /\ wake' = TRUE
  /\ UNCHANGED <<event, events, sequence, run, done, ran, now>>

Wake ==
  /\ wake' = TRUE
  /\ UNCHANGED <<event, events, sequence, signals, run, done, ran, now>>

Stop ==
  /\ done' = TRUE
  /\ UNCHANGED <<event, events, sequence, wake, signals, run, ran, now>>

-----------------------------------------------------------------------------
(* Run *)

Goto(point) == run' = [run EXCEPT !.at = point]

\* Mutant: an event that is overdue gives a negative wait.
ScanOverdue ==
  /\ run.at = "scan"
  /\ events' = {e \in events : \E d \in events :
                                 /\ ~ event[d].cancelled
                                 /\ d = e \/ Less(d, e)}
  /\ \/ events' = {} /\ Goto("idle")
     \/ \E e \in events' :
          /\ \A d \in events' \ {e} : Less(e, d)
          /\ run' = [at |-> "arm", next |-> e, left |-> event[e].at - now]
  /\ UNCHANGED <<event, sequence, wake, signals, done, ran, now>>

\* Cancelled events leave the heap when they come first; then the wait for the
\* next event is computed, all under the mutex.
Scan ==
  /\ run.at = "scan"
  /\ events' = {e \in events : \E d \in events :
                                 /\ ~ event[d].cancelled
                                 /\ d = e \/ Less(d, e)}
  /\ \/ events' = {} /\ Goto("idle")
     \/ \E e \in events' :
          /\ \A d \in events' \ {e} : Less(e, d)
          /\ run' = [at |-> "arm", next |-> e,
                     left |-> IF event[e].at < now THEN 0 ELSE event[e].at - now]
  /\ UNCHANGED <<event, sequence, wake, signals, done, ran, now>>

\* The timer is made after the mutex was released.
NewTimer ==
  /\ run.at = "arm" /\ Goto("sleep")
  /\ UNCHANGED <<event, events, sequence, wake, signals, done, ran, now>>

Woken ==
  /\ run.at \in {"idle", "sleep"} /\ wake
  /\ wake' = FALSE /\ Goto("scan")
  /\ UNCHANGED <<event, events, sequence, signals, done, ran, now>>

\* Mutant: the timer is taken for a wake-up.
TimerFiresRescan ==
  /\ run.at = "sleep" /\ run.left = 0 /\ Goto("scan")
  /\ UNCHANGED <<event, events, sequence, wake, signals, done, ran, now>>

TimerFires ==
  /\ run.at = "sleep" /\ run.left = 0 /\ Goto("pop")
  /\ UNCHANGED <<event, events, sequence, wake, signals, done, ran, now>>

\* Mutant: the wait for a first event does not watch the context.
ReturnAsleep ==
  /\ run.at = "sleep" /\ done
  /\ Goto("ended")
  /\ UNCHANGED <<event, events, sequence, wake, signals, done, ran, now>>

Return ==
  /\ run.at \in {"idle", "sleep"} /\ done
  /\ Goto("ended")
  /\ UNCHANGED <<event, events, sequence, wake, signals, done, ran, now>>

\* Mutant: the event Run slept for is taken, whatever came first meanwhile.
PopNext ==
  /\ run.at = "pop"
  /\ events' = events \ {run.next}
  /\ IF event[run.next].cancelled
     THEN Goto("scan") /\ UNCHANGED ran
     ELSE Goto("call") /\ ran' = ran \cup {run.next}
  /\ UNCHANGED <<event, sequence, wake, signals, done, now>>

\* The first event is taken, which need not be the one Run slept for.
Pop ==
  /\ run.at = "pop"
  /\ IF events = {}
     THEN Goto("scan") /\ UNCHANGED <<events, ran>>
     ELSE \E e \in events :
            /\ First(e)
            /\ events' = events \ {e}
            /\ IF event[e].cancelled
               THEN Goto("scan") /\ UNCHANGED ran
               ELSE Goto("call") /\ ran' = ran \cup {e}
  /\ UNCHANGED <<event, sequence, wake, signals, done, now>>

\* Callbacks run one after the other, in the goroutine of Run.
CallbackReturns ==
  /\ run.at = "call" /\ Goto("scan")
  /\ UNCHANGED <<event, events, sequence, wake, signals, done, ran, now>>

Run ==
  \/ Scan
  \/ NewTimer
  \/ Woken
  \/ TimerFires
  \/ Return
  \/ Pop
  \/ CallbackReturns

\* Time goes on; beyond MaxTime, when every event is due, only for the timer.
Tick ==
  /\ now' = IF now < MaxTime THEN now + 1 ELSE now
  /\ run' = IF run.at = "sleep" /\ run.left > 0
            THEN [run EXCEPT !.left = @ - 1] ELSE run
  /\ UNCHANGED <<event, events, sequence, wake, signals, done, ran>>

WheelNext ==
  \/ \E e \in Events : (\E time \in 0 .. MaxTime : Schedule(e, time)) \/ cancel(e)
  \/ signal
  \/ Wake
  \/ Stop
  \/ Run
  \/ Tick

WheelSpec == NewWithClock /\ [][WheelNext]_vars

\* Goroutines that can run do run, time passes, and the select of Run, which
\* chooses at random, does not overlook the timer or the context for ever.
WheelLiveSpec ==
  /\ WheelSpec
  /\ WF_vars(Run) /\ WF_vars(signal) /\ WF_vars(Tick)
  /\ SF_vars(TimerFires) /\ SF_vars(Return)

-----------------------------------------------------------------------------
(* Properties *)

\* No wake-up is lost: when Run waits although an event is due before the one
\* it waits for, a token is in the channel or a caller is about to send one.
\* (Schedule changes the heap and signals in two steps, Run reads the heap and
\* goes to sleep in two, and the channel drops signals.)
NeverOversleeps ==
  run.at \in {"idle", "arm", "sleep"} =>
    \A e \in events :
      ~ event[e].cancelled /\ (run.at = "idle" \/ Less(e, run.next)) =>
        wake \/ signals > 0

Contract ==
  INSTANCE TimerContract WITH
    status <- [e \in Events |->
                 IF e \in ran THEN "ran"
                 ELSE IF event[e].cancelled THEN "cancelled"
                 ELSE IF e \in events THEN "queued" ELSE "new"],
    at <- [e \in Events |-> event[e].at],
    order <- [e \in Events |-> event[e].sequence],
    calls <- sequence

\* Callbacks run once, in order, not early and not after a cancellation that
\* found them queued, although the event that is popped may have been added or
\* cancelled while Run slept for another one.
ImplementsTimer == Contract!ContractSpec

\* Every event is run or cancelled in the end, unless Run is told to return.
EveryEventRuns ==
  \A e \in Events :
    e \in events ~> (e \in ran \/ event[e].cancelled \/ done)

\* Run returns after its context is cancelled, however many events are queued
\* and however often it is woken.
RunReturns == done ~> run.at = "ended"
=============================================================================
