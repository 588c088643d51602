--------------------------- MODULE TimeWheelProofs ---------------------------
(***************************************************************************)
(* The timer keeps its contract for any number of events, callers and       *)
(* times.                                                                   *)
(*                                                                         *)
(* Run pops the first event without looking at the clock again.  That it is *)
(* due rests on Asleep: the event Run slept for stays in the heap, since    *)
(* only Run removes events, and the first one is not later.                 *)
(***************************************************************************)
EXTENDS TimeWheel, TLAPS

\* What was never scheduled is nowhere; what ran is not in the heap.
Known ==
  \A e \in Events :
    /\ e \in events \/ e \in ran \/ event[e].cancelled => event[e].sequence > 0
    /\ e \in ran => e \notin events /\ ~ event[e].cancelled

Asleep ==
  /\ run.at \in {"arm", "sleep", "pop"} => run.next \in events
  /\ run.at \in {"arm", "sleep"} => event[run.next].at <= now + run.left
  /\ run.at = "pop" => event[run.next].at <= now

WheelInv == WheelTypeOK /\ Known /\ Asleep /\ NeverOversleeps

\* A new timer satisfies the invariant.
LEMMA WheelBegins == NewWithClock => WheelInv
<1> SUFFICES ASSUME NewWithClock PROVE WheelInv
  OBVIOUS
<1>1. WheelTypeOK
  <2>1. 0 \in 0 .. MaxTime /\ 0 \in 0 .. MaxSignals /\ 0 \in Nat
    BY WheelAssumption
  <2>2. run \in [at : Points, next : Events \cup {None}, left : 0 .. MaxTime]
    BY <2>1 DEF NewWithClock, Points
  <2>3. event \in [Events -> [at : 0 .. MaxTime, sequence : Nat, cancelled : BOOLEAN]]
    BY <2>1 DEF NewWithClock
  <2> QED BY <2>1, <2>2, <2>3, Zenon DEF NewWithClock, WheelTypeOK
<1>2. Known
  BY DEF NewWithClock, Known
<1>3. run.at = "scan"
  BY DEF NewWithClock
<1> QED BY <1>1, <1>2, <1>3 DEF WheelInv, Asleep, NeverOversleeps

\* Schedule adds an event that Run does not know, and will signal.
LEMMA ScheduleKeeps ==
  ASSUME WheelInv, NEW e \in Events, NEW time \in 0 .. MaxTime, Schedule(e, time)
  PROVE WheelInv'
<1>1. /\ WheelTypeOK /\ Known /\ Asleep
      /\ run' = run /\ ran' = ran /\ now' = now /\ wake' = wake /\ done' = done
      /\ signals' = signals + 1 /\ signals < MaxSignals
      /\ events' = events \cup {e} /\ sequence' = sequence + 1
      /\ event[e].sequence = 0
  BY DEF WheelInv, Schedule, Unlock
<1>2. /\ \A d \in Events \ {e} : event'[d] = event[d]
      /\ event'[e] = [at |-> time, sequence |-> sequence + 1, cancelled |-> FALSE]
      /\ sequence \in Nat
      /\ event' \in [Events -> [at : 0 .. MaxTime, sequence : Nat, cancelled : BOOLEAN]]
  BY <1>1 DEF Schedule, WheelTypeOK
<1>3. WheelTypeOK'
  BY <1>1, <1>2, WheelAssumption DEF WheelTypeOK
<1>4. e \notin events /\ e \notin ran
  BY <1>1 DEF Known
<1>5. Known'
  BY <1>1, <1>2, <1>4 DEF Known, WheelTypeOK
<1>6. Asleep'
  <2>1. run.at \in {"arm", "sleep", "pop"} => run.next \in Events \ {e}
    BY <1>1, <1>4 DEF Asleep, WheelTypeOK
  <2> QED BY <1>1, <1>2, <2>1 DEF Asleep
<1>7. signals' > 0
  BY <1>1 DEF WheelTypeOK
<1> QED BY <1>3, <1>5, <1>6, <1>7 DEF WheelInv, NeverOversleeps

\* Cancellation marks its event if it is in the heap, and nothing else.
LEMMA CancelChanges ==
  ASSUME WheelTypeOK, NEW e \in Events, cancel(e)
  PROVE /\ event' \in [Events -> [at : 0 .. MaxTime, sequence : Nat, cancelled : BOOLEAN]]
        /\ \A d \in Events : /\ event'[d].at = event[d].at
                             /\ event'[d].sequence = event[d].sequence
                             /\ d # e \/ d \notin events =>
                                  event'[d].cancelled = event[d].cancelled
        /\ e \in events => event'[e].cancelled
<1>1. CASE e \in events
  <2>1. event' = [event EXCEPT ![e].cancelled = TRUE]
    BY <1>1 DEF cancel
  <2> QED BY <1>1, <2>1, Zenon DEF WheelTypeOK
<1>2. CASE e \notin events
  BY <1>2 DEF cancel, WheelTypeOK
<1> QED BY <1>1, <1>2

\* Cancellation keeps the invariant.
LEMMA CancelKeeps ==
  ASSUME WheelInv, NEW e \in Events, cancel(e)
  PROVE WheelInv'
<1>1. /\ WheelTypeOK /\ Known /\ Asleep
      /\ run' = run /\ ran' = ran /\ now' = now /\ wake' = wake /\ done' = done
      /\ signals' = signals + 1 /\ signals < MaxSignals
      /\ events' = events /\ sequence' = sequence
      /\ event[e].sequence > 0
  BY DEF WheelInv, cancel, Unlock
<1>2. /\ event' \in [Events -> [at : 0 .. MaxTime, sequence : Nat, cancelled : BOOLEAN]]
      /\ \A d \in Events : /\ event'[d].at = event[d].at
                           /\ event'[d].sequence = event[d].sequence
                           /\ d # e \/ d \notin events =>
                                event'[d].cancelled = event[d].cancelled
  BY <1>1, CancelChanges
<1>3. WheelTypeOK'
  BY <1>1, <1>2, WheelAssumption DEF WheelTypeOK
<1>4. Known'
  BY <1>1, <1>2 DEF Known
<1>5. Asleep'
  <2>1. run.at \in {"arm", "sleep", "pop"} => run.next \in Events
    BY <1>1 DEF Asleep, WheelTypeOK
  <2> QED BY <1>1, <1>2, <2>1 DEF Asleep
<1>6. signals' > 0
  BY <1>1 DEF WheelTypeOK
<1> QED BY <1>3, <1>4, <1>5, <1>6 DEF WheelInv, NeverOversleeps

\* The steps of callers that touch the channel or the context only.
LEMMA SignalKeeps ==
  ASSUME WheelInv, signal \/ Wake \/ Stop
  PROVE WheelInv'
<1>1. /\ UNCHANGED <<event, events, sequence, run, ran, now>>
      /\ wake' \in BOOLEAN /\ done' \in BOOLEAN /\ signals' \in 0 .. MaxSignals
      /\ wake' \/ (wake' = wake /\ signals' = signals)
  <2>1. WheelTypeOK
    BY DEF WheelInv
  <2>2. CASE signal
    BY <2>1, <2>2, WheelAssumption DEF signal, WheelTypeOK
  <2>3. CASE Wake
    BY <2>1, <2>3 DEF Wake, WheelTypeOK
  <2>4. CASE Stop
    BY <2>1, <2>4 DEF Stop, WheelTypeOK
  <2> QED BY <2>2, <2>3, <2>4
<1>2. WheelTypeOK' /\ Known' /\ Asleep'
  BY <1>1 DEF WheelInv, WheelTypeOK, Known, Asleep
<1>3. NeverOversleeps'
  BY <1>1 DEF WheelInv, NeverOversleeps, Less
<1> QED BY <1>2, <1>3 DEF WheelInv

\* Run looks at the heap and decides how long to sleep.
LEMMA ScanKeeps ==
  ASSUME WheelInv, Scan
  PROVE WheelInv'
<1>1. /\ WheelTypeOK /\ Known
      /\ UNCHANGED <<event, sequence, wake, signals, done, ran, now>>
      /\ events' \subseteq events
  BY DEF WheelInv, Scan
<1>2. Known'
  BY <1>1 DEF Known, WheelTypeOK
<1>3. CASE events' = {} /\ Goto("idle")
  <2>1. run' \in [at : Points, next : Events \cup {None}, left : 0 .. MaxTime]
        /\ run'.at = "idle"
    BY <1>1, <1>3 DEF Goto, WheelTypeOK, Points
  <2> QED BY <1>1, <1>2, <1>3, <2>1
        DEF WheelInv, WheelTypeOK, Asleep, NeverOversleeps
<1>4. ASSUME NEW e \in events', \A d \in events' \ {e} : Less(e, d),
             run' = [at |-> "arm", next |-> e,
                     left |-> IF event[e].at < now THEN 0 ELSE event[e].at - now]
      PROVE WheelInv'
  <2>1. e \in Events /\ event[e].at \in 0 .. MaxTime /\ now \in 0 .. MaxTime
    BY <1>1 DEF WheelTypeOK
  <2>2. PICK l \in 0 .. MaxTime :
          /\ l = IF event[e].at < now THEN 0 ELSE event[e].at - now
          /\ event[e].at <= now + l
    <3>1. CASE event[e].at < now
      BY <2>1, <3>1, WheelAssumption
    <3>2. CASE ~(event[e].at < now)
      BY <2>1, <3>2, WheelAssumption
    <3> QED BY <3>1, <3>2
  <2>3. run' = [at |-> "arm", next |-> e, left |-> l]
    BY <1>4, <2>2
  <2>4. WheelTypeOK'
    BY <1>1, <2>1, <2>3 DEF WheelTypeOK, Points
  <2>5. Asleep'
    BY <1>1, <2>2, <2>3 DEF Asleep
  <2>6. \A d \in events' : ~ Less(d, e)
    BY <1>1, <1>4, <2>1 DEF Less, WheelTypeOK
  <2>7. NeverOversleeps'
    BY <1>1, <2>3, <2>6 DEF NeverOversleeps, Less
  <2> QED BY <1>2, <2>4, <2>5, <2>7 DEF WheelInv
<1> QED BY <1>3, <1>4 DEF Scan

\* Pop keeps the invariant: Run no longer waits for an event.
LEMMA PopKeeps ==
  ASSUME WheelInv, Pop
  PROVE WheelInv'
<1>1. /\ WheelTypeOK /\ Known
      /\ UNCHANGED <<event, sequence, wake, signals, done, now>>
  BY DEF WheelInv, Pop
<1>2. /\ run' \in [at : Points, next : Events \cup {None}, left : 0 .. MaxTime]
      /\ run'.at \in {"scan", "call"}
  BY <1>1 DEF Pop, Goto, WheelTypeOK, Points
<1>3. \/ events' = events /\ ran' = ran
      \/ \E e \in events : /\ events' = events \ {e}
                           /\ ran' = ran \/ (ran' = ran \cup {e} /\ ~ event[e].cancelled)
  BY DEF Pop
<1>4. WheelTypeOK' /\ Known'
  BY <1>1, <1>2, <1>3 DEF WheelTypeOK, Known
<1> QED BY <1>2, <1>4 DEF WheelInv, Asleep, NeverOversleeps

\* The other steps of Run change its program point only.
LEMMA RunKeeps ==
  ASSUME WheelInv, NewTimer \/ Woken \/ TimerFires \/ Return \/ CallbackReturns
  PROVE WheelInv'
<1>1. /\ WheelTypeOK /\ Known /\ Asleep /\ NeverOversleeps
      /\ UNCHANGED <<event, events, sequence, signals, done, ran, now>>
      /\ wake' \in BOOLEAN
  BY Zenon
     DEF WheelInv, WheelTypeOK, NewTimer, Woken, TimerFires, Return,
         CallbackReturns
<1>2. /\ run' \in [at : Points, next : Events \cup {None}, left : 0 .. MaxTime]
      /\ run'.next = run.next /\ run'.left = run.left
      /\ \/ run.at = "arm" /\ run'.at = "sleep" /\ wake' = wake
         \/ run.at = "sleep" /\ run.left = 0 /\ run'.at = "pop"
         \/ run'.at \in {"scan", "ended"}
  BY <1>1 DEF NewTimer, Woken, TimerFires, Return, CallbackReturns, Goto,
              WheelTypeOK, Points
<1>3. WheelTypeOK' /\ Known'
  BY <1>1, <1>2 DEF WheelTypeOK, Known
<1>4. Asleep'
  <2>1. now \in Nat /\ (run.at \in {"arm", "sleep"} => event[run.next].at \in Nat)
    BY <1>1 DEF WheelTypeOK, Asleep
  <2> QED BY <1>1, <1>2, <2>1 DEF Asleep
<1>5. NeverOversleeps'
  BY <1>1, <1>2 DEF NeverOversleeps, Less
<1> QED BY <1>3, <1>4, <1>5 DEF WheelInv

\* Time keeps the invariant: the clock and the timer advance together.
LEMMA TickKeeps ==
  ASSUME WheelInv, Tick
  PROVE WheelInv'
<1>1. /\ WheelTypeOK /\ Known /\ Asleep /\ NeverOversleeps
      /\ UNCHANGED <<event, events, sequence, wake, signals, done, ran>>
  BY DEF WheelInv, Tick
<1>2. now \in 0 .. MaxTime /\ now' \in 0 .. MaxTime
      /\ now' = IF now < MaxTime THEN now + 1 ELSE now
  BY <1>1, WheelAssumption DEF Tick, WheelTypeOK
<1>3. /\ run' \in [at : Points, next : Events \cup {None}, left : 0 .. MaxTime]
      /\ run'.at = run.at /\ run'.next = run.next
      /\ \/ run'.left = run.left
         \/ run'.left = run.left - 1 /\ run.at = "sleep"
      /\ run.left \in 0 .. MaxTime
  <2>1. CASE run.at = "sleep" /\ run.left > 0
    BY <1>1, <2>1, WheelAssumption DEF Tick, WheelTypeOK
  <2>2. CASE ~(run.at = "sleep" /\ run.left > 0)
    BY <1>1, <2>2 DEF Tick, WheelTypeOK
  <2> QED BY <2>1, <2>2
<1>4. WheelTypeOK' /\ Known'
  BY <1>1, <1>2, <1>3 DEF WheelTypeOK, Known
<1>5. Asleep'
  <2>1. run.at \in {"arm", "sleep", "pop"} => event[run.next].at \in 0 .. MaxTime
    BY <1>1 DEF WheelTypeOK, Asleep
  <2> QED BY <1>1, <1>2, <1>3, <2>1, WheelAssumption DEF Asleep
<1>6. NeverOversleeps'
  BY <1>1, <1>3 DEF NeverOversleeps, Less
<1> QED BY <1>4, <1>5, <1>6 DEF WheelInv

\* A step that changes nothing keeps the invariant.
LEMMA StutterKeeps ==
  ASSUME WheelInv, UNCHANGED vars
  PROVE WheelInv'
BY DEF WheelInv, WheelTypeOK, Known, Asleep, NeverOversleeps, Less, vars

\* The inductive invariant of the timer.
THEOREM WheelInvariant == WheelSpec => []WheelInv
<1>1. WheelInv /\ [WheelNext]_vars => WheelInv'
  BY ScheduleKeeps, CancelKeeps, SignalKeeps, ScanKeeps, PopKeeps, RunKeeps,
     TickKeeps, StutterKeeps DEF WheelNext, Run
<1> QED BY <1>1, WheelBegins, PTL DEF WheelSpec

-----------------------------------------------------------------------------
(* Theorems *)

\* Schedule and Run lose no wake-up, for any number of events and callers.
THEOREM WheelNeverOversleeps == WheelSpec => []NeverOversleeps
<1>1. WheelInv => NeverOversleeps
  BY DEF WheelInv
<1> QED BY <1>1, WheelInvariant, PTL

\* The timer's state stays within its types: the event under way is an event,
\* and the timers of Run and of its callers are within their bounds.
THEOREM WheelTyped == WheelSpec => []WheelTypeOK
<1>1. WheelInv => WheelTypeOK
  BY DEF WheelInv
<1> QED BY <1>1, WheelInvariant, PTL

-----------------------------------------------------------------------------
(* The contract *)

Status == [e \in Events |->
             IF e \in ran THEN "ran"
             ELSE IF event[e].cancelled THEN "cancelled"
             ELSE IF e \in events THEN "queued" ELSE "new"]

At == [e \in Events |-> event[e].at]

Order == [e \in Events |-> event[e].sequence]

\* Schedule is Schedule of the contract.
LEMMA ScheduleRefines ==
  ASSUME WheelInv, NEW e \in Events, NEW time \in 0 .. MaxTime, Schedule(e, time)
  PROVE Contract!Schedule(e, time)
<1>1. /\ WheelTypeOK /\ Known
      /\ ran' = ran /\ now' = now /\ events' = events \cup {e}
      /\ sequence' = sequence + 1 /\ event[e].sequence = 0
  BY DEF WheelInv, Schedule
<1>2. /\ \A d \in Events \ {e} : event'[d] = event[d]
      /\ event'[e] = [at |-> time, sequence |-> sequence + 1, cancelled |-> FALSE]
  BY <1>1 DEF Schedule, WheelTypeOK
<1>3. e \notin events /\ e \notin ran /\ ~ event[e].cancelled
  BY <1>1 DEF Known
<1>4. Status[e] = "new"
  BY <1>3 DEF Status
<1>5. /\ event'[e].at = time /\ event'[e].sequence = sequence + 1
      /\ ~ event'[e].cancelled
  BY <1>2
<1>6. Status' = [Status EXCEPT ![e] = "queued"]
  <2>1. Status'[e] = "queued"
    BY <1>1, <1>3, <1>5 DEF Status
  <2>2. \A d \in Events \ {e} : Status'[d] = Status[d]
    BY <1>1, <1>2 DEF Status
  <2> QED BY <2>1, <2>2, Zenon DEF Status
<1>7. At' = [At EXCEPT ![e] = time]
  <2>1. At'[e] = time /\ \A d \in Events \ {e} : At'[d] = At[d]
    BY <1>2, <1>5 DEF At
  <2> QED BY <2>1, Zenon DEF At
<1>8. Order' = [Order EXCEPT ![e] = sequence + 1]
  <2>1. Order'[e] = sequence + 1 /\ \A d \in Events \ {e} : Order'[d] = Order[d]
    BY <1>2, <1>5 DEF Order
  <2> QED BY <2>1, Zenon DEF Order
<1> QED BY <1>1, <1>4, <1>6, <1>7, <1>8 DEF Contract!Schedule, Status, At, Order

\* Cancellation is that of the contract, or comes too late to count.
LEMMA CancelRefines ==
  ASSUME WheelInv, NEW e \in Events, cancel(e)
  PROVE Contract!Cancel(e) \/ UNCHANGED Contract!contractVars
<1>1. /\ WheelTypeOK /\ Known
      /\ ran' = ran /\ now' = now /\ events' = events /\ sequence' = sequence
  BY DEF WheelInv, cancel
<1>2. /\ \A d \in Events : /\ event'[d].at = event[d].at
                           /\ event'[d].sequence = event[d].sequence
                           /\ d # e \/ d \notin events =>
                                event'[d].cancelled = event[d].cancelled
      /\ e \in events => event'[e].cancelled
  BY <1>1, CancelChanges
<1>3. At' = At /\ Order' = Order
  BY <1>2 DEF At, Order
<1>4. CASE e \in events /\ ~ event[e].cancelled
  <2>1. e \notin ran
    BY <1>1, <1>4 DEF Known
  <2>2. Status[e] = "queued"
    BY <1>4, <2>1 DEF Status
  <2>3. Status' = [Status EXCEPT ![e] = "cancelled"]
    BY <1>1, <1>2, <1>4, <2>1, Zenon DEF Status
  <2>4. Contract!Cancel(e)
    BY <1>1, <1>3, <2>2, <2>3 DEF Contract!Cancel, Status, At, Order
  <2> QED BY <2>4
<1>5. CASE e \notin events \/ event[e].cancelled
  <2>1. \A d \in Events : event'[d].cancelled <=> event[d].cancelled
    BY <1>2, <1>5
  <2>2. Status' = Status
    BY <1>1, <2>1 DEF Status
  <2> QED BY <1>1, <1>3, <2>2 DEF Contract!contractVars, Status, At, Order
<1> QED BY <1>4, <1>5

\* Only cancelled events leave the heap in Scan.
LEMMA ScanRefines ==
  ASSUME WheelInv, Scan
  PROVE UNCHANGED Contract!contractVars
<1>1. UNCHANGED <<event, sequence, ran, now>>
  BY DEF Scan
<1>2. \A e \in Events : ~ event[e].cancelled => (e \in events' <=> e \in events)
  BY DEF Scan
<1>3. Status' = Status /\ At' = At /\ Order' = Order
  BY <1>1, <1>2 DEF Status, At, Order
<1> QED BY <1>1, <1>3 DEF Contract!contractVars, Status, At, Order

\* The event that is popped is due, because the one Run slept for is.
LEMMA PopRefines ==
  ASSUME WheelInv, Pop
  PROVE (\E e \in Events : Contract!Callback(e)) \/ UNCHANGED Contract!contractVars
<1>1. /\ WheelTypeOK /\ Known /\ Asleep
      /\ UNCHANGED <<event, sequence, now>> /\ run.at = "pop"
  BY DEF WheelInv, Pop
<1>2. run.next \in events /\ event[run.next].at <= now
  BY <1>1 DEF Asleep
<1>3. PICK e \in events :
        /\ First(e) /\ events' = events \ {e}
        /\ event[e].cancelled => ran' = ran
        /\ ~ event[e].cancelled => ran' = ran \cup {e}
  BY <1>2 DEF Pop
<1>4. e \in Events /\ e \notin ran
  BY <1>1, <1>3 DEF Known, WheelTypeOK
<1>5. At' = At /\ Order' = Order
  BY <1>1 DEF At, Order
<1>6. CASE event[e].cancelled
  <2>1. Status' = Status
    BY <1>1, <1>3, <1>4, <1>6 DEF Status
  <2> QED BY <1>1, <1>5, <2>1 DEF Contract!contractVars, Status, At, Order
<1>7. CASE ~ event[e].cancelled
  <2>1. event[e].at <= now
    BY <1>1, <1>2, <1>3, <1>4 DEF First, Less, WheelTypeOK
  <2>2. Status[e] = "queued" /\ At[e] <= now
    BY <1>3, <1>4, <1>7, <2>1 DEF Status, At
  <2>3. \A d \in Events \ {e} :
          Status[d] = "queued" =>
            At[e] < At[d] \/ (At[e] = At[d] /\ Order[e] < Order[d])
    BY <1>3, <1>4 DEF Status, At, Order, First, Less
  <2>4. Status' = [Status EXCEPT ![e] = "ran"]
    BY <1>1, <1>3, <1>4, <1>7, Zenon DEF Status
  <2>5. Contract!Callback(e)
    BY <1>1, <1>5, <2>2, <2>3, <2>4 DEF Contract!Callback, Status, At, Order
  <2> QED BY <1>4, <2>5
<1> QED BY <1>6, <1>7

\* The timer implements its contract: every callback runs once, in order, not
\* early and not after its cancellation.
THEOREM WheelImplementsTimer == WheelSpec => ImplementsTimer
<1>1. NewWithClock => Contract!ContractInit
  BY DEF NewWithClock, Contract!ContractInit
<1>2. WheelInv /\ [WheelNext]_vars => [Contract!ContractNext]_(Contract!contractVars)
  <2> SUFFICES ASSUME WheelInv, [WheelNext]_vars
               PROVE Contract!ContractNext \/ UNCHANGED Contract!contractVars
    OBVIOUS
  <2>1. ASSUME NEW e \in Events, NEW time \in 0 .. MaxTime, Schedule(e, time)
        PROVE Contract!ContractNext
    BY <2>1, ScheduleRefines DEF Contract!ContractNext
  <2>2. ASSUME NEW e \in Events, cancel(e)
        PROVE Contract!ContractNext \/ UNCHANGED Contract!contractVars
    BY <2>2, CancelRefines DEF Contract!ContractNext
  <2>3. CASE Scan
    BY <2>3, ScanRefines
  <2>4. CASE Pop
    BY <2>4, PopRefines DEF Contract!ContractNext
  <2>5. CASE UNCHANGED <<event, events, sequence, ran, now>>
    BY <2>5 DEF Contract!contractVars
  <2>6. CASE Tick
    <3>1. UNCHANGED <<event, events, sequence, ran>>
          /\ (now' = now + 1 \/ now' = now)
      BY <2>6 DEF Tick
    <3>2. CASE now' = now
      BY <3>1, <3>2 DEF Contract!contractVars
    <3>3. CASE now' = now + 1
      BY <3>1, <3>3 DEF Contract!ContractNext, Contract!Pass
    <3> QED BY <3>1, <3>2, <3>3
  <2>7. CASE signal \/ Wake \/ Stop \/ NewTimer \/ Woken \/ TimerFires \/ Return
             \/ CallbackReturns \/ UNCHANGED vars
    BY <2>5, <2>7 DEF signal, Wake, Stop, NewTimer, Woken, TimerFires, Return,
                      CallbackReturns, vars
  <2> QED BY <2>1, <2>2, <2>3, <2>4, <2>6, <2>7 DEF WheelNext, Run
<1> QED BY <1>1, <1>2, WheelInvariant, PTL
      DEF WheelSpec, ImplementsTimer, Contract!ContractSpec
=============================================================================
