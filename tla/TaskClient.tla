----------------------------- MODULE TaskClient -----------------------------
(***************************************************************************)
(* client/client.go: what Enqueue, EnqueueAt and EnqueueIn make of a task's *)
(* options and hand to the store, and TaskMessage.Validate of               *)
(* model/model.go.                                                          *)
(*                                                                         *)
(* An option is the field it sets and the value; a nil option is NilOption. *)
(* Strings are empty or not, instants count from the zero time 0, and Now   *)
(* is the client's clock.  A nil task, an empty type and a context that has *)
(* ended stop Enqueue before it looks at the options, and are left out.     *)
(***************************************************************************)
EXTENDS Integers, Sequences

CONSTANTS
  Now,         \* what c.now() returns
  MaxOptions   \* bound on the options of a task, and on those of a call

ASSUME ClientAssumption == Now \in Nat \ {0} /\ MaxOptions \in Nat

NilOption == [field |-> "nil", value |-> 0]
ProcessAt(at) == [field |-> "runAt", value |-> at]
ProcessIn(delay) == [field |-> "runIn", value |-> delay]

Options ==
  {NilOption}
    \cup [field : {"id", "queue"}, value : {"", "other"}]
    \cup [field : {"priority", "maxRetry", "timeout"}, value : {-1, 1}]
    \cup [field : {"deadline"}, value : {0, Now}]
    \cup {ProcessAt(at) : at \in {0, Now - 1, Now + 2}}
    \cup {ProcessIn(delay) : delay \in {-1, 0, 1}}

\* The options that return an error.
Invalid(o) ==
  \/ o.field \in {"id", "queue"} /\ o.value = ""
  \/ o.field \in {"priority", "maxRetry", "timeout", "runIn"} /\ o.value < 0
  \/ o.field = "runAt" /\ o.value = 0

Defaults ==
  [id |-> "random", queue |-> "default", priority |-> 0, maxRetry |-> 3,
   timeout |-> 0, deadline |-> 0, runAt |-> Now, runAtSet |-> FALSE,
   runIn |-> 0, runInSet |-> FALSE]

\* Mutant: ProcessAt leaves an earlier ProcessIn in force.
ApplySticky(o, options) ==
  CASE o.field = "nil" -> options
    [] o.field = "runAt" ->
         [options EXCEPT !.runAt = o.value, !.runAtSet = TRUE]
    [] o.field = "runIn" ->
         [options EXCEPT !.runIn = o.value, !.runInSet = TRUE,
                         !.runAtSet = FALSE]
    [] OTHER -> [options EXCEPT ![o.field] = o.value]

\* An option that is not refused, applied to the options so far.
Apply(o, options) ==
  CASE o.field = "nil" -> options
    [] o.field = "runAt" ->
         [options EXCEPT !.runAt = o.value, !.runAtSet = TRUE,
                         !.runInSet = FALSE]
    [] o.field = "runIn" ->
         [options EXCEPT !.runIn = o.value, !.runInSet = TRUE,
                         !.runAtSet = FALSE]
    [] OTHER -> [options EXCEPT ![o.field] = o.value]

\* The options after every number of applications.
Applied(all) ==
  LET options[n \in 0 .. Len(all)] ==
        IF n = 0 THEN Defaults ELSE Apply(all[n], options[n - 1])
  IN  options

\* The store method that Enqueue calls and the message it passes, or an error
\* and no call.  The options of the task come before those of the call.
ClientEnqueue(taskOpts, opts) ==
  LET all == taskOpts \o opts
      options == Applied(all)[Len(all)]
      runAt == IF options.runInSet THEN Now + options.runIn ELSE options.runAt
      later == runAt > Now
  IN  IF \E n \in DOMAIN all : Invalid(all[n])
        THEN [call |-> "none"]
        ELSE [call |-> IF later THEN "Schedule" ELSE "Enqueue",
              id |-> options.id, queue |-> options.queue,
              priority |-> options.priority, maxRetry |-> options.maxRetry,
              timeout |-> options.timeout, deadline |-> options.deadline,
              runAt |-> runAt, createdAt |-> Now,
              state |-> IF later THEN "scheduled" ELSE "pending"]

EnqueueAt(taskOpts, at, opts) ==
  ClientEnqueue(taskOpts, <<ProcessAt(at)>> \o opts)

EnqueueIn(taskOpts, delay, opts) ==
  ClientEnqueue(taskOpts, <<ProcessIn(delay)>> \o opts)

Validate(msg) ==
  /\ msg.id # "" /\ msg.queue # ""
  /\ msg.priority >= 0 /\ msg.maxRetry >= 0 /\ msg.timeout >= 0

-----------------------------------------------------------------------------
\* The last of the first n options in s that has one of the given fields.
LastOf(s, n, fields, default) ==
  LET at == {k \in 1 .. n : s[k].field \in fields}
      last == CHOOSE k \in at : \A m \in at : m <= k
  IN  IF at = {} THEN default ELSE s[last]

\* The run time that the first n options ask for.
AskedTime(s, n) ==
  LET o == LastOf(s, n, {"runAt", "runIn"}, ProcessIn(0))
  IN  IF o.field = "runAt" THEN o.value ELSE Now + o.value

Plain == {"id", "queue", "priority", "maxRetry", "timeout", "deadline"}

\* What is sent is what the options ask for, in the order given.
Obeys(sent, all) ==
  IF \E n \in DOMAIN all : Invalid(all[n])
    THEN sent.call = "none"
    ELSE /\ Validate(sent)
         /\ sent.runAt = AskedTime(all, Len(all))
         /\ \A f \in Plain :
              sent[f] = LastOf(all, Len(all), {f}, [value |-> Defaults[f]]).value
         /\ IF sent.runAt > sent.createdAt
              THEN sent.call = "Schedule" /\ sent.state = "scheduled"
              ELSE sent.call = "Enqueue" /\ sent.state = "pending"

\* The calls: Enqueue, EnqueueAt and EnqueueIn, by the option they put between
\* those of the task and those of the call.
Ways == {<<>>, <<ProcessAt(Now + 1)>>, <<ProcessIn(0)>>}

Sent(taskOpts, way, opts) ==
  CASE way = <<>> -> ClientEnqueue(taskOpts, opts)
    [] way = <<ProcessAt(Now + 1)>> -> EnqueueAt(taskOpts, Now + 1, opts)
    [] way = <<ProcessIn(0)>> -> EnqueueIn(taskOpts, 0, opts)

Misread ==
  LET lists == UNION {[1 .. n -> Options] : n \in 0 .. MaxOptions}
  IN  {c \in lists \X Ways \X lists :
         ~Obeys(Sent(c[1], c[2], c[3]), c[1] \o (c[2] \o c[3]))}
=============================================================================
