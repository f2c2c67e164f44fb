------------------------------ MODULE LogFilter ------------------------------
(***************************************************************************)
(* The log filter that supervisord runs around postfix, dovecot and nginx  *)
(* (core/base/libs/socrate/socrate/log_filter.py): a child process group   *)
(* writes into two pipes, the main loop splits what it reads into lines    *)
(* and queues those that no pattern matches, a writer thread forwards the  *)
(* queue, and signals to the filter stop or reload the child.              *)
(*                                                                         *)
(* A read returns a chunk: a sequence of pieces, each with its length, its *)
(* newline if it has one, and whether it makes a pattern match its line.   *)
(* A pipe stands for its output too.  Writes that are partial, interrupted *)
(* or would block leave the writer where it is.  Descendants stay in the   *)
(* process group.                                                          *)
(***************************************************************************)
EXTENDS Integers, Sequences

CONSTANTS
  Pipes,      \* stdout and stderr
  Chunks,     \* what one read may return
  MaxLine,    \* MAX_LINE_SIZE
  MaxQueued,  \* MAX_QUEUED_LINES
  Budgets     \* bounds on the chunks the child writes and on the reloads

ASSUME LogFilterConstants ==
  /\ MaxLine \in Nat /\ MaxQueued \in Nat \ {0}
  /\ Budgets \subseteq [reads : Nat, hups : Nat]
  /\ Chunks \subseteq Seq([len : Nat, nl : BOOLEAN, match : BOOLEAN])
  /\ \A c \in Chunks : \A i \in 1 .. Len(c) : ~c[i].nl => i = Len(c)

VARIABLES
  leader,      \* the child: "running", "zombie" or "reaped"
  alive,       \* members of its process group that run
  closed,      \* pipes that reached their end
  registered,  \* pipes the selector watches
  at, next,    \* where main() is, and where it goes on after stopping the group
  ready,       \* pipes the last select reported
  pipe, chunk, \* what _consume works on
  buffers, discarding, dropped,
  stopped,     \* group_stopped
  queue, hand, \* the output queue, and the item the writer has taken
  writer,      \* "runs" or "ended"
  disabled,
  term, hup,   \* requested_signal, requested_child_signal
  owed,        \* history: a reload was asked for and not forwarded
  due,         \* history: lines to forward less those written or announced
  budget       \* what is left of the bounds

child == <<leader, alive>>
reader == <<closed, registered, ready, pipe, chunk, buffers, discarding>>
sink == <<queue, hand, writer, disabled>>
signals == <<term, hup, owed>>
filterVars == <<child, reader, at, next, dropped, stopped, sink, signals, due, budget>>

None == [pipe |-> "none", n |-> 0]    \* also the sentinel of the queue
Empty == [len |-> 0, match |-> FALSE]

-----------------------------------------------------------------------------
(* The child and the signals                                               *)

Exits(m) ==
  /\ m \in alive /\ alive' = alive \ {m}
  /\ leader' = IF m = "leader" THEN "zombie" ELSE leader
  /\ UNCHANGED <<reader, at, next, dropped, stopped, sink, signals, due, budget>>

\* request_signal runs between any two steps of main().
Terminate ==
  /\ ~term /\ at # "done" /\ term' = TRUE
  /\ UNCHANGED <<child, reader, at, next, dropped, stopped, sink, hup, owed, due, budget>>

\* A reload that is asked for between forwarding one and forgetting it is lost.
RequestHup ==
  /\ budget.hups > 0 /\ at # "done" /\ budget' = [budget EXCEPT !.hups = @ - 1]
  /\ hup' = TRUE /\ owed' = (owed \/ at # "forget")
  /\ UNCHANGED <<child, reader, at, next, dropped, stopped, sink, term, due>>

-----------------------------------------------------------------------------
(* main()                                                                  *)

GoOn(l) == at' = l

\* process.poll() reaps a child that has exited.
Polled == IF leader = "zombie" THEN "reaped" ELSE leader

LoopEnds ==
  /\ at = "top" /\ registered = {} /\ leader # "running"
  /\ leader' = Polled /\ GoOn("finish")
  /\ UNCHANGED <<alive, reader, next, dropped, stopped, sink, signals, due, budget>>

Looping == registered # {} \/ leader = "running"

\* Mutant: a reload is only looked at when nothing is left to read.
Reloading_Bug == hup /\ registered = {}

Reloading == hup

ForwardHup ==
  /\ at = "top" /\ Looping /\ Reloading
  /\ owed' = FALSE /\ GoOn("forget")
  /\ UNCHANGED <<child, reader, next, dropped, stopped, sink, term, hup, due, budget>>

ForgetHup ==
  /\ at = "forget" /\ hup' = FALSE /\ GoOn("signal")
  /\ UNCHANGED <<child, reader, next, dropped, stopped, sink, term, owed, due, budget>>

NoReload == at = "signal" \/ (at = "top" /\ Looping /\ ~Reloading)

StopRequested ==
  /\ NoReload
  /\ term /\ next' = "finish" /\ GoOn("stop")
  /\ UNCHANGED <<child, reader, dropped, stopped, sink, signals, due, budget>>

\* A pipe nobody writes to any more is always ready.
Select ==
  /\ NoReload
  /\ ~term
  /\ ready' \in SUBSET registered
  /\ alive = {} => ready' = registered
  /\ GoOn("events")
  /\ UNCHANGED <<child, closed, registered, pipe, chunk, buffers, discarding, next,
                 dropped, stopped, sink, signals, due, budget>>

Read(p, c) ==
  /\ at = "events" /\ p \in ready
  /\ budget.reads > 0 /\ budget' = [budget EXCEPT !.reads = @ - 1] /\ ready' = ready \ {p}
  /\ pipe' = p /\ chunk' = c /\ GoOn("consume")
  /\ UNCHANGED <<child, closed, registered, buffers, discarding, next, dropped, stopped,
                 sink, signals, due>>

\* The head of _emit_line and of _emit: a line that is complete is dropped,
\* filtered, or on its way into the queue.
EmitLine(p, line) ==
  LET lost == line.len > MaxLine
      shown == lost \/ ~line.match
  IN  /\ due' = IF shown THEN [due EXCEPT ![p] = @ + 1] ELSE due
      /\ dropped' = IF shown /\ (lost \/ p \in disabled)
                    THEN [dropped EXCEPT ![p] = @ + 1] ELSE dropped
      /\ GoOn(IF shown /\ ~lost /\ p \notin disabled THEN "notice" ELSE "consume")

\* The end of a pipe: _flush_partial.
EndOfPipe(p) ==
  /\ at = "events" /\ p \in ready
  /\ closed' = closed \cup {p} /\ registered' = registered \ {p} /\ ready' = ready \ {p}
  /\ pipe' = p /\ chunk' = <<>>
  /\ IF p \notin discarding /\ buffers[p].len > 0
     THEN /\ EmitLine(p, buffers[p])
          /\ buffers' = [buffers EXCEPT ![p] = Empty]
     ELSE GoOn("consume") /\ UNCHANGED <<buffers, due, dropped>>
  /\ UNCHANGED <<child, discarding, next, stopped, sink, signals, budget>>

Consuming == at = "consume" /\ chunk # <<>> /\ chunk' = Tail(chunk)

SkipDiscarded ==
  /\ Consuming /\ pipe \in discarding
  /\ discarding' = IF Head(chunk).nl THEN discarding \ {pipe} ELSE discarding
  /\ UNCHANGED <<child, closed, registered, ready, pipe, buffers, at, next, dropped,
                 stopped, sink, signals, due, budget>>

Joined == [len |-> buffers[pipe].len + Head(chunk).len,
           match |-> buffers[pipe].match \/ Head(chunk).match]

KeepPartial ==
  /\ Consuming /\ pipe \notin discarding /\ ~Head(chunk).nl
  /\ IF Joined.len > MaxLine
     THEN /\ buffers' = [buffers EXCEPT ![pipe] = Empty]
          /\ discarding' = discarding \cup {pipe}
          /\ dropped' = [dropped EXCEPT ![pipe] = @ + 1]
          /\ due' = [due EXCEPT ![pipe] = @ + 1]
     ELSE /\ buffers' = [buffers EXCEPT ![pipe] = Joined]
          /\ UNCHANGED <<discarding, dropped, due>>
  /\ UNCHANGED <<child, closed, registered, ready, pipe, at, next, stopped, sink, signals,
                 budget>>

TakeLine ==
  /\ Consuming /\ pipe \notin discarding /\ Head(chunk).nl
  /\ EmitLine(pipe, Joined)
  /\ buffers' = [buffers EXCEPT ![pipe] = Empty]
  /\ UNCHANGED <<child, closed, registered, ready, pipe, discarding, next, stopped,
                 sink, signals, budget>>

Consumed ==
  /\ at = "consume" /\ chunk = <<>> /\ pipe' = "none" /\ GoOn("events")
  /\ UNCHANGED <<child, closed, registered, ready, chunk, buffers, discarding, next,
                 dropped, stopped, sink, signals, due, budget>>

HasRoom == Len(queue) < MaxQueued

\* Mutant: the count starts again although its notice did not fit.
Notice_Bug ==
  /\ at = "notice" /\ GoOn("line")
  /\ queue' = IF dropped[pipe] > 0 /\ HasRoom
              THEN Append(queue, [pipe |-> pipe, n |-> dropped[pipe]]) ELSE queue
  /\ dropped' = [dropped EXCEPT ![pipe] = 0]
  /\ UNCHANGED <<child, reader, next, stopped, hand, writer, disabled, signals, due, budget>>

\* _emit: what was dropped is announced first, if there is room for it ...
Notice ==
  /\ at = "notice" /\ GoOn("line")
  /\ IF dropped[pipe] > 0 /\ HasRoom
     THEN /\ queue' = Append(queue, [pipe |-> pipe, n |-> dropped[pipe]])
          /\ dropped' = [dropped EXCEPT ![pipe] = 0]
     ELSE UNCHANGED <<queue, dropped>>
  /\ UNCHANGED <<child, reader, next, stopped, hand, writer, disabled, signals, due, budget>>

\* ... then the line is queued, if there is.
Line ==
  /\ at = "line" /\ GoOn("consume")
  /\ IF HasRoom
     THEN queue' = Append(queue, [pipe |-> pipe, n |-> 1]) /\ UNCHANGED dropped
     ELSE dropped' = [dropped EXCEPT ![pipe] = @ + 1] /\ UNCHANGED queue
  /\ UNCHANGED <<child, reader, next, stopped, hand, writer, disabled, signals, due, budget>>

\* All events are handled: a leader that has exited takes its group with it.
PollChild ==
  /\ at = "events" /\ ready = {}
  /\ leader' = Polled
  /\ IF leader # "running" /\ ~stopped
     THEN next' = "top" /\ stopped' = TRUE /\ GoOn("stop")
     ELSE UNCHANGED <<next, stopped>> /\ GoOn("top")
  /\ UNCHANGED <<alive, reader, dropped, sink, signals, due, budget>>

\* except BaseException: a read fails.
Raises ==
  /\ at = "events" /\ ready # {}
  /\ next' = "finish" /\ GoOn("stop")
  /\ UNCHANGED <<child, reader, dropped, stopped, sink, signals, due, budget>>

-----------------------------------------------------------------------------
(* _stop_process_group                                                     *)

\* _process_group_exists: a child that was not waited for counts.
Exists == alive # {} \/ leader = "zombie"

\* SIGTERM: whoever obeys it exits; nobody has to.
Term ==
  /\ at = "stop" /\ GoOn("grace")
  /\ UNCHANGED <<child, reader, next, dropped, stopped, sink, signals, due, budget>>

Gone ==
  /\ at = "grace" /\ ~Exists /\ GoOn(next)
  /\ UNCHANGED <<child, reader, next, dropped, stopped, sink, signals, due, budget>>

\* Mutant: only the child is killed.
Killed_Bug == alive \ {"leader"}

\* SIGKILL to the group.
Killed == {}

\* The deadline passes; the child is killed and waited for.
Kill ==
  /\ at = "grace" /\ Exists
  /\ alive' = Killed /\ leader' = "reaped" /\ GoOn(next)
  /\ UNCHANGED <<reader, next, dropped, stopped, sink, signals, due, budget>>

-----------------------------------------------------------------------------
(* The end of main(): both calls of poll() find the child reaped.          *)

Finish ==
  /\ at = "finish" /\ registered' = {} /\ ready' = {} /\ GoOn("sentinel")
  /\ UNCHANGED <<child, closed, pipe, chunk, buffers, discarding, next, dropped,
                 stopped, sink, signals, due, budget>>

\* Mutant: main() waits for room.
Sentinel_Bug ==
  /\ at = "sentinel" /\ HasRoom /\ queue' = Append(queue, None) /\ GoOn("join")
  /\ UNCHANGED <<child, reader, next, dropped, stopped, hand, writer, disabled, signals,
                 due, budget>>

Sentinel ==
  /\ at = "sentinel" /\ GoOn("join")
  /\ queue' = IF HasRoom THEN Append(queue, None) ELSE queue
  /\ UNCHANGED <<child, reader, next, dropped, stopped, hand, writer, disabled, signals,
                 due, budget>>

\* writer.join(timeout=0.25), and the process ends.
Join ==
  /\ at = "join" /\ GoOn("done")
  /\ UNCHANGED <<child, reader, next, dropped, stopped, sink, signals, due, budget>>

-----------------------------------------------------------------------------
(* _forward_output, in its thread                                          *)

Get ==
  /\ at # "done" /\ writer = "runs" /\ hand = None /\ queue # <<>>
  /\ queue' = Tail(queue)
  /\ LET item == Head(queue)
     IN  /\ writer' = IF item = None THEN "ended" ELSE "runs"
         /\ hand' = IF item.pipe \in disabled THEN None ELSE item
  /\ UNCHANGED <<child, reader, at, next, dropped, stopped, disabled, signals, due, budget>>

WriteItem ==
  /\ at # "done" /\ hand # None /\ hand' = None
  /\ due' = [due EXCEPT ![hand.pipe] = @ - hand.n]
  /\ UNCHANGED <<child, reader, at, next, dropped, stopped, queue, writer, disabled, signals,
                 budget>>

WriteFails ==
  /\ at # "done" /\ hand # None /\ hand' = None
  /\ disabled' = disabled \cup {hand.pipe}
  /\ UNCHANGED <<child, reader, at, next, dropped, stopped, queue, writer, signals, due, budget>>

-----------------------------------------------------------------------------
FilterInit ==
  /\ leader = "running" /\ alive = {"leader", "helper"}
  /\ closed = {} /\ registered = Pipes
  /\ at = "top" /\ next = "top" /\ ready = {} /\ pipe = "none" /\ chunk = <<>>
  /\ buffers = [p \in Pipes |-> Empty] /\ discarding = {} /\ dropped = [p \in Pipes |-> 0]
  /\ stopped = FALSE
  /\ queue = <<>> /\ hand = None /\ writer = "runs" /\ disabled = {}
  /\ term = FALSE /\ hup = FALSE /\ owed = FALSE
  /\ due = [p \in Pipes |-> 0] /\ budget \in Budgets

Main ==
  \/ LoopEnds \/ ForwardHup \/ ForgetHup \/ StopRequested \/ Select
  \/ \E p \in Pipes : EndOfPipe(p) \/ \E c \in Chunks : Read(p, c)
  \/ SkipDiscarded \/ KeepPartial \/ TakeLine \/ Consumed \/ Notice \/ Line
  \/ PollChild \/ Raises \/ Term \/ Gone \/ Kill \/ Finish \/ Sentinel \/ Join

Writer == Get \/ WriteItem \/ WriteFails

Done == at = "done" /\ UNCHANGED filterVars

FilterNext ==
  \/ Main \/ Writer \/ Terminate \/ RequestHup \/ Done
  \/ \E m \in {"leader", "helper"} : Exits(m)

\* Only main() is sure to go on: the sink may block the writer for good, and
\* nothing makes the child exit.
FilterSpec == FilterInit /\ [][FilterNext]_filterVars /\ WF_filterVars(Main)

-----------------------------------------------------------------------------
\* Type invariant, with the capacity of queue.Queue.
FilterTypeOK ==
  /\ leader \in {"running", "zombie", "reaped"} /\ alive \subseteq {"leader", "helper"}
  /\ closed \subseteq Pipes /\ registered \subseteq Pipes /\ ready \subseteq Pipes
  /\ budget.reads \in Nat /\ budget.hups \in Nat
  /\ at \in {"top", "forget", "signal", "events", "consume", "notice", "line", "stop",
             "grace", "finish", "sentinel", "join", "done"}
  /\ next \in {"top", "finish"} /\ pipe \in Pipes \cup {"none"} /\ discarding \subseteq Pipes
  /\ \A p \in Pipes : buffers[p].len \in 0 .. MaxLine /\ (p \in discarding => buffers[p] = Empty)
  /\ Len(queue) <= MaxQueued /\ disabled \subseteq Pipes /\ writer \in {"runs", "ended"}
  /\ dropped \in [Pipes -> Nat] /\ due \in [Pipes -> Nat]

\* The lines of pipe p that an item stands for: one, or those its notice announces.
Share(item, p) == IF item.pipe = p THEN item.n ELSE 0

\* The line that main() is about to queue.
Emitting(p) == IF at \in {"notice", "line"} /\ pipe = p THEN 1 ELSE 0

\* sum[i] is how many lines of pipe p the first i items of the queue stand for.
Sums(sum, p) ==
  /\ sum[0] = 0
  /\ \A i \in 1 .. Len(queue) : sum[i] = sum[i - 1] + Share(queue[i], p)

\* As long as an output accepts data, every line the child wrote and no
\* pattern matched is written, waiting, or counted as dropped, exactly once:
\* in the queue, in the writer's hand, in a notice or in the counter.
Accounted ==
  \A p \in Pipes \ disabled : \E sum \in [0 .. Len(queue) -> 0 .. due[p]] :
    /\ Sums(sum, p)
    /\ due[p] = sum[Len(queue)] + Share(hand, p) + Emitting(p) + dropped[p]

\* When the filter returns, the child is reaped, and no member of its group
\* that held one of the pipes is left running.
NoneLeft == at = "done" => leader = "reaped" /\ (alive = {} \/ closed = Pipes)

\* The filter returns after the child exits or a signal asks it to, however
\* stubborn the group is, and even if the writer is blocked on a full sink.
Returns == (leader # "running" \/ term) ~> at = "done"

\* A reload that is asked for reaches the child, unless the filter stops.
Reloads == owed ~> (~owed \/ at = "done")
=============================================================================
