--------------------------- MODULE ProcessWorker ---------------------------
(***************************************************************************)
(* A user-supplied sampler, evaluator, materializer or batch transform     *)
(* runs as a child process.  The host writes one framed request to the     *)
(* child's stdin and reads frames from its stdout until the response with  *)
(* its id comes back (process_worker.rs).  The child (user code, outside   *)
(* this repository) may print, report progress, stall, die, break the      *)
(* framing or ignore every signal but SIGKILL.                             *)
(***************************************************************************)
EXTENDS Integers, Sequences, SequencesExt, FiniteSets

CONSTANTS MaxRequests,  \* bound: requests of one worker
          MaxChatter,   \* bound: frames other than responses the child writes
          LogLimit,     \* MAX_STDOUT_LOG_BYTES_BEFORE_FRAME, in lines
          Sizes,        \* request sizes: "small" fits the pipe, "big" does not
          Chatter,      \* what the child may write besides responses
          Stalls        \* may the child stop reading and writing?

BoundsAssumption == /\ MaxRequests \in Nat \ {0} /\ MaxChatter \in Nat /\ LogLimit \in Nat
                           /\ Sizes \subseteq {"small", "big"} /\ Sizes # {}
                           /\ Chatter \subseteq {"text", "progress", "odd", "badjson", "overlimit"}
                           /\ Stalls \in BOOLEAN

VARIABLES pc,        \* what the host does: a request, or a step of the shutdown
          next_id,   \* id of the next request
          logged,    \* stdout_log_bytes_before_frame, in lines
          activity,  \* what the node reports to be doing
          last,      \* how the last request ended
          got,       \* the request whose answer the last request accepted (0: none)
          stdin,     \* requests written and not read by the child
          stdout,    \* frames written by the child and not read
          child,     \* "up", "stuck" or "dead"
          manners,   \* the signals the child obeys: "eof", "term" or only "kill"
          serving,   \* the request the child works on (0: none)
          chatter   \* frames other than responses written so far

host == <<pc, next_id, logged, activity, last, got>>
childVars == <<child, manners, serving, chatter>>
vars == <<host, childVars, stdin, stdout>>

Answer(id, ok) == [kind |-> "answer", id |-> id, ok |-> ok]
Note(k) == [kind |-> k, id |-> 0, ok |-> FALSE]
Resting == "idle"                        \* the activity outside a request
InFlight == pc \in {"writing", "waiting"}

Init == /\ pc = "idle" /\ next_id = 1 /\ logged = 0 /\ activity = Resting
        /\ last = "none" /\ got = 0
        /\ stdin = <<>> /\ stdout = <<>>
        /\ child = "up" /\ manners \in {"eof", "term", "kill"} /\ serving = 0 /\ chatter = 0

-----------------------------------------------------------------------------
(* The host.                                                               *)

\* Leaving request_with_binary drops the PhaseGuard: the activity before the request returns.
Leave(outcome, of) ==
  /\ pc' = "idle" /\ last' = outcome /\ got' = of /\ activity' = Resting
\* The first request is initialize; a worker whose handshake failed is dropped unused.
Initialized == next_id = 2 => last = "ok"

\* request_with_binary up to write_frame.  A frame that fits the pipe is written at once;
\* a bigger one needs the child to read.  No deadline covers the write.
Send(size) ==
  /\ pc = "idle" /\ Initialized /\ next_id <= MaxRequests
  /\ next_id' = next_id + 1
  /\ IF child = "dead"
     THEN Leave("failed", 0) /\ UNCHANGED stdin
     ELSE /\ activity' = "waiting_for_response"
          /\ UNCHANGED <<last, got>>
          /\ IF size = "small" THEN pc' = "waiting" /\ stdin' = Append(stdin, next_id)
             ELSE pc' = "writing" /\ UNCHANGED stdin
  /\ UNCHANGED <<logged, stdout, childVars>>

\* The child reads a big frame while the host writes it; a dead child breaks the pipe.
WriteBig ==
  /\ pc = "writing"
  /\ \/ /\ child = "up" /\ serving = 0 /\ stdin = <<>>
        /\ pc' = "waiting" /\ stdin' = Append(stdin, next_id - 1)
        /\ UNCHANGED <<last, got, activity>>
     \/ child = "dead" /\ Leave("failed", 0) /\ UNCHANGED stdin
  /\ UNCHANGED <<next_id, logged, stdout, childVars>>

EnvelopeAny(frame) == TRUE
\* validate_response_envelope: the response carries the id of the request in flight.
Envelope(frame) == frame.id = next_id - 1

LogOverrun(n) == n > LogLimit

\* A frame of another kind than a response: text is logged up to the limit, a progress note
\* moves the activity; anything else ends the request where it stands in the stream.
ReadNote(frame) ==
  /\ logged' = logged + (IF frame.kind = "text" THEN 1 ELSE 0)
  /\ CASE frame.kind = "text" /\ ~LogOverrun(logged + 1) -> UNCHANGED <<pc, last, got, activity>>
       [] frame.kind = "progress" -> activity' = "evaluating" /\ UNCHANGED <<pc, last, got>>
       [] OTHER -> Leave("failed", 0)
  \* A refused header leaves the body of its frame in the stream, where it reads as text.
  /\ stdout' = IF frame.kind = "overlimit" THEN <<Note("text")>> \o Tail(stdout) ELSE Tail(stdout)

\* One turn of read_response's loop.
ReadFrame ==
  /\ pc = "waiting" /\ stdout # <<>>
  /\ LET frame == Head(stdout)
     IN IF frame.kind # "answer" THEN ReadNote(frame)
        ELSE /\ stdout' = Tail(stdout) /\ UNCHANGED logged
             /\ IF ~Envelope(frame) THEN Leave("failed", 0)
                ELSE Leave(IF frame.ok THEN "ok" ELSE "error", frame.id)
  /\ UNCHANGED <<next_id, stdin, childVars>>

\* End of file on stdout: the worker died before or inside a frame.
ReadEof ==
  /\ pc = "waiting" /\ stdout = <<>> /\ child = "dead"
  /\ Leave("failed", 0)
  /\ UNCHANGED <<next_id, logged, stdin, stdout, childVars>>

\* wait_for_stdout passes the deadline: SIGKILL to the group and wait for it.
ReadTimeout ==
  /\ pc = "waiting" /\ stdout = <<>> /\ child # "dead"
  /\ child' = "dead" /\ serving' = 0
  /\ Leave("failed", 0)
  /\ UNCHANGED <<next_id, logged, stdin, stdout, manners, chatter>>

-----------------------------------------------------------------------------
(* shutdown, run by Drop.                                                  *)

Close ==
  /\ pc = "idle" /\ pc' = "closing"
  /\ UNCHANGED <<next_id, logged, activity, last, got, stdin, stdout, childVars>>

\* wait_for_exit saw the child exit within a grace period.
Reap ==
  /\ pc \in {"closing", "terminating"} /\ child = "dead"
  /\ pc' = "reaped"
  /\ UNCHANGED <<next_id, logged, activity, last, got, stdin, stdout, childVars>>

GraceOver ==
  /\ pc = "closing" /\ child # "dead" /\ pc' = "terminating"
  /\ UNCHANGED <<next_id, logged, activity, last, got, stdin, stdout, childVars>>

ForceKill ==
  /\ pc = "terminating" /\ child # "dead"
  /\ child' = "dead" /\ serving' = 0 /\ pc' = "reaped"
  /\ UNCHANGED <<next_id, logged, activity, last, got, stdin, stdout, manners, chatter>>

-----------------------------------------------------------------------------
(* The child, from how the host uses it.                                   *)

Take ==
  /\ child = "up" /\ serving = 0 /\ stdin # <<>>
  /\ serving' = Head(stdin) /\ stdin' = Tail(stdin)
  /\ UNCHANGED <<host, stdout, child, manners, chatter>>

Respond(ok) ==
  /\ child = "up" /\ serving # 0
  /\ stdout' = Append(stdout, Answer(serving, ok)) /\ serving' = 0
  /\ UNCHANGED <<host, stdin, child, manners, chatter>>

Chat(k) ==
  /\ child = "up" /\ chatter < MaxChatter
  /\ chatter' = chatter + 1 /\ stdout' = Append(stdout, Note(k))
  /\ UNCHANGED <<host, stdin, child, manners, serving>>

Stall ==
  /\ Stalls /\ child = "up" /\ child' = "stuck"
  /\ UNCHANGED <<host, stdin, stdout, manners, serving, chatter>>

\* The child exits: by itself, or on the end of its input or a SIGTERM it obeys.
Exit ==
  /\ child # "dead"
  /\ \/ child = "up" /\ InFlight
     \/ child = "up" /\ pc = "closing" /\ manners = "eof" /\ stdin = <<>> /\ serving = 0
     \/ pc = "terminating" /\ manners \in {"eof", "term"}
  /\ child' = "dead" /\ serving' = 0
  /\ UNCHANGED <<host, stdin, stdout, manners, chatter>>

Host == (\E s \in Sizes : Send(s)) \/ WriteBig \/ ReadFrame \/ ReadEof \/ ReadTimeout
        \/ Close \/ Reap \/ GraceOver \/ ForceKill
Child == Take \/ (\E ok \in BOOLEAN : Respond(ok)) \/ (\E k \in Chatter : Chat(k)) \/ Stall \/ Exit
Next == Host \/ Child

Spec == Init /\ [][Next]_vars

-----------------------------------------------------------------------------
(* Properties.                                                             *)

\* Every variable stays in its type; the reported activity is one of the supported phases (report_progress).
TypeOK ==
  /\ pc \in {"idle", "writing", "waiting", "closing", "terminating", "reaped"}
  /\ next_id \in 1 .. MaxRequests + 1 /\ logged \in Nat
  /\ activity \in {Resting, "waiting_for_response", "evaluating"}
  /\ last \in {"none", "ok", "error", "failed"} /\ got \in 0 .. MaxRequests
  /\ child \in {"up", "stuck", "dead"} /\ serving \in 0 .. MaxRequests /\ chatter \in 0 .. MaxChatter
  /\ \A i \in DOMAIN stdin : stdin[i] \in 1 .. MaxRequests

\* An answer the caller gets, result or error, is the child's answer to that very request, although a
\* protocol error may leave older responses unread in the pipe (validate_response_envelope).
AnswersMatch == last \in {"ok", "error"} /\ pc = "idle" => got = next_id - 1

\* A request that ended with an answer leaves the two sides in step: no response to it or to an earlier
\* request can still arrive.  After a request that failed in mid-stream every later one therefore fails too.
InStep ==
  pc = "idle" /\ last \in {"ok", "error"} /\ child # "dead"
    => /\ stdin = <<>> /\ serving = 0
       /\ \A i \in DOMAIN stdout : stdout[i].kind # "answer"

\* Outside a request the node reports the activity it had before it, whatever progress notes came and
\* however the request ended (PhaseGuard).
ActivityRestored == ~InFlight => activity = Resting

\* A worker that was dropped has no process left, not even one that ignores the end of its input and
\* SIGTERM (shutdown).
DroppedDead == pc = "reaped" => child = "dead"

\* A timed-out request kills the worker, so its late response can never be taken for a later one.
TimeoutKills == pc = "waiting" /\ stdout = <<>> /\ last' = "failed" /\ pc' = "idle" => child' = "dead"

\* The protocol as a whole.
AnswersInStep ==
  /\ [](TypeOK /\ AnswersMatch /\ InStep /\ ActivityRestored /\ DroppedDead)
  /\ [][TimeoutKills]_vars
=============================================================================
