----------------------------- MODULE Execution -----------------------------
(***************************************************************************)
(* How a claimed job is carried out: attempts under its RetryPolicy, each  *)
(* on a host that the pool leases; its token stream, a file of lines that  *)
(* the worker writes and every retry truncates; a client who cancels, in   *)
(* the worker's process or in another; and, in a third process, a follower *)
(* (follow_job_events) who tails the file and asks for the row.            *)
(*                                                                         *)
(* Claims and leases are Worker's subject: here one worker keeps its lease.*)
(* Lines count as equally long.  The pop and the finish of a writer are    *)
(* one step.                                                               *)
(***************************************************************************)
EXTENDS Pool, Integers

CONSTANTS
  Timed,      \* jobs with a timeout_seconds; jobs are the pool's Calls
  Streamed,   \* generation jobs, if stream_dir is configured
  Policy,     \* Policy[c]: [retries |-> max_retries, on |-> retry_on]
  Errors,     \* what a call may raise, see Error
  MaxChunks,  \* bound: pieces of text per attempt
  Cancels     \* jobs that a client may cancel

RetryClasses == {"transient", "connection", "rate_limit", "server", "oom",
                 "timeout", "all", "none"}

\* status: that of an HTTP response, or 0.  says: what the message mentions.
\* expired: the exception is a TimeoutError.
Error == [status : {0, 400, 429, 500},
          says : SUBSET {"connection", "timeout", "rate_limit", "server", "oom",
                         "no such model", "invalid"},
          expired : BOOLEAN]

ASSUME ExecutionAssumption ==
  /\ Timed \subseteq Calls /\ Streamed \subseteq Calls /\ Cancels \subseteq Calls
  /\ Policy \in [Calls -> [retries : Nat, on : SUBSET RetryClasses]]
  /\ Errors \subseteq Error /\ MaxChunks \in Nat

VARIABLES
  row,     \* row[c]: the job's status in the store
  run,     \* run[c]: where _execute_with_retries is
  file,    \* file[c]: the lines of the job's stream file, or NoFile
  writer,  \* writer[c]: lines before the worker's file position, or NoWriter
  cancel,  \* cancel[c]: the step of a cancel, and where it was called
  view,    \* view[c]: the follower of a streamed job
  blamed   \* history: blamed[c][h]: ticks for which h is to be avoided by c

execVars == <<poolVars, row, run, file, writer, cancel, view, blamed>>

NoWriter == -1
NoFile == <<>>

Text(try, i) == <<"text", try, i>>
Done(status) == <<"done", status>>
Output == <<"output">>   \* the row's output, as one piece of text
Junk == <<"junk">>   \* not JSON: a reader drops it

Terminal == {"completed", "failed", "cancelled"}

-----------------------------------------------------------------------------
(* RetryPolicy.                                                            *)

\* classify_error
Classes(e) ==
  LET found == (e.says \cap {"connection", "timeout", "rate_limit", "oom"})
                 \cup (IF e.status = 429 THEN {"rate_limit"} ELSE {})
                 \cup (IF e.status = 500 \/ (e.status = 0 /\ "server" \in e.says)
                       THEN {"server"} ELSE {})
      passing == /\ found \cap {"connection", "timeout", "rate_limit", "server"} # {}
                 /\ e.status # 400 /\ "invalid" \notin e.says
  IN CASE "no such model" \in e.says -> {}
       [] "no such model" \notin e.says /\ passing -> found \cup {"transient"}
       [] OTHER -> found

\* should_retry
ShouldRetry(c, e) ==
  LET on == Policy[c].on IN
  /\ "none" \notin on
  /\ \/ "all" \in on
     \/ IF e.expired THEN "timeout" \in on ELSE Classes(e) \cap on # {}

WaitExpired == [status |-> 0, says |-> {}, expired |-> TRUE]

-----------------------------------------------------------------------------
(* The stream: ChunkWriter.                                                *)

\* What a write at position p leaves; a hole spoils the line that follows it.
Written(f, p, line) ==
  [i \in 1 .. (IF p < Len(f) THEN Len(f) ELSE p + 1) |->
     IF i = p + 1 THEN IF p > Len(f) THEN Junk ELSE line
     ELSE IF i =< Len(f) THEN f[i] ELSE Junk]

\* Mutant: the file is opened for appending.
OpenStreamAppends(c) ==
  IF c \in Streamed
  THEN writer' = [writer EXCEPT ![c] = Len(file[c])] /\ UNCHANGED file
  ELSE UNCHANGED <<file, writer>>

\* _open_stream: truncates, whether the writer is there or not.
OpenStream(c) ==
  IF c \in Streamed
  THEN /\ file' = [file EXCEPT ![c] = NoFile]
       /\ writer' = [writer EXCEPT ![c] = 0]
  ELSE UNCHANGED <<file, writer>>

\* _finish_stream by the worker: nothing, if a cancel took the writer.
FinishStream(c, status) ==
  IF writer[c] # NoWriter
  THEN /\ file' = [file EXCEPT ![c] = Written(@, writer[c], Done(status))]
       /\ writer' = [writer EXCEPT ![c] = NoWriter]
  ELSE UNCHANGED <<file, writer>>

-----------------------------------------------------------------------------
(* The worker.                                                             *)

At(c, step) == run[c].step = step
GoTo(c, step) == run' = [run EXCEPT ![c].step = step]

Claim(c) ==
  /\ At(c, "queued") /\ row[c] = "queued"
  /\ row' = [row EXCEPT ![c] = "processing"]
  /\ GoTo(c, "attempt")
  /\ UNCHANGED <<poolVars, file, writer, cancel, view, blamed>>

\* The head of an attempt, up to the await of the call.
Attempt(c) ==
  /\ At(c, "attempt")
  /\ OpenStream(c)
  /\ Lease(c)
  /\ run' = [run EXCEPT ![c].step = "call", ![c].sent = 0]
  /\ UNCHANGED <<row, cancel, view, blamed>>

Chunk(c) ==
  /\ At(c, "call") /\ c \in Streamed /\ run[c].sent < MaxChunks
  /\ run' = [run EXCEPT ![c].sent = @ + 1]
  /\ IF writer[c] # NoWriter
     THEN /\ file' = [file EXCEPT ![c] =
                        Written(@, writer[c], Text(run[c].attempt, run[c].sent))]
          /\ writer' = [writer EXCEPT ![c] = @ + 1]
     ELSE UNCHANGED <<file, writer>>
  /\ UNCHANGED <<poolVars, row, cancel, view, blamed>>

Forgive(h, m) ==
  blamed' = [k \in Calls |-> [g \in Hosts |->
               IF g = h /\ Model[k] = m THEN 0 ELSE blamed[k][g]]]

CallReturns(c) ==
  /\ At(c, "call")
  /\ Served(c)
  /\ Forgive(lease[c], Model[c])
  /\ FinishStream(c, "completed")
  /\ run' = [run EXCEPT ![c].step = "store", ![c].outcome = "completed"]
  /\ UNCHANGED <<row, cancel, view>>

\* Mutant: every attempt that raises closes the stream.
AfterErrorClosing(c, e) ==
  /\ FinishStream(c, "failed")
  /\ IF run[c].attempt < Policy[c].retries /\ ShouldRetry(c, e)
     THEN GoTo(c, "sleep")
     ELSE run' = [run EXCEPT ![c].step = "store", ![c].outcome = "failed"]

\* The except clauses: sleep before the next attempt, or give up.
AfterError(c, e) ==
  IF run[c].attempt < Policy[c].retries /\ ShouldRetry(c, e)
  THEN GoTo(c, "sleep") /\ UNCHANGED <<file, writer>>
  ELSE /\ FinishStream(c, "failed")
       /\ run' = [run EXCEPT ![c].step = "store", ![c].outcome = "failed"]

CallRaises(c) ==
  /\ At(c, "call")
  /\ Failed(c)
  /\ blamed' = [blamed EXCEPT ![c][lease[c]] = FailTicks]
  /\ \E e \in Errors : AfterError(c, e)
  /\ UNCHANGED <<row, cancel, view>>

\* Mutant: a call that streams is not bounded.
CallExpiresQuiet(c) ==
  /\ At(c, "call") /\ c \in Timed \ Streamed
  /\ Abandoned(c)
  /\ AfterError(c, WaitExpired)
  /\ UNCHANGED <<row, cancel, view, blamed>>

\* wait_for cancels the call and raises TimeoutError outside the lease.
CallExpires(c) ==
  /\ At(c, "call") /\ c \in Timed
  /\ Abandoned(c)
  /\ AfterError(c, WaitExpired)
  /\ UNCHANGED <<row, cancel, view, blamed>>

\* The sleep is over.
Wake(c) ==
  /\ At(c, "sleep")
  /\ run' = [run EXCEPT ![c].step = "attempt", ![c].attempt = @ + 1]
  /\ UNCHANGED <<poolVars, row, file, writer, cancel, view, blamed>>

\* The race guard and set_result, which a cancelled row refuses.
StoreResult(c) ==
  /\ At(c, "store")
  /\ row' = [row EXCEPT ![c] = IF @ = "processing" THEN run[c].outcome ELSE @]
  /\ GoTo(c, "ended")
  /\ UNCHANGED <<poolVars, file, writer, cancel, view, blamed>>

\* The task is cancelled at its await, by the canceller or by the cancel watch.
Interrupted(c) ==
  /\ row[c] = "cancelled"
  /\ \/ At(c, "call") /\ Abandoned(c)
     \/ At(c, "sleep") /\ UNCHANGED poolVars
  /\ GoTo(c, "ended")
  /\ UNCHANGED <<row, file, writer, cancel, view, blamed>>

-----------------------------------------------------------------------------
(* The canceller.                                                          *)

CancelRow(c) ==
  /\ c \in Cancels /\ cancel[c] = "none" /\ row[c] \in {"queued", "processing"}
  /\ row' = [row EXCEPT ![c] = "cancelled"]
  /\ \E where \in {"here", "elsewhere"} : cancel' = [cancel EXCEPT ![c] = where]
  /\ UNCHANGED <<poolVars, run, file, writer, view, blamed>>

\* _finish_stream(create=True): in the worker's process the writer is closed; where
\* there is no writer the file is truncated, under the worker's hands if it has one.
CancelStream(c) ==
  /\ cancel[c] \in {"here", "elsewhere"}
  /\ cancel' = [cancel EXCEPT ![c] = "told"]
  /\ IF cancel[c] = "here" /\ writer[c] # NoWriter THEN FinishStream(c, "cancelled")
     ELSE /\ file' = IF c \in Streamed THEN [file EXCEPT ![c] = <<Done("cancelled")>>]
                     ELSE file
          /\ UNCHANGED writer
  /\ UNCHANGED <<poolVars, row, run, view, blamed>>

-----------------------------------------------------------------------------
(* The follower: follow_job_events with its NdjsonTail.                    *)

Offset(c) == IF Len(file[c]) < view[c].offset THEN 0 ELSE view[c].offset

\* The lines that read_new returns, and what the follower makes of them: it stops
\* at the first done line.
News(c) == SubSeq(file[c], Offset(c) + 1, Len(file[c]))
IsDone(line) == line[1] = "done"
Ends(s) == {i \in DOMAIN s : IsDone(s[i])}
FirstEnd(s) == CHOOSE i \in Ends(s) : \A k \in Ends(s) : i =< k
Texts(s) == {s[i] : i \in {k \in DOMAIN s : /\ s[k][1] = "text"
                                            /\ \A e \in Ends(s) : k < e}}

\* The view after the lines were yielded; otherwise is its next step.
Read(c, otherwise) ==
  LET new == News(c)
      heard == [view[c] EXCEPT !.offset = Len(file[c]), !.heard = @ \cup Texts(new)]
  IN IF Ends(new) = {} THEN [heard EXCEPT !.step = otherwise]
     ELSE [heard EXCEPT !.step = "ended", !.told = new[FirstEnd(new)][2]]

FollowTail(c) ==
  /\ view[c].step = "tail"
  /\ view' = [view EXCEPT ![c] = Read(c, "row")]
  /\ UNCHANGED <<poolVars, row, run, file, writer, cancel, blamed>>

FollowRow(c) ==
  /\ view[c].step = "row"
  /\ view' = [view EXCEPT ![c].step = IF row[c] \in Terminal THEN "last" ELSE "tail",
                          ![c].seen = row[c]]
  /\ UNCHANGED <<poolVars, row, run, file, writer, cancel, blamed>>

\* What is told when there is no done line: the row's status, and its output if no
\* text came.
ByRow(c, v) ==
  IF v.step = "ended" THEN v
  ELSE [v EXCEPT !.step = "ended", !.told = v.seen,
                 !.heard = IF @ = {} /\ v.seen = "completed" THEN {Output} ELSE @]

FollowLast(c) ==
  /\ view[c].step = "last"
  /\ view' = [view EXCEPT ![c] = ByRow(c, Read(c, "last"))]
  /\ UNCHANGED <<poolVars, row, run, file, writer, cancel, blamed>>

-----------------------------------------------------------------------------

ExecTick ==
  /\ \E m \in Models, h \in Hosts : cooling[m][h] > 0
  /\ PoolTick
  /\ blamed' = [c \in Calls |-> [h \in Hosts |->
                  IF blamed[c][h] > 0 THEN blamed[c][h] - 1 ELSE 0]]
  /\ UNCHANGED <<row, run, file, writer, cancel, view>>

ExecInit ==
  /\ PoolInit
  /\ row = [c \in Calls |-> "queued"]
  /\ run = [c \in Calls |-> [step |-> "queued", attempt |-> 0, sent |-> 0, outcome |-> "none"]]
  /\ file = [c \in Calls |-> NoFile]
  /\ writer = [c \in Calls |-> NoWriter]
  /\ cancel = [c \in Calls |-> "none"]
  /\ view = [c \in Streamed |-> [step |-> "tail", offset |-> 0, heard |-> {},
                                 seen |-> "none", told |-> "none"]]
  /\ blamed = [c \in Calls |-> [h \in Hosts |-> 0]]

\* Straight code, sleeps and timers; nothing makes a call return.
WorkerStep(c) ==
  Claim(c) \/ Attempt(c) \/ CallExpires(c) \/ Wake(c) \/ StoreResult(c) \/ Interrupted(c)

Follow(c) == FollowTail(c) \/ FollowRow(c) \/ FollowLast(c)

ExecNext ==
  \/ \E c \in Calls :
       \/ WorkerStep(c) \/ Chunk(c) \/ CallReturns(c) \/ CallRaises(c)
       \/ CancelRow(c) \/ CancelStream(c)
  \/ \E c \in Streamed : Follow(c)
  \/ ExecTick

ExecSpec == ExecInit /\ [][ExecNext]_execVars

\* The event loop, its timers and the follower's polls keep going; the host that is
\* called may never answer.
FairSpec ==
  /\ ExecSpec
  /\ \A c \in Calls : WF_execVars(WorkerStep(c)) /\ WF_execVars(CancelStream(c))
  /\ \A c \in Streamed : WF_execVars(Follow(c))

-----------------------------------------------------------------------------
(* Properties.                                                             *)

Lines(c) == {Done(s) : s \in Terminal} \cup {Junk}
              \cup {Text(t, i) : t \in 0 .. Policy[c].retries, i \in 0 .. MaxChunks - 1}

ExecTypeOK ==
  /\ PoolTypeOK
  /\ row \in [Calls -> {"queued", "processing"} \cup Terminal]
  /\ \A c \in Calls :
       /\ run[c].step \in {"queued", "attempt", "call", "sleep", "store", "ended"}
       /\ run[c].attempt \in 0 .. Policy[c].retries
       /\ run[c].sent \in 0 .. MaxChunks
       /\ run[c].outcome \in {"none", "completed", "failed"}
       /\ file[c] \in Seq(Lines(c))
       /\ writer[c] \in 0 .. MaxChunks \cup {NoWriter}
       /\ lease[c] # NoHost <=> At(c, "call")
  /\ cancel \in [Calls -> {"none", "here", "elsewhere", "told"}]
  /\ \A c \in Streamed :
       /\ view[c].step \in {"tail", "row", "last", "ended"}
       /\ view[c].offset \in 0 .. MaxChunks + 1
       /\ view[c].told \in Terminal \cup {"none"}
  /\ blamed \in [Calls -> [Hosts -> 0 .. FailTicks]]

\* Whenever it joins and however its reads fall between the worker's writes, the
\* follower is not told of an end that the job does not come to (only a cancel may
\* overtake the worker's result), and if the first attempt succeeds it hears all of
\* it.
Heading(c) == IF row[c] = "processing" THEN run[c].outcome ELSE row[c]
AllOf(c) == {Text(run[c].attempt, i) : i \in 0 .. run[c].sent - 1}
FollowerTruth ==
  \A c \in Streamed : view[c].step = "ended" =>
    /\ Heading(c) \in {view[c].told, "cancelled"}
    /\ row[c] = "completed" /\ run[c].attempt = 0 =>
         view[c].heard = AllOf(c)

\* An attempt does not go back to a host on which the job's earlier attempt raised,
\* for as long as the host is to be avoided, unless a call there succeeded since or
\* the model fails everywhere.
RetriesMoveOn ==
  [][\A c \in Calls : LET h == lease'[c] IN
       lease[c] = NoHost /\ h # NoHost /\ blamed[c][h] > 0 =>
         \A k \in Hosts : cooling[Model[c]][k] > 0]_execVars

\* A job with a timeout, or cancelled, comes to its end, and so does whoever follows
\* it, even if the host never answers.
EverybodyEnds ==
  \A c \in Timed \cap Streamed :
    row[c] # "queued" ~> row[c] \in Terminal /\ view[c].step = "ended"
=============================================================================
