----------------------------- MODULE OpRuntime -----------------------------
(***************************************************************************)
(* The operations of boeng: Run, Enter, Step, Fail, Close and CloseWith of  *)
(* boeng/run.go and boeng/enter.go, and the adapters that open operations   *)
(* of their own: the HTTP and gin middlewares around a handler, and the     *)
(* MongoDB monitor, which closes in one callback what it entered in another.*)
(* The redis and rabbit hooks and the HTTP transport are plain calls of Run.*)
(*                                                                         *)
(* A goroutine is a stack of calls, each of which holds one operation, and *)
(* leaves them by returning, by a panic or by runtime.Goexit.  The handle  *)
(* of an entered operation may be shared: any goroutine may call Fail,     *)
(* Step or Close on it while another one is leaving the function that      *)
(* deferred its Close.                                                     *)
(*                                                                         *)
(* One step is one atomic access of a shared handle (its error, its closed *)
(* flag) or one completion: the log line, the metrics and the end of the   *)
(* span belong together.  What an operation reports is its outcome; names, *)
(* subjects, fields, durations and the identity of errors are left out.    *)
(* The MongoDB driver uses a request id again only when its command is over.*)
(***************************************************************************)
EXTENDS Naturals, Sequences, FiniteSets, SequencesExt

CONSTANTS
  Threads,       \* goroutines
  Requests,      \* ids of MongoDB commands
  MaxOps,        \* bound on the number of operations
  MaxDepth       \* bound on the depth of a stack

ASSUME OpAssumption == MaxOps \in Nat /\ MaxDepth \in Nat

Ops == 1..MaxOps
NoOp == 0
Outcomes == {"ok", "error", "panic"}

\* How a call holds its operation: Run and RunR, a handler inside the HTTP or the gin
\* middleware, Step, a function that deferred Close or CloseWith on the operation it entered,
\* and a plain call of Close.
Deferring == {"close", "closeWith"}
Serving == {"http", "gin"}
Kinds == {"run", "step", "call"} \cup Deferring \cup Serving

\* Status codes: 1xx, 2xx to 4xx, 5xx; "unset" as long as there is none.
Codes == {"info", "ok", "fail"}

VARIABLES
  \* goroutines
  stack,         \* the calls that hold an operation, innermost last
  mode,          \* "run", or what unwinds the stack: "panic" or "exit"
  doing,         \* the innermost call runs user code ("fn") or finishes its operation
  rec,           \* recover() returned something in it, to be raised again
  err,           \* its error is not nil
  \* operations
  started,       \* how many were started
  entered,       \* those with a handle
  parent,        \* the operation a step belongs to
  failed,        \* the stored error of a handle is not nil
  closed,        \* the closed flag of a handle
  finishes,      \* the outcomes an operation has reported, one per completion
  \* adapters
  status,        \* what statusWriter recorded; with gin, whether c.Errors has an error
  answer,        \* the status of the response the client gets
  inflight,      \* the operation of each MongoDB command
  \* history
  known,         \* operations that failed, or a step of which did, before they were closed
  raised         \* goroutines in which a panic is under way

calls  == <<stack, mode, doing, rec, err>>
opVars == <<started, entered, parent, failed, closed, finishes>>
adapters == <<status, answer, inflight>>
vars   == <<calls, opVars, adapters, known, raised>>

Init ==
  /\ stack = [t \in Threads |-> <<>>] /\ mode = [t \in Threads |-> "run"]
  /\ doing = [t \in Threads |-> "fn"]
  /\ rec = [t \in Threads |-> FALSE] /\ err = [t \in Threads |-> FALSE]
  /\ started = 0 /\ entered = {} /\ parent = [o \in Ops |-> NoOp]
  /\ failed = {} /\ closed = {} /\ finishes = [o \in Ops |-> <<>>]
  /\ status = [o \in Ops |-> "unset"] /\ answer = [o \in Ops |-> "unset"]
  /\ inflight = [r \in Requests |-> NoOp]
  /\ known = {} /\ raised = {}

\* The goroutine runs user code, with nothing unwinding it.
Running(t) == mode[t] = "run" /\ doing[t] = "fn"

Top(t) == Last(stack[t])

\* The goroutine runs inside the handler of a request, at whatever depth.
Handling(t, o, k) ==
  /\ Running(t)
  /\ \E i \in DOMAIN stack[t] : stack[t][i] = [op |-> o, kind |-> k]

----------------------------------------------------------------------------
(* Starting operations.                                                    *)

\* startOp: a new operation, held by a new call.
StartOp(t, k) ==
  /\ Running(t)
  /\ started < MaxOps /\ Len(stack[t]) < MaxDepth
  /\ started' = started + 1
  /\ stack' = [stack EXCEPT ![t] = Append(@, [op |-> started', kind |-> k])]
  /\ UNCHANGED <<mode, doing, rec, err, failed, closed, finishes, known, raised>>

Run(t) == StartOp(t, "run") /\ UNCHANGED <<entered, parent, adapters>>

\* A request enters the middleware of HTTP (Middleware, Wrap) or of gin.
Serve(t, k) == StartOp(t, k) /\ UNCHANGED <<entered, parent, adapters>>

\* Enter or EnterCtx, with a deferred Close or CloseWith.
Enter(t, k) ==
  /\ StartOp(t, k)
  /\ entered' = entered \cup {started'}
  /\ UNCHANGED <<parent, adapters>>

\* Enter in code that leaves the Close to someone else.
EnterOnly(t) ==
  /\ Running(t)
  /\ started < MaxOps
  /\ started' = started + 1
  /\ entered' = entered \cup {started'}
  /\ UNCHANGED <<calls, parent, failed, closed, finishes, adapters, known, raised>>

\* The driver starts a command: the monitor enters an operation and remembers it.
CommandStarted(t, r) ==
  /\ Running(t)
  /\ started < MaxOps /\ inflight[r] = NoOp
  /\ started' = started + 1
  /\ inflight' = [inflight EXCEPT ![r] = started']
  /\ UNCHANGED <<calls, entered, parent, failed, closed, finishes, status, answer, known,
                 raised>>

\* Step of a handle, closed or not.
Step(t, o) ==
  /\ StartOp(t, "step")
  /\ parent' = [parent EXCEPT ![started'] = o]
  /\ UNCHANGED <<entered, adapters>>

----------------------------------------------------------------------------
(* User code.                                                              *)

\* Fail with an error that is not nil.
Fail(t, o) ==
  /\ Running(t)
  /\ failed' = failed \cup {o}
  /\ known' = IF o \in closed THEN known ELSE known \cup {o}
  /\ UNCHANGED <<calls, started, entered, parent, closed, finishes, adapters, raised>>

\* statusWriter: the last code counts.
RespondLast(t, o, c) ==
  /\ Handling(t, o, "http")
  /\ status' = [status EXCEPT ![o] = c]
  /\ answer' = [answer EXCEPT ![o] = IF @ = "unset" /\ c # "info" THEN c ELSE @]
  /\ UNCHANGED <<calls, opVars, inflight, known, raised>>

\* The handler writes a header, or a body, which implies the code 200.  statusWriter records
\* the first code; the server sends the first that is not informational.
Respond(t, o, c) ==
  /\ Handling(t, o, "http")
  /\ status' = [status EXCEPT ![o] = IF @ = "unset" THEN c ELSE @]
  /\ answer' = [answer EXCEPT ![o] = IF @ = "unset" /\ c # "info" THEN c ELSE @]
  /\ UNCHANGED <<calls, opVars, inflight, known, raised>>

\* c.Error of a gin handler.
AddError(t, o) ==
  /\ Handling(t, o, "gin")
  /\ status' = [status EXCEPT ![o] = "fail"]
  /\ UNCHANGED <<calls, opVars, answer, inflight, known, raised>>

Panic(t) ==
  /\ Running(t)
  /\ mode' = [mode EXCEPT ![t] = "panic"]
  /\ raised' = raised \cup {t}
  /\ UNCHANGED <<stack, doing, rec, err, opVars, adapters, known>>

\* runtime.Goexit, which testing.T.FailNow calls too.
Goexit(t) ==
  /\ Running(t)
  /\ stack[t] # <<>>
  /\ mode' = [mode EXCEPT ![t] = "exit"]
  /\ UNCHANGED <<stack, doing, rec, err, opVars, adapters, known, raised>>

\* A recover of the application, or of the server that runs it.
Recover(t) ==
  /\ mode[t] = "panic" /\ doing[t] = "fn"
  /\ mode' = [mode EXCEPT ![t] = "run"]
  /\ raised' = raised \ {t}
  /\ UNCHANGED <<stack, doing, rec, err, opVars, adapters, known>>

----------------------------------------------------------------------------
(* Leaving a call: the deferred functions run.                             *)

\* recover() stops a panic; it returns nil during Goexit.  The error is the one the panic
\* becomes, or what the function returned, which is nil if it never returned.
Catch(t) ==
  /\ rec' = [rec EXCEPT ![t] = mode[t] = "panic"]
  /\ mode' = [mode EXCEPT ![t] = IF @ = "panic" THEN "run" ELSE @]
  /\ \/ mode[t] = "run" /\ err' = [err EXCEPT ![t] = TRUE]
     \/ err' = [err EXCEPT ![t] = mode[t] = "panic"]
  /\ doing' = [doing EXCEPT ![t] = "finish"]

Leaving(t, K) == stack[t] # <<>> /\ doing[t] = "fn" /\ Top(t).kind \in K

\* Finishes after fn, not in a deferred function, so that Goexit skips it.
LeaveRunInline(t) ==
  /\ Leaving(t, {"run"})
  /\ IF mode[t] = "exit"
     THEN stack' = [stack EXCEPT ![t] = Front(@)] /\ UNCHANGED <<mode, doing, rec, err>>
     ELSE Catch(t) /\ UNCHANGED stack
  /\ UNCHANGED <<opVars, adapters, known, raised>>

LeaveRun(t) ==
  /\ Leaving(t, {"run"})
  /\ Catch(t)
  /\ UNCHANGED <<stack, opVars, adapters, known, raised>>

\* The middleware looks at what the handler left, if the handler returned.  The client's 5xx is
\* known to it unless an informational header came first.
LeaveServing(t) ==
  LET o == Top(t).op
  IN  /\ Leaving(t, Serving)
      /\ rec' = [rec EXCEPT ![t] = mode[t] = "panic"]
      /\ mode' = [mode EXCEPT ![t] = IF @ = "panic" THEN "run" ELSE @]
      /\ err' = [err EXCEPT ![t] = mode[t] = "panic" \/ (mode[t] = "run" /\ status[o] = "fail")]
      /\ doing' = [doing EXCEPT ![t] = "finish"]
      /\ known' = IF mode[t] = "run" /\ "fail" \in {status[o], answer[o]} /\ status[o] # "info"
                  THEN known \cup {o} ELSE known
      /\ UNCHANGED <<stack, opVars, adapters, raised>>

\* Step stores its error in the parent before it finishes.
LeaveStep(t) ==
  /\ Leaving(t, {"step"})
  /\ Catch(t)
  /\ failed' = IF err'[t] THEN failed \cup {parent[Top(t).op]} ELSE failed
  /\ UNCHANGED <<stack, started, entered, parent, closed, finishes, adapters, known,
                 raised>>

\* Tests the flag now and sets it on finishing.
LeaveEnterLate(t) ==
  /\ Leaving(t, Deferring)
  /\ Top(t).op \notin closed
  /\ Catch(t)
  /\ UNCHANGED <<stack, opVars, adapters, known, raised>>

\* The deferred Close or CloseWith wins the closed flag.
LeaveEnter(t) ==
  /\ Leaving(t, Deferring)
  /\ Top(t).op \notin closed
  /\ Catch(t)
  /\ closed' = closed \cup {Top(t).op}
  /\ UNCHANGED <<stack, started, entered, parent, failed, finishes, adapters, known,
                 raised>>

\* The deferred Close or CloseWith finds the operation closed and returns at once.
LeaveClosed(t) ==
  /\ Leaving(t, Deferring)
  /\ Top(t).op \in closed
  /\ stack' = [stack EXCEPT ![t] = Front(@)]
  /\ UNCHANGED <<mode, doing, rec, err, opVars, adapters, known, raised>>

\* A plain call of Close wins the closed flag; with a closed operation it does nothing.
CloseCall(t, o) ==
  /\ Running(t)
  /\ o \notin closed
  /\ closed' = closed \cup {o}
  /\ stack' = [stack EXCEPT ![t] = Append(@, [op |-> o, kind |-> "call"])]
  /\ doing' = [doing EXCEPT ![t] = "finish"]
  /\ UNCHANGED <<mode, rec, err, started, entered, parent, failed, finishes, adapters, known,
                 raised>>

\* The command is over: the monitor takes its operation out of the table, lets it fail and
\* closes it; nobody else has the handle.
CommandEnded(t, r, failure) ==
  LET o == inflight[r]
  IN  /\ Running(t) /\ o # NoOp
      /\ inflight' = [inflight EXCEPT ![r] = NoOp]
      /\ closed' = closed \cup {o}
      /\ failed' = IF failure THEN failed \cup {o} ELSE failed
      /\ known' = IF failure THEN known \cup {o} ELSE known
      /\ stack' = [stack EXCEPT ![t] = Append(@, [op |-> o, kind |-> "call"])]
      /\ doing' = [doing EXCEPT ![t] = "finish"]
      /\ UNCHANGED <<mode, rec, err, started, entered, parent, finishes, status, answer,
                     raised>>

\* A panic is reported as any other error.
OutcomeNoPanic(t) == IF rec[t] \/ err[t] \/ Top(t).op \in failed THEN "error" ELSE "ok"

\* The outcome of the innermost call: the panic, the error that Run, Step and CloseWith
\* know, the error that is stored in the handle, in that order.
Outcome(t) ==
  LET c == Top(t)
  IN  CASE rec[t] -> "panic"
        [] ~rec[t] /\ (\/ c.kind \in {"run", "step", "closeWith"} \cup Serving /\ err[t]
                       \/ c.kind \in Deferring \cup {"call"} /\ c.op \in failed) -> "error"
        [] OTHER -> "ok"

\* Does not raise the panic again.
ReturnSwallow(t) ==
  /\ stack' = [stack EXCEPT ![t] = Front(@)]
  /\ doing' = [doing EXCEPT ![t] = "fn"]
  /\ rec' = [rec EXCEPT ![t] = FALSE]
  /\ err' = [err EXCEPT ![t] = FALSE]
  /\ UNCHANGED mode

\* The call is left, and what it recovered is raised again.
Return(t) ==
  /\ stack' = [stack EXCEPT ![t] = Front(@)]
  /\ doing' = [doing EXCEPT ![t] = "fn"]
  /\ mode' = [mode EXCEPT ![t] = IF rec[t] THEN "panic" ELSE @]
  /\ rec' = [rec EXCEPT ![t] = FALSE]
  /\ err' = [err EXCEPT ![t] = FALSE]

\* finish, and the return of the call.
Finish(t) ==
  LET o == Top(t).op
      p == parent[o]
  IN  /\ doing[t] = "finish"
      /\ finishes' = [finishes EXCEPT ![o] = Append(@, Outcome(t))]
      /\ Return(t)
      /\ known' = IF p \in entered \ closed /\ Outcome(t) # "ok" THEN known \cup {p} ELSE known
      /\ UNCHANGED <<started, entered, parent, failed, closed, adapters, raised>>

Leave(t) == LeaveRun(t) \/ LeaveServing(t) \/ LeaveStep(t) \/ LeaveEnter(t) \/ LeaveClosed(t)

----------------------------------------------------------------------------
\* The run is over.
Finished ==
  /\ \A t \in Threads : stack[t] = <<>>
  /\ UNCHANGED vars

Next ==
  \/ \E t \in Threads :
       \/ Run(t)
       \/ \E k \in Deferring : Enter(t, k)
       \/ EnterOnly(t)
       \/ \E k \in Serving : Serve(t, k)
       \/ \E r \in Requests :
            CommandStarted(t, r) \/ \E failure \in BOOLEAN : CommandEnded(t, r, failure)
       \/ \E o \in entered : Step(t, o) \/ Fail(t, o) \/ CloseCall(t, o)
       \/ \E o \in Ops : AddError(t, o) \/ \E c \in Codes : Respond(t, o, c)
       \/ Panic(t) \/ Goexit(t) \/ Recover(t)
       \/ Leave(t)
       \/ Finish(t)
  \/ Finished

Spec == Init /\ [][Next]_vars

----------------------------------------------------------------------------
(* Properties.                                                             *)

Frames == [op : Ops, kind : Kinds]

Flags == rec \in [Threads -> BOOLEAN] /\ err \in [Threads -> BOOLEAN]

\* A goroutine finishes only what it has entered, with nothing unwinding it but Goexit.
Finishing ==
  \A t \in Threads :
    /\ doing[t] = "finish" => stack[t] # <<>> /\ mode[t] # "panic"
    /\ rec[t] \/ err[t] => doing[t] = "finish"

\* Every variable has its type.
TypeOK ==
  /\ Flags /\ Finishing
  /\ stack \in [Threads -> Seq(Frames)]
  /\ mode \in [Threads -> {"run", "panic", "exit"}]
  /\ doing \in [Threads -> {"fn", "finish"}]
  /\ started \in 0..MaxOps
  /\ entered \subseteq 1..started
  /\ parent \in [Ops -> entered \cup {NoOp}]
  /\ failed \subseteq 1..started /\ closed \subseteq 1..started /\ known \subseteq 1..started
  /\ status \in [Ops -> Codes \cup {"unset"}] /\ answer \in [Ops -> {"unset", "ok", "fail"}]
  /\ inflight \in [Requests -> 0..started]
  /\ finishes \in [Ops -> Seq(Outcomes)]
  /\ raised \subseteq Threads

\* However many goroutines close it, an operation is finished once: it logs one completion
\* line, counts once and ends its span once (comment of Close: safe to call twice).
FinishedOnce == \A o \in Ops : Len(finishes[o]) <= 1

\* An operation is not reported as a success when, before it was closed, Fail was called on
\* it or one of its steps reported a failure (comments of Fail, Step and Success), when its
\* handler returned with a 5xx or an error, or when its command failed (http.go:115-117).
FailureNotHidden == \A o \in known : "ok" \notin ToSet(finishes[o])

\* No panic is swallowed: until the application recovers it, it is under way in its
\* goroutine or in the hands of a deferred function that raises it again (guarantee G4).
PanicNeverSwallowed == \A t \in raised : mode[t] = "panic" \/ rec[t]

\* A call that a panic leaves has reported the panic as the outcome of its operation,
\* unless someone had closed the operation before (guarantee G4).
PanicReported ==
  [][\A t \in Threads :
       (t \in raised /\ Len(stack'[t]) < Len(stack[t])) =>
         \/ "panic" \in ToSet(finishes'[Top(t).op])
         \/ Top(t).kind \in Deferring /\ doing[t] = "fn" /\ Top(t).op \in closed]_vars

\* An operation that was started has reported its completion as soon as no call holds it
\* any more, by whatever way the calls were left; only a handle nobody closed and a command
\* in flight stay open (guarantee G1).
held == UNION {{stack[t][i].op : i \in DOMAIN stack[t]} : t \in Threads}

NoneForgotten ==
  \A o \in (1..started) \ held : finishes[o] # <<>> \/ o \in entered \ closed \/ \E r \in Requests : inflight[r] = o
============================================================================
