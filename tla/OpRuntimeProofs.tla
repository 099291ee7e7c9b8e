-------------------------- MODULE OpRuntimeProofs --------------------------
(***************************************************************************)
(* Proofs about OpRuntime, for any goroutines, requests, number of         *)
(* operations and depth of the stacks.                                     *)
(***************************************************************************)
EXTENDS OpRuntime, TLAPS

----------------------------------------------------------------------------
(* Stacks.                                                                  *)

\* What pushing a frame does to a stack.
LEMMA Pushing ==
  ASSUME NEW s \in Seq(Frames), NEW f \in Frames
  PROVE  /\ Append(s, f) \in Seq(Frames) /\ Append(s, f) # <<>>
         /\ Len(s) \in Nat /\ Len(Append(s, f)) = Len(s) + 1
         /\ Append(s, f)[Len(s) + 1] = f /\ \A i \in 1..Len(s) : Append(s, f)[i] = s[i]
  OBVIOUS

\* What popping one does.
LEMMA Popping ==
  ASSUME NEW s \in Seq(Frames), s # <<>>
  PROVE  /\ Last(s) \in Frames /\ Last(s) = s[Len(s)] /\ Len(s) \in Nat \ {0}
         /\ Front(s) \in Seq(Frames) /\ Len(Front(s)) = Len(s) - 1
         /\ \A i \in 1..(Len(s) - 1) : Front(s)[i] = s[i]
<1>1. Len(s) \in Nat \ {0}
  OBVIOUS
<1>. QED
  BY SMTT(30), <1>1 DEF Last, Front

\* The goroutines' part of the types.
Calls ==
  /\ Flags /\ Finishing /\ stack \in [Threads -> Seq(Frames)]
  /\ mode \in [Threads -> {"run", "panic", "exit"}] /\ doing \in [Threads -> {"fn", "finish"}]

\* A goroutine pushes a frame.
LEMMA Pushed ==
  ASSUME Calls, NEW t \in Threads, NEW f \in Frames, stack' = [stack EXCEPT ![t] = Append(@, f)]
  PROVE  /\ stack' \in [Threads -> Seq(Frames)] /\ stack'[t] # <<>>
         /\ \A u \in Threads \ {t} : stack'[u] = stack[u]
  BY Pushing DEF Calls

\* A goroutine pops one.
LEMMA Popped ==
  ASSUME Calls, NEW t \in Threads, stack[t] # <<>>, stack' = [stack EXCEPT ![t] = Front(@)]
  PROVE  /\ stack' \in [Threads -> Seq(Frames)] /\ Top(t) \in Frames
         /\ \A u \in Threads \ {t} : stack'[u] = stack[u]
  BY Popping DEF Calls, Top

----------------------------------------------------------------------------
(* Types.                                                                   *)

\* The flags stay truth values.
LEMMA NextFlags == Flags /\ [Next]_vars => Flags'
<1>. SUFFICES ASSUME Flags, [Next]_vars PROVE Flags'
  OBVIOUS
<1>. USE DEF Running, calls, opVars, adapters, Flags
<1>1. ASSUME NEW t \in Threads, Run(t) PROVE Flags'
  BY Zenon, <1>1 DEF Run, StartOp
<1>2. ASSUME NEW t \in Threads, NEW k \in Deferring, Enter(t, k) PROVE Flags'
  BY Zenon, <1>2 DEF Enter, StartOp
<1>3. ASSUME NEW t \in Threads, EnterOnly(t) PROVE Flags'
  BY Zenon, <1>3 DEF EnterOnly
<1>4. ASSUME NEW t \in Threads, NEW k \in Serving, Serve(t, k) PROVE Flags'
  BY Zenon, <1>4 DEF Serve, StartOp
<1>5. ASSUME NEW t \in Threads, NEW r \in Requests, CommandStarted(t, r) PROVE Flags'
  BY Zenon, <1>5 DEF CommandStarted
<1>6. ASSUME NEW t \in Threads, NEW r \in Requests, NEW failure \in BOOLEAN, CommandEnded(t, r, failure)
      PROVE  Flags'
  BY Zenon, <1>6 DEF CommandEnded
<1>7. ASSUME NEW t \in Threads, NEW o \in entered, Step(t, o) PROVE Flags'
  BY Zenon, <1>7 DEF Step, StartOp
<1>8. ASSUME NEW t \in Threads, NEW o \in entered, Fail(t, o) PROVE Flags'
  BY Zenon, <1>8 DEF Fail
<1>9. ASSUME NEW t \in Threads, NEW o \in entered, CloseCall(t, o) PROVE Flags'
  BY Zenon, <1>9 DEF CloseCall
<1>10. ASSUME NEW t \in Threads, NEW o \in Ops, AddError(t, o) PROVE Flags'
  BY Zenon, <1>10 DEF AddError
<1>11. ASSUME NEW t \in Threads, NEW o \in Ops, NEW c \in Codes, Respond(t, o, c)
      PROVE  Flags'
  BY Zenon, <1>11 DEF Respond
<1>12. ASSUME NEW t \in Threads, Panic(t) PROVE Flags'
  BY Zenon, <1>12 DEF Panic
<1>13. ASSUME NEW t \in Threads, Goexit(t) PROVE Flags'
  BY Zenon, <1>13 DEF Goexit
<1>14. ASSUME NEW t \in Threads, Recover(t) PROVE Flags'
  BY Zenon, <1>14 DEF Recover
<1>15. ASSUME NEW t \in Threads, LeaveRun(t) PROVE Flags'
  BY Zenon, <1>15 DEF LeaveRun, Leaving, Catch
<1>16. ASSUME NEW t \in Threads, LeaveServing(t) PROVE Flags'
  BY Zenon, <1>16 DEF LeaveServing, Leaving
<1>17. ASSUME NEW t \in Threads, LeaveStep(t) PROVE Flags'
  BY Zenon, <1>17 DEF LeaveStep, Leaving, Catch
<1>18. ASSUME NEW t \in Threads, LeaveEnter(t) PROVE Flags'
  BY Zenon, <1>18 DEF LeaveEnter, Leaving, Catch
<1>19. ASSUME NEW t \in Threads, LeaveClosed(t) PROVE Flags'
  BY Zenon, <1>19 DEF LeaveClosed, Leaving
<1>20. ASSUME NEW t \in Threads, Finish(t) PROVE Flags'
  BY Zenon, <1>20 DEF Finish, Return
<1>21. CASE Finished
  BY Zenon, <1>21 DEF Finished, vars
<1>22. CASE UNCHANGED vars
  BY Zenon, <1>22 DEF vars
<1>. QED
  BY <1>1, <1>2, <1>3, <1>4, <1>5, <1>6, <1>7, <1>8, <1>9, <1>10, <1>11, <1>12, <1>13, <1>14,
     <1>15, <1>16, <1>17, <1>18, <1>19, <1>20, <1>21, <1>22 DEF Next, Leave

\* The deferred function has the panic in its hands, and finishes.
LEMMA Caught ==
  ASSUME Calls, NEW t \in Threads, Catch(t)
  PROVE  /\ doing'[t] = "finish" /\ mode'[t] # "panic" /\ (mode[t] = "panic" => rec'[t])
         /\ \A u \in Threads \ {t} : /\ doing'[u] = doing[u] /\ mode'[u] = mode[u]
                                     /\ (rec'[u] <=> rec[u]) /\ (err'[u] <=> err[u])
<1>1. /\ doing'[t] = "finish" /\ mode'[t] # "panic"
      /\ \A u \in Threads \ {t} : doing'[u] = doing[u] /\ mode'[u] = mode[u]
  BY DEF Calls, Catch
<1>2. (mode[t] = "panic" => rec'[t]) /\ \A u \in Threads \ {t} : (rec'[u] <=> rec[u]) /\ (err'[u] <=> err[u])
  BY Zenon DEF Calls, Flags, Catch
<1>. QED
  BY <1>1, <1>2

\* Once the call is left, nothing is in anybody's hands.
LEMMA Returned ==
  ASSUME Calls, NEW t \in Threads, Return(t)
  PROVE  /\ doing'[t] = "fn" /\ ~rec'[t] /\ ~err'[t]
         /\ mode'[t] = (IF rec[t] THEN "panic" ELSE mode[t])
         /\ \A u \in Threads \ {t} : /\ doing'[u] = doing[u] /\ mode'[u] = mode[u]
                                     /\ (rec'[u] <=> rec[u]) /\ (err'[u] <=> err[u])
<1>1. doing'[t] = "fn" /\ \A u \in Threads \ {t} : doing'[u] = doing[u] /\ mode'[u] = mode[u]
  BY DEF Calls, Return
<1>2. /\ ~rec'[t] /\ ~err'[t] /\ mode'[t] = (IF rec[t] THEN "panic" ELSE mode[t])
      /\ \A u \in Threads \ {t} : (rec'[u] <=> rec[u]) /\ (err'[u] <=> err[u])
  BY Zenon DEF Calls, Flags, Return
<1>. QED
  BY <1>1, <1>2

\* The frames that are pushed.
LEMMA Framed ==
  ASSUME TypeOK
  PROVE  /\ started < MaxOps => \A k \in Kinds : [op |-> started + 1, kind |-> k] \in Frames
         /\ \A o \in entered : [op |-> o, kind |-> "call"] \in Frames
         /\ \A r \in Requests : inflight[r] # NoOp => [op |-> inflight[r], kind |-> "call"] \in Frames
  BY OpAssumption DEF TypeOK, Frames, Kinds, Ops, NoOp

\* A call that finishes has stopped the panic, and has something to leave.
LEMMA NextFinishing == TypeOK /\ [Next]_vars => Finishing'
<1>. SUFFICES ASSUME TypeOK, [Next]_vars PROVE Finishing'
  OBVIOUS
<1>. Calls
  BY DEF TypeOK, Calls
<1>. USE DEF Calls
<1>. USE DEF Running, calls, opVars, adapters, Finishing
<1>1. ASSUME NEW t \in Threads, Run(t) PROVE Finishing'
  BY <1>1 DEF Run, StartOp
<1>2. ASSUME NEW t \in Threads, NEW k \in Deferring, Enter(t, k) PROVE Finishing'
  BY <1>2 DEF Enter, StartOp
<1>3. ASSUME NEW t \in Threads, EnterOnly(t) PROVE Finishing'
  BY <1>3 DEF EnterOnly
<1>4. ASSUME NEW t \in Threads, NEW k \in Serving, Serve(t, k) PROVE Finishing'
  BY <1>4 DEF Serve, StartOp
<1>5. ASSUME NEW t \in Threads, NEW r \in Requests, CommandStarted(t, r) PROVE Finishing'
  BY <1>5 DEF CommandStarted
<1>6. ASSUME NEW t \in Threads, NEW r \in Requests, NEW failure \in BOOLEAN, CommandEnded(t, r, failure)
      PROVE  Finishing'
  <2>. stack'[t] # <<>>
    BY <1>6, Framed, Pushed DEF CommandEnded
  <2>. QED
    BY <1>6, Framed, Pushed DEF CommandEnded
<1>7. ASSUME NEW t \in Threads, NEW o \in entered, Step(t, o) PROVE Finishing'
  BY <1>7 DEF Step, StartOp
<1>8. ASSUME NEW t \in Threads, NEW o \in entered, Fail(t, o) PROVE Finishing'
  BY <1>8 DEF Fail
<1>9. ASSUME NEW t \in Threads, NEW o \in entered, CloseCall(t, o) PROVE Finishing'
  <2>. stack'[t] # <<>>
    BY <1>9, Framed, Pushed DEF CloseCall
  <2>. QED
    BY <1>9, Framed, Pushed DEF CloseCall
<1>10. ASSUME NEW t \in Threads, NEW o \in Ops, AddError(t, o) PROVE Finishing'
  BY <1>10 DEF AddError
<1>11. ASSUME NEW t \in Threads, NEW o \in Ops, NEW c \in Codes, Respond(t, o, c)
      PROVE  Finishing'
  BY <1>11 DEF Respond
<1>12. ASSUME NEW t \in Threads, Panic(t) PROVE Finishing'
  BY <1>12 DEF Panic
<1>13. ASSUME NEW t \in Threads, Goexit(t) PROVE Finishing'
  BY <1>13 DEF Goexit
<1>14. ASSUME NEW t \in Threads, Recover(t) PROVE Finishing'
  BY <1>14 DEF Recover
<1>15. ASSUME NEW t \in Threads, LeaveRun(t) PROVE Finishing'
  <2>. Catch(t) /\ stack' = stack
    BY <1>15 DEF LeaveRun
  <2>. stack[t] # <<>>
    BY <1>15 DEF LeaveRun, Leaving
  <2>. QED
    BY Caught DEF Calls
<1>16. ASSUME NEW t \in Threads, LeaveServing(t) PROVE Finishing'
  BY <1>16 DEF LeaveServing, Leaving
<1>17. ASSUME NEW t \in Threads, LeaveStep(t) PROVE Finishing'
  <2>. Catch(t) /\ stack' = stack
    BY <1>17 DEF LeaveStep
  <2>. stack[t] # <<>>
    BY <1>17 DEF LeaveStep, Leaving
  <2>. QED
    BY Caught DEF Calls
<1>18. ASSUME NEW t \in Threads, LeaveEnter(t) PROVE Finishing'
  <2>. Catch(t) /\ stack' = stack
    BY <1>18 DEF LeaveEnter
  <2>. stack[t] # <<>>
    BY <1>18 DEF LeaveEnter, Leaving
  <2>. QED
    BY Caught DEF Calls
<1>19. ASSUME NEW t \in Threads, LeaveClosed(t) PROVE Finishing'
  BY <1>19 DEF LeaveClosed, Leaving
<1>20. ASSUME NEW t \in Threads, Finish(t) PROVE Finishing'
  <2>. stack[t] # <<>> /\ Return(t)
    BY <1>20 DEF Finish
  <2>. \A u \in Threads \ {t} : stack'[u] = stack[u]
    BY Popped DEF Return
  <2>. QED
    BY Returned
<1>21. CASE Finished
  BY <1>21 DEF Finished, vars
<1>22. CASE UNCHANGED vars
  BY <1>22 DEF vars
<1>. QED
  BY <1>1, <1>2, <1>3, <1>4, <1>5, <1>6, <1>7, <1>8, <1>9, <1>10, <1>11, <1>12, <1>13, <1>14,
     <1>15, <1>16, <1>17, <1>18, <1>19, <1>20, <1>21, <1>22 DEF Next, Leave

\* The other parts of the types.
Shapes ==
  /\ stack \in [Threads -> Seq(Frames)]
  /\ mode \in [Threads -> {"run", "panic", "exit"}] /\ doing \in [Threads -> {"fn", "finish"}]

Handles ==
  /\ started \in 0..MaxOps /\ entered \subseteq 1..started /\ parent \in [Ops -> entered \cup {NoOp}]
  /\ failed \subseteq 1..started /\ closed \subseteq 1..started /\ known \subseteq 1..started
  /\ inflight \in [Requests -> 0..started]

Reports ==
  /\ status \in [Ops -> Codes \cup {"unset"}] /\ answer \in [Ops -> {"unset", "ok", "fail"}]
  /\ finishes \in [Ops -> Seq(Outcomes)] /\ raised \subseteq Threads

\* The stacks hold frames.
LEMMA NextShapes == TypeOK /\ [Next]_vars => Shapes'
<1>. SUFFICES ASSUME TypeOK, [Next]_vars PROVE Shapes'
  OBVIOUS
<1>. Calls
  BY DEF TypeOK, Calls
<1>. Shapes
  BY DEF TypeOK, Shapes
<1>. USE DEF Running, calls, opVars, adapters, Shapes
<1>1. ASSUME NEW t \in Threads, Run(t) PROVE Shapes'
  <2>. stack' \in [Threads -> Seq(Frames)]
    BY <1>1, Framed, Pushed DEF Run, StartOp, Kinds, Deferring, Serving
  <2>. QED
    BY <1>1 DEF Run, StartOp
<1>2. ASSUME NEW t \in Threads, NEW k \in Deferring, Enter(t, k) PROVE Shapes'
  <2>. stack' \in [Threads -> Seq(Frames)]
    BY <1>2, Framed, Pushed DEF Enter, StartOp, Kinds, Deferring, Serving
  <2>. QED
    BY <1>2 DEF Enter, StartOp
<1>3. ASSUME NEW t \in Threads, EnterOnly(t) PROVE Shapes'
  BY <1>3 DEF EnterOnly
<1>4. ASSUME NEW t \in Threads, NEW k \in Serving, Serve(t, k) PROVE Shapes'
  <2>. stack' \in [Threads -> Seq(Frames)]
    BY <1>4, Framed, Pushed DEF Serve, StartOp, Kinds, Deferring, Serving
  <2>. QED
    BY <1>4 DEF Serve, StartOp
<1>5. ASSUME NEW t \in Threads, NEW r \in Requests, CommandStarted(t, r) PROVE Shapes'
  BY <1>5 DEF CommandStarted
<1>6. ASSUME NEW t \in Threads, NEW r \in Requests, NEW failure \in BOOLEAN, CommandEnded(t, r, failure)
      PROVE  Shapes'
  <2>. stack' \in [Threads -> Seq(Frames)]
    BY <1>6, Framed, Pushed DEF CommandEnded, Kinds, Deferring, Serving
  <2>. QED
    BY <1>6 DEF CommandEnded
<1>7. ASSUME NEW t \in Threads, NEW o \in entered, Step(t, o) PROVE Shapes'
  <2>. stack' \in [Threads -> Seq(Frames)]
    BY <1>7, Framed, Pushed DEF Step, StartOp, Kinds, Deferring, Serving
  <2>. QED
    BY <1>7 DEF Step, StartOp
<1>8. ASSUME NEW t \in Threads, NEW o \in entered, Fail(t, o) PROVE Shapes'
  BY <1>8 DEF Fail
<1>9. ASSUME NEW t \in Threads, NEW o \in entered, CloseCall(t, o) PROVE Shapes'
  <2>. stack' \in [Threads -> Seq(Frames)]
    BY <1>9, Framed, Pushed DEF CloseCall, Kinds, Deferring, Serving
  <2>. QED
    BY <1>9 DEF CloseCall
<1>10. ASSUME NEW t \in Threads, NEW o \in Ops, AddError(t, o) PROVE Shapes'
  BY <1>10 DEF AddError
<1>11. ASSUME NEW t \in Threads, NEW o \in Ops, NEW c \in Codes, Respond(t, o, c)
      PROVE  Shapes'
  BY <1>11 DEF Respond
<1>12. ASSUME NEW t \in Threads, Panic(t) PROVE Shapes'
  BY <1>12 DEF Panic
<1>13. ASSUME NEW t \in Threads, Goexit(t) PROVE Shapes'
  BY <1>13 DEF Goexit
<1>14. ASSUME NEW t \in Threads, Recover(t) PROVE Shapes'
  BY <1>14 DEF Recover
<1>15. ASSUME NEW t \in Threads, LeaveRun(t) PROVE Shapes'
  BY <1>15 DEF LeaveRun, Leaving, Catch
<1>16. ASSUME NEW t \in Threads, LeaveServing(t) PROVE Shapes'
  BY <1>16 DEF LeaveServing, Leaving
<1>17. ASSUME NEW t \in Threads, LeaveStep(t) PROVE Shapes'
  BY <1>17 DEF LeaveStep, Leaving, Catch
<1>18. ASSUME NEW t \in Threads, LeaveEnter(t) PROVE Shapes'
  BY <1>18 DEF LeaveEnter, Leaving, Catch
<1>19. ASSUME NEW t \in Threads, LeaveClosed(t) PROVE Shapes'
  <2>. stack' \in [Threads -> Seq(Frames)]
    BY <1>19, Popped DEF LeaveClosed, Leaving
  <2>. QED
    BY <1>19 DEF LeaveClosed, Leaving
<1>20. ASSUME NEW t \in Threads, Finish(t) PROVE Shapes'
  <2>. Return(t) /\ stack[t] # <<>>
    BY <1>20 DEF Finish, Calls, Finishing
  <2>. stack' \in [Threads -> Seq(Frames)]
    BY Popped DEF Return
  <2>. QED
    BY Returned DEF Return
<1>21. CASE Finished
  BY <1>21 DEF Finished, vars
<1>22. CASE UNCHANGED vars
  BY <1>22 DEF vars
<1>. QED
  BY <1>1, <1>2, <1>3, <1>4, <1>5, <1>6, <1>7, <1>8, <1>9, <1>10, <1>11, <1>12, <1>13, <1>14,
     <1>15, <1>16, <1>17, <1>18, <1>19, <1>20, <1>21, <1>22 DEF Next, Leave

----------------------------------------------------------------------------
(* Who may finish an operation.                                             *)

Own == {"run", "step"} \cup Serving

\* The call that will finish its operation: the one that opened it, or the Close that has won.
Finishes(t, i) == doing[t] = "finish" /\ i = Len(stack[t])
Right(t, i) == stack[t][i].kind \in Own \/ Finishes(t, i)

\* What a call holds: an operation without a handle is finished by the call that opened it,
\* and one with a handle by nobody before it is closed.
HeldAt(t, i) ==
  LET o == stack[t][i].op
      k == stack[t][i].kind
  IN  /\ o \in 1..started
      /\ k \in Own => o \notin entered \cup closed
      /\ k \in Deferring => o \in entered
      /\ k = "call" => Finishes(t, i)
      /\ IF k = "step" THEN parent[o] \in entered ELSE parent[o] = NoOp
      /\ Right(t, i) => o \notin entered \ closed /\ finishes[o] = <<>>

Held == \A t \in Threads : \A i \in 1..Len(stack[t]) : HeldAt(t, i)

\* No two calls have the right to finish the same operation.
Sole ==
  \A t, u \in Threads : \A i \in 1..Len(stack[t]), j \in 1..Len(stack[u]) :
    Right(t, i) /\ Right(u, j) /\ stack[t][i].op = stack[u][j].op => t = u /\ i = j

\* What nobody has finished yet: what is not started or not closed, and commands in flight,
\* which no call holds.
Unheld ==
  /\ \A o \in Ops : o > started \/ o \in entered \ closed => finishes[o] = <<>>
  /\ \A o \in Ops : o > started \/ o \in entered => parent[o] = NoOp
  /\ \A r \in Requests : inflight[r] # NoOp =>
       /\ inflight[r] \notin entered \cup closed
       /\ finishes[inflight[r]] = <<>> /\ parent[inflight[r]] = NoOp
       /\ \A q \in Requests : inflight[q] = inflight[r] => q = r
       /\ \A t \in Threads : \A i \in 1..Len(stack[t]) : stack[t][i].op # inflight[r]

IInv == TypeOK /\ Held /\ Sole /\ Unheld

\* The innermost call is one of the stack's.
LEMMA TopHeld ==
  ASSUME TypeOK, NEW t \in Threads, stack[t] # <<>>
  PROVE  /\ Len(stack[t]) \in 1..Len(stack[t]) /\ Top(t) = stack[t][Len(stack[t])]
         /\ Top(t) \in Frames /\ (Held => HeldAt(t, Len(stack[t])))
<1>1. /\ Len(stack[t]) \in 1..Len(stack[t]) /\ Top(t) = stack[t][Len(stack[t])] /\ Top(t) \in Frames
  BY Popping DEF TypeOK, Top
<1>. QED
  BY <1>1 DEF Held

\* Only what was started is entered, closed, failed or in flight.
LEMMA NextHandles == TypeOK /\ Held /\ [Next]_vars => Handles'
<1>. SUFFICES ASSUME TypeOK, Held, [Next]_vars PROVE Handles'
  OBVIOUS
<1>. Handles
  BY DEF TypeOK, Handles
<1>. \A u \in Threads : stack[u] # <<>> =>
       Top(u).op \in 1..started /\ (Top(u).kind = "step" => parent[Top(u).op] \in entered)
  BY TopHeld DEF HeldAt
<1>. USE OpAssumption
<1>. USE DEF Running, calls, opVars, adapters, Handles, Ops, NoOp
<1>1. ASSUME NEW t \in Threads, Run(t) PROVE Handles'
  BY <1>1 DEF Run, StartOp
<1>2. ASSUME NEW t \in Threads, NEW k \in Deferring, Enter(t, k) PROVE Handles'
  BY <1>2 DEF Enter, StartOp
<1>3. ASSUME NEW t \in Threads, EnterOnly(t) PROVE Handles'
  <2>1. entered' \subseteq 1..started' /\ entered \subseteq entered'
    BY <1>3 DEF EnterOnly
  <2>2. parent' \in [Ops -> entered' \cup {NoOp}]
    BY <1>3, <2>1 DEF EnterOnly
  <2>. QED
    BY <1>3, <2>1, <2>2 DEF EnterOnly
<1>4. ASSUME NEW t \in Threads, NEW k \in Serving, Serve(t, k) PROVE Handles'
  BY <1>4 DEF Serve, StartOp
<1>5. ASSUME NEW t \in Threads, NEW r \in Requests, CommandStarted(t, r) PROVE Handles'
  BY <1>5 DEF CommandStarted
<1>6. ASSUME NEW t \in Threads, NEW r \in Requests, NEW failure \in BOOLEAN, CommandEnded(t, r, failure)
      PROVE  Handles'
  <2>1. inflight[r] \in 1..started
    BY <1>6 DEF CommandEnded
  <2>2. inflight' \in [Requests -> 0..started]
    BY <1>6 DEF CommandEnded
  <2>3. failed' \subseteq 1..started /\ known' \subseteq 1..started
    BY <1>6, <2>1 DEF CommandEnded
  <2>. QED
    BY <1>6, <2>1, <2>2, <2>3 DEF CommandEnded
<1>7. ASSUME NEW t \in Threads, NEW o \in entered, Step(t, o) PROVE Handles'
  BY <1>7 DEF Step, StartOp
<1>8. ASSUME NEW t \in Threads, NEW o \in entered, Fail(t, o) PROVE Handles'
  BY <1>8 DEF Fail
<1>9. ASSUME NEW t \in Threads, NEW o \in entered, CloseCall(t, o) PROVE Handles'
  BY <1>9 DEF CloseCall
<1>10. ASSUME NEW t \in Threads, NEW o \in Ops, AddError(t, o) PROVE Handles'
  BY <1>10 DEF AddError
<1>11. ASSUME NEW t \in Threads, NEW o \in Ops, NEW c \in Codes, Respond(t, o, c)
      PROVE  Handles'
  BY <1>11 DEF Respond
<1>12. ASSUME NEW t \in Threads, Panic(t) PROVE Handles'
  BY <1>12 DEF Panic
<1>13. ASSUME NEW t \in Threads, Goexit(t) PROVE Handles'
  BY <1>13 DEF Goexit
<1>14. ASSUME NEW t \in Threads, Recover(t) PROVE Handles'
  BY <1>14 DEF Recover
<1>15. ASSUME NEW t \in Threads, LeaveRun(t) PROVE Handles'
  BY <1>15 DEF LeaveRun, Leaving, Catch
<1>16. ASSUME NEW t \in Threads, LeaveServing(t) PROVE Handles'
  BY <1>16 DEF LeaveServing, Leaving
<1>17. ASSUME NEW t \in Threads, LeaveStep(t) PROVE Handles'
  BY <1>17 DEF LeaveStep, Leaving, Catch
<1>18. ASSUME NEW t \in Threads, LeaveEnter(t) PROVE Handles'
  BY <1>18 DEF LeaveEnter, Leaving, Catch
<1>19. ASSUME NEW t \in Threads, LeaveClosed(t) PROVE Handles'
  BY <1>19 DEF LeaveClosed, Leaving
<1>20. ASSUME NEW t \in Threads, Finish(t) PROVE Handles'
  BY <1>20 DEF Finish, Return
<1>21. CASE Finished
  BY <1>21 DEF Finished, vars
<1>22. CASE UNCHANGED vars
  BY <1>22 DEF vars
<1>. QED
  BY <1>1, <1>2, <1>3, <1>4, <1>5, <1>6, <1>7, <1>8, <1>9, <1>10, <1>11, <1>12, <1>13, <1>14,
     <1>15, <1>16, <1>17, <1>18, <1>19, <1>20, <1>21, <1>22 DEF Next, Leave

\* Statuses and outcomes.
LEMMA NextReports == TypeOK /\ [Next]_vars => Reports'
<1>. SUFFICES ASSUME TypeOK, [Next]_vars PROVE Reports'
  OBVIOUS
<1>. Calls /\ Reports
  BY DEF TypeOK, Calls, Reports
<1>. USE DEF Running, calls, opVars, adapters, Reports, Codes
<1>1. ASSUME NEW t \in Threads, Run(t) PROVE Reports'
  BY <1>1 DEF Run, StartOp
<1>2. ASSUME NEW t \in Threads, NEW k \in Deferring, Enter(t, k) PROVE Reports'
  BY <1>2 DEF Enter, StartOp
<1>3. ASSUME NEW t \in Threads, EnterOnly(t) PROVE Reports'
  BY <1>3 DEF EnterOnly
<1>4. ASSUME NEW t \in Threads, NEW k \in Serving, Serve(t, k) PROVE Reports'
  BY <1>4 DEF Serve, StartOp
<1>5. ASSUME NEW t \in Threads, NEW r \in Requests, CommandStarted(t, r) PROVE Reports'
  BY <1>5 DEF CommandStarted
<1>6. ASSUME NEW t \in Threads, NEW r \in Requests, NEW failure \in BOOLEAN, CommandEnded(t, r, failure)
      PROVE  Reports'
  BY <1>6 DEF CommandEnded
<1>7. ASSUME NEW t \in Threads, NEW o \in entered, Step(t, o) PROVE Reports'
  BY <1>7 DEF Step, StartOp
<1>8. ASSUME NEW t \in Threads, NEW o \in entered, Fail(t, o) PROVE Reports'
  BY <1>8 DEF Fail
<1>9. ASSUME NEW t \in Threads, NEW o \in entered, CloseCall(t, o) PROVE Reports'
  BY <1>9 DEF CloseCall
<1>10. ASSUME NEW t \in Threads, NEW o \in Ops, AddError(t, o) PROVE Reports'
  BY <1>10 DEF AddError
<1>11. ASSUME NEW t \in Threads, NEW o \in Ops, NEW c \in Codes, Respond(t, o, c)
      PROVE  Reports'
  BY <1>11 DEF Respond
<1>12. ASSUME NEW t \in Threads, Panic(t) PROVE Reports'
  BY <1>12 DEF Panic
<1>13. ASSUME NEW t \in Threads, Goexit(t) PROVE Reports'
  BY <1>13 DEF Goexit
<1>14. ASSUME NEW t \in Threads, Recover(t) PROVE Reports'
  BY <1>14 DEF Recover
<1>15. ASSUME NEW t \in Threads, LeaveRun(t) PROVE Reports'
  BY <1>15 DEF LeaveRun, Leaving, Catch
<1>16. ASSUME NEW t \in Threads, LeaveServing(t) PROVE Reports'
  BY <1>16 DEF LeaveServing, Leaving
<1>17. ASSUME NEW t \in Threads, LeaveStep(t) PROVE Reports'
  BY <1>17 DEF LeaveStep, Leaving, Catch
<1>18. ASSUME NEW t \in Threads, LeaveEnter(t) PROVE Reports'
  BY <1>18 DEF LeaveEnter, Leaving, Catch
<1>19. ASSUME NEW t \in Threads, LeaveClosed(t) PROVE Reports'
  BY <1>19 DEF LeaveClosed, Leaving
<1>20. ASSUME NEW t \in Threads, Finish(t) PROVE Reports'
  <2>. Outcome(t) \in Outcomes
    BY DEF Outcome, Outcomes
  <2>1. finishes' = [finishes EXCEPT ![Top(t).op] = Append(@, Outcome(t))]
    BY <1>20 DEF Finish
  <2>2. \A q \in Seq(Outcomes) : Append(q, Outcome(t)) \in Seq(Outcomes)
    OBVIOUS
  <2>3. finishes' \in [Ops -> Seq(Outcomes)]
    BY <2>1, <2>2
  <2>. QED
    BY <1>20, <2>3 DEF Finish, Return
<1>21. CASE Finished
  BY <1>21 DEF Finished, vars
<1>22. CASE UNCHANGED vars
  BY <1>22 DEF vars
<1>. QED
  BY <1>1, <1>2, <1>3, <1>4, <1>5, <1>6, <1>7, <1>8, <1>9, <1>10, <1>11, <1>12, <1>13, <1>14,
     <1>15, <1>16, <1>17, <1>18, <1>19, <1>20, <1>21, <1>22 DEF Next, Leave

\* Every step keeps the types.
LEMMA NextTypeOK == TypeOK /\ Held /\ [Next]_vars => TypeOK'
  BY NextFlags, NextFinishing, NextShapes, NextHandles, NextReports DEF TypeOK, Shapes,
     Handles, Reports

----------------------------------------------------------------------------
(* What the steps do to the stacks.                                         *)

\* A goroutine pushes a frame: the others stay where they are.
LEMMA Push ==
  ASSUME TypeOK, NEW t \in Threads, NEW f \in Frames, stack' = [stack EXCEPT ![t] = Append(@, f)],
         NEW u \in Threads, NEW i \in 1..Len(stack'[u])
  PROVE  \/ u = t /\ i = Len(stack[t]) + 1 /\ stack'[u][i] = f /\ i = Len(stack'[u])
         \/ i \in 1..Len(stack[u]) /\ stack'[u][i] = stack[u][i] /\ (u = t => i # Len(stack'[u]))
                                    /\ (u # t => stack'[u] = stack[u])
<1>1. CASE u = t
  <2>1. stack'[u] = Append(stack[u], f) /\ stack[u] \in Seq(Frames)
    BY <1>1 DEF TypeOK
  <2>2. /\ Len(stack[u]) \in Nat /\ Len(stack'[u]) = Len(stack[u]) + 1
        /\ stack'[u][Len(stack[u]) + 1] = f /\ \A j \in 1..Len(stack[u]) : stack'[u][j] = stack[u][j]
    BY <2>1, Pushing
  <2>. QED
    BY <1>1, <2>2
<1>2. CASE u # t
  BY <1>2 DEF TypeOK
<1>. QED
  BY <1>1, <1>2

\* A goroutine pops its innermost frame.
LEMMA Pop ==
  ASSUME TypeOK, NEW t \in Threads, stack[t] # <<>>, stack' = [stack EXCEPT ![t] = Front(@)],
         NEW u \in Threads, NEW i \in 1..Len(stack'[u])
  PROVE  /\ i \in 1..Len(stack[u]) /\ stack'[u][i] = stack[u][i]
         /\ u = t => i # Len(stack[u])
         /\ u # t => stack'[u] = stack[u]
<1>1. CASE u = t
  <2>1. stack'[u] = Front(stack[u]) /\ stack[u] \in Seq(Frames)
    BY <1>1 DEF TypeOK
  <2>2. /\ Len(stack[u]) \in Nat \ {0} /\ Len(stack'[u]) = Len(stack[u]) - 1
        /\ \A j \in 1..(Len(stack[u]) - 1) : stack'[u][j] = stack[u][j]
    BY SMTT(30), <1>1, <2>1, Popping
  <2>. QED
    BY <1>1, <2>2
<1>2. CASE u # t
  BY <1>2 DEF TypeOK
<1>. QED
  BY <1>1, <1>2

\* An operation about to be started is new to everybody.
LEMMA NewOp ==
  ASSUME TypeOK, Unheld, started < MaxOps
  PROVE  /\ started \in Nat /\ started + 1 \in Ops \ (entered \cup closed \cup failed \cup known)
         /\ finishes[started + 1] = <<>> /\ parent[started + 1] = NoOp
<1>1. started \in Nat /\ started + 1 \in Ops /\ started + 1 \notin 1..started /\ started + 1 > started
  BY OpAssumption DEF TypeOK, Ops
<1>2. started + 1 \notin entered \cup closed \cup failed \cup known
  BY <1>1 DEF TypeOK
<1>. QED
  BY <1>1, <1>2 DEF Unheld

\* Every step keeps what the calls hold.
LEMMA NextHeld == IInv /\ [Next]_vars => Held'
<1>. SUFFICES ASSUME IInv, [Next]_vars PROVE Held'
  OBVIOUS
<1>. Shapes /\ Handles /\ Reports
  BY DEF IInv, TypeOK, Shapes, Handles, Reports
<1>. Finishing /\ Sole /\ Unheld /\ Held /\ TypeOK
  BY DEF IInv, TypeOK
<1>. USE DEF Running, calls, opVars, adapters, HeldAt, Right, Finishes, Shapes, Handles,
   Reports, Own, Serving, Deferring, Ops, NoOp
<1>1. ASSUME NEW t \in Threads, Run(t) PROVE Held'
  <2>. [op |-> started + 1, kind |-> "run"] \in Frames
    BY <1>1, Framed DEF Run, StartOp, Kinds, Deferring, Serving
  <2>1. stack' = [stack EXCEPT ![t] = Append(@, [op |-> started + 1, kind |-> "run"])]
    BY <1>1 DEF Run, StartOp
  <2>. SUFFICES ASSUME NEW u \in Threads, NEW i \in 1..Len(stack'[u]) PROVE HeldAt(u, i)'
    BY DEF Held
  <2>2. CASE u = t /\ stack'[u][i] = [op |-> started + 1, kind |-> "run"] /\ i = Len(stack'[u])
    <3>1. stack'[u][i].op = started + 1 /\ stack'[u][i].kind = "run"
      BY <2>2
    <3>2. /\ started + 1 \in Ops \ (entered \cup closed) /\ started' = started + 1 /\ started \in Nat
          /\ finishes[started + 1] = <<>> /\ parent[started + 1] = NoOp
      BY <1>1, NewOp DEF Run, StartOp
    <3>. QED
      BY <1>1, <2>2, <3>1, <3>2 DEF Run, StartOp
  <2>3. CASE /\ i \in 1..Len(stack[u]) /\ stack'[u][i] = stack[u][i] /\ (u = t => i # Len(stack'[u]))
             /\ (u # t => stack'[u] = stack[u])
    <3>. HeldAt(u, i)
      BY <2>3 DEF Held
    <3>. QED
      BY SMTT(30), <1>1, <2>3 DEF Run, StartOp
  <2>4. \/ u = t /\ stack'[u][i] = [op |-> started + 1, kind |-> "run"] /\ i = Len(stack'[u])
        \/ /\ i \in 1..Len(stack[u]) /\ stack'[u][i] = stack[u][i] /\ (u = t => i # Len(stack'[u]))
           /\ (u # t => stack'[u] = stack[u])
    BY <2>1, Push
  <2>. QED
    BY <2>2, <2>3, <2>4
<1>2. ASSUME NEW t \in Threads, NEW k \in Deferring, Enter(t, k) PROVE Held'
  <2>. [op |-> started + 1, kind |-> k] \in Frames
    BY <1>2, Framed DEF Enter, StartOp, Kinds, Deferring, Serving
  <2>1. stack' = [stack EXCEPT ![t] = Append(@, [op |-> started + 1, kind |-> k])]
    BY <1>2 DEF Enter, StartOp
  <2>. SUFFICES ASSUME NEW u \in Threads, NEW i \in 1..Len(stack'[u]) PROVE HeldAt(u, i)'
    BY DEF Held
  <2>2. CASE u = t /\ stack'[u][i] = [op |-> started + 1, kind |-> k] /\ i = Len(stack'[u])
    <3>1. stack'[u][i].op = started + 1 /\ stack'[u][i].kind = k
      BY <2>2
    <3>2. /\ started + 1 \in Ops \ (entered \cup closed) /\ started' = started + 1 /\ started \in Nat
          /\ finishes[started + 1] = <<>> /\ parent[started + 1] = NoOp
      BY <1>2, NewOp DEF Enter, StartOp
    <3>. QED
      BY <1>2, <2>2, <3>1, <3>2 DEF Enter, StartOp
  <2>3. CASE /\ i \in 1..Len(stack[u]) /\ stack'[u][i] = stack[u][i] /\ (u = t => i # Len(stack'[u]))
             /\ (u # t => stack'[u] = stack[u])
    <3>. HeldAt(u, i)
      BY <2>3 DEF Held
    <3>. QED
      BY <1>2, <2>3 DEF Enter, StartOp
  <2>4. \/ u = t /\ stack'[u][i] = [op |-> started + 1, kind |-> k] /\ i = Len(stack'[u])
        \/ /\ i \in 1..Len(stack[u]) /\ stack'[u][i] = stack[u][i] /\ (u = t => i # Len(stack'[u]))
           /\ (u # t => stack'[u] = stack[u])
    BY <2>1, Push
  <2>. QED
    BY <2>2, <2>3, <2>4
<1>3. ASSUME NEW t \in Threads, EnterOnly(t) PROVE Held'
  <2>. SUFFICES ASSUME NEW u \in Threads, NEW i \in 1..Len(stack[u]) PROVE HeldAt(u, i)'
    BY <1>3 DEF Held, EnterOnly
  <2>. HeldAt(u, i)
    BY DEF Held
  <2>. QED
    BY <1>3 DEF EnterOnly
<1>4. ASSUME NEW t \in Threads, NEW k \in Serving, Serve(t, k) PROVE Held'
  <2>. [op |-> started + 1, kind |-> k] \in Frames
    BY <1>4, Framed DEF Serve, StartOp, Kinds, Deferring, Serving
  <2>1. stack' = [stack EXCEPT ![t] = Append(@, [op |-> started + 1, kind |-> k])]
    BY <1>4 DEF Serve, StartOp
  <2>. SUFFICES ASSUME NEW u \in Threads, NEW i \in 1..Len(stack'[u]) PROVE HeldAt(u, i)'
    BY DEF Held
  <2>2. CASE u = t /\ stack'[u][i] = [op |-> started + 1, kind |-> k] /\ i = Len(stack'[u])
    <3>1. stack'[u][i].op = started + 1 /\ stack'[u][i].kind = k
      BY <2>2
    <3>2. /\ started + 1 \in Ops \ (entered \cup closed) /\ started' = started + 1 /\ started \in Nat
          /\ finishes[started + 1] = <<>> /\ parent[started + 1] = NoOp
      BY <1>4, NewOp DEF Serve, StartOp
    <3>. QED
      BY <1>4, <2>2, <3>1, <3>2 DEF Serve, StartOp
  <2>3. CASE /\ i \in 1..Len(stack[u]) /\ stack'[u][i] = stack[u][i] /\ (u = t => i # Len(stack'[u]))
             /\ (u # t => stack'[u] = stack[u])
    <3>. HeldAt(u, i)
      BY <2>3 DEF Held
    <3>. QED
      BY SMTT(30), <1>4, <2>3 DEF Serve, StartOp
  <2>4. \/ u = t /\ stack'[u][i] = [op |-> started + 1, kind |-> k] /\ i = Len(stack'[u])
        \/ /\ i \in 1..Len(stack[u]) /\ stack'[u][i] = stack[u][i] /\ (u = t => i # Len(stack'[u]))
           /\ (u # t => stack'[u] = stack[u])
    BY <2>1, Push
  <2>. QED
    BY <2>2, <2>3, <2>4
<1>5. ASSUME NEW t \in Threads, NEW r \in Requests, CommandStarted(t, r) PROVE Held'
  <2>. SUFFICES ASSUME NEW u \in Threads, NEW i \in 1..Len(stack[u]) PROVE HeldAt(u, i)'
    BY <1>5 DEF Held, CommandStarted
  <2>. HeldAt(u, i)
    BY SMTT(30) DEF Held
  <2>. QED
    BY <1>5 DEF CommandStarted
<1>6. ASSUME NEW t \in Threads, NEW r \in Requests, NEW failure \in BOOLEAN, CommandEnded(t, r, failure)
      PROVE  Held'
  <2>. [op |-> inflight[r], kind |-> "call"] \in Frames
    BY <1>6, Framed DEF CommandEnded, Kinds, Deferring, Serving
  <2>1. stack' = [stack EXCEPT ![t] = Append(@, [op |-> inflight[r], kind |-> "call"])]
    BY <1>6 DEF CommandEnded
  <2>. SUFFICES ASSUME NEW u \in Threads, NEW i \in 1..Len(stack'[u]) PROVE HeldAt(u, i)'
    BY DEF Held
  <2>2. CASE u = t /\ stack'[u][i] = [op |-> inflight[r], kind |-> "call"] /\ i = Len(stack'[u])
    <3>1. stack'[u][i].op = inflight[r] /\ stack'[u][i].kind = "call"
      BY <2>2
    <3>2. /\ inflight[r] \in 1..started /\ inflight[r] \notin entered
          /\ finishes[inflight[r]] = <<>> /\ parent[inflight[r]] = NoOp
      BY <1>6 DEF CommandEnded, Unheld
    <3>. QED
      BY <1>6, <2>2, <3>1, <3>2 DEF CommandEnded
  <2>3. CASE /\ i \in 1..Len(stack[u]) /\ stack'[u][i] = stack[u][i] /\ (u = t => i # Len(stack'[u]))
             /\ (u # t => stack'[u] = stack[u])
    <3>. HeldAt(u, i)
      BY <2>3 DEF Held
    <3>. stack[u][i].op # inflight[r]
      BY <1>6, <2>3 DEF CommandEnded, Unheld
    <3>. QED
      BY <1>6, <2>3 DEF CommandEnded
  <2>4. \/ u = t /\ stack'[u][i] = [op |-> inflight[r], kind |-> "call"] /\ i = Len(stack'[u])
        \/ /\ i \in 1..Len(stack[u]) /\ stack'[u][i] = stack[u][i] /\ (u = t => i # Len(stack'[u]))
           /\ (u # t => stack'[u] = stack[u])
    BY <2>1, Push
  <2>. QED
    BY <2>2, <2>3, <2>4
<1>7. ASSUME NEW t \in Threads, NEW o \in entered, Step(t, o) PROVE Held'
  <2>. [op |-> started + 1, kind |-> "step"] \in Frames
    BY <1>7, Framed DEF Step, StartOp, Kinds, Deferring, Serving
  <2>1. stack' = [stack EXCEPT ![t] = Append(@, [op |-> started + 1, kind |-> "step"])]
    BY <1>7 DEF Step, StartOp
  <2>. SUFFICES ASSUME NEW u \in Threads, NEW i \in 1..Len(stack'[u]) PROVE HeldAt(u, i)'
    BY DEF Held
  <2>2. CASE u = t /\ stack'[u][i] = [op |-> started + 1, kind |-> "step"] /\ i = Len(stack'[u])
    <3>1. stack'[u][i].op = started + 1 /\ stack'[u][i].kind = "step"
      BY <2>2
    <3>2. /\ started + 1 \in Ops \ (entered \cup closed) /\ started' = started + 1 /\ started \in Nat
          /\ finishes[started + 1] = <<>> /\ parent[started + 1] = NoOp
      BY <1>7, NewOp DEF Step, StartOp
    <3>. QED
      BY <1>7, <2>2, <3>1, <3>2 DEF Step, StartOp
  <2>3. CASE /\ i \in 1..Len(stack[u]) /\ stack'[u][i] = stack[u][i] /\ (u = t => i # Len(stack'[u]))
             /\ (u # t => stack'[u] = stack[u])
    <3>. HeldAt(u, i)
      BY <2>3 DEF Held
    <3>. QED
      BY SMTT(30), <1>7, <2>3 DEF Step, StartOp
  <2>4. \/ u = t /\ stack'[u][i] = [op |-> started + 1, kind |-> "step"] /\ i = Len(stack'[u])
        \/ /\ i \in 1..Len(stack[u]) /\ stack'[u][i] = stack[u][i] /\ (u = t => i # Len(stack'[u]))
           /\ (u # t => stack'[u] = stack[u])
    BY <2>1, Push
  <2>. QED
    BY <2>2, <2>3, <2>4
<1>8. ASSUME NEW t \in Threads, NEW o \in entered, Fail(t, o) PROVE Held'
  <2>. SUFFICES ASSUME NEW u \in Threads, NEW i \in 1..Len(stack[u]) PROVE HeldAt(u, i)'
    BY <1>8 DEF Held, Fail
  <2>. HeldAt(u, i)
    BY DEF Held
  <2>. QED
    BY <1>8 DEF Fail
<1>9. ASSUME NEW t \in Threads, NEW o \in entered, CloseCall(t, o) PROVE Held'
  <2>. [op |-> o, kind |-> "call"] \in Frames
    BY <1>9, Framed DEF CloseCall, Kinds, Deferring, Serving
  <2>1. stack' = [stack EXCEPT ![t] = Append(@, [op |-> o, kind |-> "call"])]
    BY <1>9 DEF CloseCall
  <2>. SUFFICES ASSUME NEW u \in Threads, NEW i \in 1..Len(stack'[u]) PROVE HeldAt(u, i)'
    BY DEF Held
  <2>2. CASE u = t /\ stack'[u][i] = [op |-> o, kind |-> "call"] /\ i = Len(stack'[u])
    <3>1. stack'[u][i].op = o /\ stack'[u][i].kind = "call"
      BY <2>2
    <3>2. o \in 1..started /\ o \in Ops /\ finishes[o] = <<>> /\ parent[o] = NoOp
      BY <1>9, OpAssumption DEF CloseCall, Unheld
    <3>. QED
      BY <1>9, <2>2, <3>1, <3>2 DEF CloseCall
  <2>3. CASE /\ i \in 1..Len(stack[u]) /\ stack'[u][i] = stack[u][i] /\ (u = t => i # Len(stack'[u]))
             /\ (u # t => stack'[u] = stack[u])
    <3>. HeldAt(u, i)
      BY <2>3 DEF Held
    <3>. QED
      BY <1>9, <2>3 DEF CloseCall
  <2>4. \/ u = t /\ stack'[u][i] = [op |-> o, kind |-> "call"] /\ i = Len(stack'[u])
        \/ /\ i \in 1..Len(stack[u]) /\ stack'[u][i] = stack[u][i] /\ (u = t => i # Len(stack'[u]))
           /\ (u # t => stack'[u] = stack[u])
    BY <2>1, Push
  <2>. QED
    BY <2>2, <2>3, <2>4
<1>10. ASSUME NEW t \in Threads, NEW o \in Ops, AddError(t, o) PROVE Held'
  <2>. SUFFICES ASSUME NEW u \in Threads, NEW i \in 1..Len(stack[u]) PROVE HeldAt(u, i)'
    BY <1>10 DEF Held, AddError
  <2>. HeldAt(u, i)
    BY DEF Held
  <2>. QED
    BY <1>10 DEF AddError
<1>11. ASSUME NEW t \in Threads, NEW o \in Ops, NEW c \in Codes, Respond(t, o, c)
      PROVE  Held'
  <2>. SUFFICES ASSUME NEW u \in Threads, NEW i \in 1..Len(stack[u]) PROVE HeldAt(u, i)'
    BY <1>11 DEF Held, Respond
  <2>. HeldAt(u, i)
    BY DEF Held
  <2>. QED
    BY <1>11 DEF Respond
<1>12. ASSUME NEW t \in Threads, Panic(t) PROVE Held'
  <2>. SUFFICES ASSUME NEW u \in Threads, NEW i \in 1..Len(stack[u]) PROVE HeldAt(u, i)'
    BY <1>12 DEF Held, Panic
  <2>. HeldAt(u, i)
    BY DEF Held
  <2>. QED
    BY <1>12 DEF Panic
<1>13. ASSUME NEW t \in Threads, Goexit(t) PROVE Held'
  <2>. SUFFICES ASSUME NEW u \in Threads, NEW i \in 1..Len(stack[u]) PROVE HeldAt(u, i)'
    BY <1>13 DEF Held, Goexit
  <2>. HeldAt(u, i)
    BY DEF Held
  <2>. QED
    BY <1>13 DEF Goexit
<1>14. ASSUME NEW t \in Threads, Recover(t) PROVE Held'
  <2>. SUFFICES ASSUME NEW u \in Threads, NEW i \in 1..Len(stack[u]) PROVE HeldAt(u, i)'
    BY <1>14 DEF Held, Recover
  <2>. HeldAt(u, i)
    BY DEF Held
  <2>. QED
    BY <1>14 DEF Recover
<1>15. ASSUME NEW t \in Threads, LeaveRun(t) PROVE Held'
  <2>. stack[t] # <<>>
    BY <1>15 DEF LeaveRun, Leaving, Catch
  <2>. SUFFICES ASSUME NEW u \in Threads, NEW i \in 1..Len(stack[u]) PROVE HeldAt(u, i)'
    BY <1>15 DEF Held, LeaveRun, Leaving, Catch
  <2>. HeldAt(u, i) /\ HeldAt(t, Len(stack[t]))
    BY TopHeld DEF Held
  <2>. QED
    BY <1>15, TopHeld DEF LeaveRun, Leaving, Catch
<1>16. ASSUME NEW t \in Threads, LeaveServing(t) PROVE Held'
  <2>. stack[t] # <<>>
    BY <1>16 DEF LeaveServing, Leaving
  <2>. SUFFICES ASSUME NEW u \in Threads, NEW i \in 1..Len(stack[u]) PROVE HeldAt(u, i)'
    BY <1>16 DEF Held, LeaveServing, Leaving
  <2>. HeldAt(u, i) /\ HeldAt(t, Len(stack[t]))
    BY TopHeld DEF Held
  <2>. QED
    BY <1>16, TopHeld DEF LeaveServing, Leaving
<1>17. ASSUME NEW t \in Threads, LeaveStep(t) PROVE Held'
  <2>. stack[t] # <<>>
    BY <1>17 DEF LeaveStep, Leaving, Catch
  <2>. SUFFICES ASSUME NEW u \in Threads, NEW i \in 1..Len(stack[u]) PROVE HeldAt(u, i)'
    BY <1>17 DEF Held, LeaveStep, Leaving, Catch
  <2>. HeldAt(u, i) /\ HeldAt(t, Len(stack[t]))
    BY TopHeld DEF Held
  <2>. QED
    BY <1>17, TopHeld DEF LeaveStep, Leaving, Catch
<1>18. ASSUME NEW t \in Threads, LeaveEnter(t) PROVE Held'
  <2>. stack[t] # <<>>
    BY <1>18 DEF LeaveEnter, Leaving, Catch
  <2>. SUFFICES ASSUME NEW u \in Threads, NEW i \in 1..Len(stack[u]) PROVE HeldAt(u, i)'
    BY <1>18 DEF Held, LeaveEnter, Leaving, Catch
  <2>. HeldAt(u, i) /\ HeldAt(t, Len(stack[t]))
    BY TopHeld DEF Held
  <2>. Top(t).op \in entered \cap Ops /\ finishes[Top(t).op] = <<>>
    BY <1>18, TopHeld, OpAssumption DEF LeaveEnter, Leaving, Catch, Unheld, Frames
  <2>. QED
    BY SMTT(30), <1>18, TopHeld DEF LeaveEnter, Leaving, Catch
<1>19. ASSUME NEW t \in Threads, LeaveClosed(t) PROVE Held'
  <2>1. stack[t] # <<>> /\ stack' = [stack EXCEPT ![t] = Front(@)]
    BY <1>19 DEF LeaveClosed, Leaving, TypeOK, Finishing
  <2>. SUFFICES ASSUME NEW u \in Threads, NEW i \in 1..Len(stack'[u]) PROVE HeldAt(u, i)'
    BY DEF Held
  <2>2. /\ i \in 1..Len(stack[u]) /\ stack'[u][i] = stack[u][i]
        /\ (u = t => i # Len(stack[u])) /\ (u # t => stack'[u] = stack[u])
    BY <2>1, Pop
  <2>. HeldAt(u, i) /\ HeldAt(t, Len(stack[t]))
    BY SMTT(30), <2>1, <2>2, TopHeld DEF Held
  <2>. QED
    BY <1>19, <2>1, <2>2, TopHeld DEF LeaveClosed, Leaving
<1>20. ASSUME NEW t \in Threads, Finish(t) PROVE Held'
  <2>1. stack[t] # <<>> /\ stack' = [stack EXCEPT ![t] = Front(@)]
    BY <1>20 DEF Finish, Return, TypeOK, Finishing
  <2>. SUFFICES ASSUME NEW u \in Threads, NEW i \in 1..Len(stack'[u]) PROVE HeldAt(u, i)'
    BY DEF Held
  <2>2. /\ i \in 1..Len(stack[u]) /\ stack'[u][i] = stack[u][i]
        /\ (u = t => i # Len(stack[u])) /\ (u # t => stack'[u] = stack[u])
    BY <2>1, Pop
  <2>. HeldAt(u, i) /\ HeldAt(t, Len(stack[t]))
    BY <2>1, <2>2, TopHeld DEF Held
  <2>3. Right(t, Len(stack[t]))
    BY <1>20 DEF Finish
  <2>4. Right(u, i)' => Right(u, i) /\ stack[u][i].op # Top(t).op
    BY <1>20, <2>1, <2>2, <2>3, TopHeld DEF Sole, Finish, Return
  <2>5. finishes'[stack[u][i].op] = finishes[stack[u][i].op] \/ stack[u][i].op = Top(t).op
    BY <1>20 DEF Finish
  <2>. QED
    BY SMTT(30), <1>20, <2>1, <2>2, <2>4, <2>5 DEF Finish, Return
<1>21. CASE Finished
  <2>. SUFFICES ASSUME NEW u \in Threads, NEW i \in 1..Len(stack[u]) PROVE HeldAt(u, i)'
    BY <1>21 DEF Held, Finished, vars
  <2>. HeldAt(u, i)
    BY DEF Held
  <2>. QED
    BY <1>21 DEF Finished, vars
<1>22. CASE UNCHANGED vars
  <2>. SUFFICES ASSUME NEW u \in Threads, NEW i \in 1..Len(stack[u]) PROVE HeldAt(u, i)'
    BY <1>22 DEF Held, vars
  <2>. HeldAt(u, i)
    BY DEF Held
  <2>. QED
    BY <1>22 DEF vars
<1>. QED
  BY <1>1, <1>2, <1>3, <1>4, <1>5, <1>6, <1>7, <1>8, <1>9, <1>10, <1>11, <1>12, <1>13, <1>14,
     <1>15, <1>16, <1>17, <1>18, <1>19, <1>20, <1>21, <1>22 DEF Next, Leave

\* A right that a step leaves as it is, and an operation nobody has the right to finish.
Kept(u, i) == i \in 1..Len(stack[u]) /\ Right(u, i) /\ stack'[u][i].op = stack[u][i].op
Free(o) == \A u \in Threads : \A i \in 1..Len(stack[u]) : Right(u, i) => stack[u][i].op # o

\* A step that gives one goroutine the right to what is free leaves the rights unique.
LEMMA OneRight ==
  ASSUME Sole, NEW t \in Threads,
         \A u \in Threads : \A i \in 1..Len(stack'[u]) : Right(u, i)' =>
           Kept(u, i) \/ (u = t /\ i = Len(stack'[t]) /\ Free(stack'[t][i].op))
  PROVE  Sole'
<1>. SUFFICES ASSUME NEW u \in Threads, NEW v \in Threads,
                     NEW i \in 1..Len(stack'[u]), NEW j \in 1..Len(stack'[v]),
                     Right(u, i)', Right(v, j)', stack'[u][i].op = stack'[v][j].op
              PROVE  u = v /\ i = j
  BY DEF Sole
<1>1. CASE Kept(u, i) /\ Kept(v, j)
  BY <1>1 DEF Kept, Sole
<1>2. CASE Kept(u, i) /\ v = t /\ j = Len(stack'[t]) /\ Free(stack'[t][j].op)
  BY <1>2 DEF Kept, Free
<1>3. CASE Kept(v, j) /\ u = t /\ i = Len(stack'[t]) /\ Free(stack'[t][i].op)
  BY <1>3 DEF Kept, Free
<1>. QED
  BY <1>1, <1>2, <1>3

\* Nobody has the right to finish what is not started, what is in flight, and what has a handle
\* that nobody has closed.
LEMMA FreeOps ==
  ASSUME IInv
  PROVE  /\ \A o : o \notin 1..started => Free(o)
         /\ \A o \in entered \ closed : Free(o)
         /\ \A r \in Requests : inflight[r] # NoOp => Free(inflight[r])
<1>1. \A o : o \notin 1..started => Free(o)
  BY DEF IInv, Held, HeldAt, Free
<1>2. \A o \in entered \ closed : Free(o)
  BY DEF IInv, Held, HeldAt, Free
<1>3. \A r \in Requests : inflight[r] # NoOp => Free(inflight[r])
  BY DEF IInv, Unheld, Free
<1>. QED
  BY <1>1, <1>2, <1>3

\* Every step keeps the rights unique.
LEMMA NextSole == IInv /\ [Next]_vars => Sole'
<1>. SUFFICES ASSUME IInv, [Next]_vars PROVE Sole'
  OBVIOUS
<1>. Shapes /\ Handles /\ Reports
  BY DEF IInv, TypeOK, Shapes, Handles, Reports
<1>. Finishing /\ Sole /\ Unheld /\ Held /\ TypeOK
  BY DEF IInv, TypeOK
<1>. USE DEF Running, calls, opVars, adapters, Shapes
<1>1. ASSUME NEW t \in Threads, Run(t) PROVE Sole'
  <2>. [op |-> started + 1, kind |-> "run"] \in Frames
    BY <1>1, Framed DEF Run, StartOp, Kinds, Deferring, Serving
  <2>1. stack' = [stack EXCEPT ![t] = Append(@, [op |-> started + 1, kind |-> "run"])]
    BY <1>1 DEF Run, StartOp
  <2>2. Free(started + 1)
    BY <1>1, FreeOps DEF Run, StartOp, TypeOK
  <2>. SUFFICES ASSUME NEW u \in Threads, NEW i \in 1..Len(stack'[u]), Right(u, i)'
                PROVE  Kept(u, i) \/ (u = t /\ i = Len(stack'[t]) /\ Free(stack'[t][i].op))
    BY OneRight
  <2>3. CASE u = t /\ stack'[u][i] = [op |-> started + 1, kind |-> "run"] /\ i = Len(stack'[u])
    BY <2>2, <2>3
  <2>4. CASE /\ i \in 1..Len(stack[u]) /\ stack'[u][i] = stack[u][i] /\ (u = t => i # Len(stack'[u]))
             /\ (u # t => stack'[u] = stack[u])
    BY <1>1, <2>4 DEF Run, StartOp, Kept, Right, Finishes
  <2>. QED
    BY <2>1, <2>3, <2>4, Push
<1>2. ASSUME NEW t \in Threads, NEW k \in Deferring, Enter(t, k) PROVE Sole'
  <2>. [op |-> started + 1, kind |-> k] \in Frames
    BY <1>2, Framed DEF Enter, StartOp, Kinds, Deferring, Serving
  <2>1. stack' = [stack EXCEPT ![t] = Append(@, [op |-> started + 1, kind |-> k])]
    BY <1>2 DEF Enter, StartOp
  <2>2. Free(started + 1)
    BY <1>2, FreeOps DEF Enter, StartOp, TypeOK
  <2>. SUFFICES ASSUME NEW u \in Threads, NEW i \in 1..Len(stack'[u]), Right(u, i)'
                PROVE  Kept(u, i) \/ (u = t /\ i = Len(stack'[t]) /\ Free(stack'[t][i].op))
    BY OneRight
  <2>3. CASE u = t /\ stack'[u][i] = [op |-> started + 1, kind |-> k] /\ i = Len(stack'[u])
    BY <2>2, <2>3
  <2>4. CASE /\ i \in 1..Len(stack[u]) /\ stack'[u][i] = stack[u][i] /\ (u = t => i # Len(stack'[u]))
             /\ (u # t => stack'[u] = stack[u])
    BY <1>2, <2>4 DEF Enter, StartOp, Kept, Right, Finishes
  <2>. QED
    BY <2>1, <2>3, <2>4, Push
<1>3. ASSUME NEW t \in Threads, EnterOnly(t) PROVE Sole'
  <2>. SUFFICES ASSUME NEW u \in Threads, NEW i \in 1..Len(stack[u]),
                       NEW v \in Threads, NEW j \in 1..Len(stack[v]),
                       Right(u, i)', Right(v, j)', stack[u][i].op = stack[v][j].op
                PROVE  u = v /\ i = j
    BY <1>3 DEF Sole, EnterOnly
  <2>. QED
    BY <1>3 DEF EnterOnly, Right, Finishes, Sole
<1>4. ASSUME NEW t \in Threads, NEW k \in Serving, Serve(t, k) PROVE Sole'
  <2>. [op |-> started + 1, kind |-> k] \in Frames
    BY <1>4, Framed DEF Serve, StartOp, Kinds, Deferring, Serving
  <2>1. stack' = [stack EXCEPT ![t] = Append(@, [op |-> started + 1, kind |-> k])]
    BY <1>4 DEF Serve, StartOp
  <2>2. Free(started + 1)
    BY <1>4, FreeOps DEF Serve, StartOp, TypeOK
  <2>. SUFFICES ASSUME NEW u \in Threads, NEW i \in 1..Len(stack'[u]), Right(u, i)'
                PROVE  Kept(u, i) \/ (u = t /\ i = Len(stack'[t]) /\ Free(stack'[t][i].op))
    BY OneRight
  <2>3. CASE u = t /\ stack'[u][i] = [op |-> started + 1, kind |-> k] /\ i = Len(stack'[u])
    BY <2>2, <2>3
  <2>4. CASE /\ i \in 1..Len(stack[u]) /\ stack'[u][i] = stack[u][i] /\ (u = t => i # Len(stack'[u]))
             /\ (u # t => stack'[u] = stack[u])
    BY <1>4, <2>4 DEF Serve, StartOp, Kept, Right, Finishes
  <2>. QED
    BY <2>1, <2>3, <2>4, Push
<1>5. ASSUME NEW t \in Threads, NEW r \in Requests, CommandStarted(t, r) PROVE Sole'
  <2>. SUFFICES ASSUME NEW u \in Threads, NEW i \in 1..Len(stack[u]),
                       NEW v \in Threads, NEW j \in 1..Len(stack[v]),
                       Right(u, i)', Right(v, j)', stack[u][i].op = stack[v][j].op
                PROVE  u = v /\ i = j
    BY <1>5 DEF Sole, CommandStarted
  <2>. QED
    BY <1>5 DEF CommandStarted, Right, Finishes, Sole
<1>6. ASSUME NEW t \in Threads, NEW r \in Requests, NEW failure \in BOOLEAN, CommandEnded(t, r, failure)
      PROVE  Sole'
  <2>. [op |-> inflight[r], kind |-> "call"] \in Frames
    BY <1>6, Framed DEF CommandEnded, Kinds, Deferring, Serving
  <2>1. stack' = [stack EXCEPT ![t] = Append(@, [op |-> inflight[r], kind |-> "call"])]
    BY <1>6 DEF CommandEnded
  <2>2. Free(inflight[r])
    BY <1>6, FreeOps DEF CommandEnded, TypeOK
  <2>. SUFFICES ASSUME NEW u \in Threads, NEW i \in 1..Len(stack'[u]), Right(u, i)'
                PROVE  Kept(u, i) \/ (u = t /\ i = Len(stack'[t]) /\ Free(stack'[t][i].op))
    BY OneRight
  <2>3. CASE u = t /\ stack'[u][i] = [op |-> inflight[r], kind |-> "call"] /\ i = Len(stack'[u])
    BY <2>2, <2>3
  <2>4. CASE /\ i \in 1..Len(stack[u]) /\ stack'[u][i] = stack[u][i] /\ (u = t => i # Len(stack'[u]))
             /\ (u # t => stack'[u] = stack[u])
    BY <1>6, <2>4 DEF CommandEnded, Kept, Right, Finishes
  <2>. QED
    BY <2>1, <2>3, <2>4, Push
<1>7. ASSUME NEW t \in Threads, NEW o \in entered, Step(t, o) PROVE Sole'
  <2>. [op |-> started + 1, kind |-> "step"] \in Frames
    BY <1>7, Framed DEF Step, StartOp, Kinds, Deferring, Serving
  <2>1. stack' = [stack EXCEPT ![t] = Append(@, [op |-> started + 1, kind |-> "step"])]
    BY <1>7 DEF Step, StartOp
  <2>2. Free(started + 1)
    BY <1>7, FreeOps DEF Step, StartOp, TypeOK
  <2>. SUFFICES ASSUME NEW u \in Threads, NEW i \in 1..Len(stack'[u]), Right(u, i)'
                PROVE  Kept(u, i) \/ (u = t /\ i = Len(stack'[t]) /\ Free(stack'[t][i].op))
    BY OneRight
  <2>3. CASE u = t /\ stack'[u][i] = [op |-> started + 1, kind |-> "step"] /\ i = Len(stack'[u])
    BY <2>2, <2>3
  <2>4. CASE /\ i \in 1..Len(stack[u]) /\ stack'[u][i] = stack[u][i] /\ (u = t => i # Len(stack'[u]))
             /\ (u # t => stack'[u] = stack[u])
    BY <1>7, <2>4 DEF Step, StartOp, Kept, Right, Finishes
  <2>. QED
    BY <2>1, <2>3, <2>4, Push
<1>8. ASSUME NEW t \in Threads, NEW o \in entered, Fail(t, o) PROVE Sole'
  <2>. SUFFICES ASSUME NEW u \in Threads, NEW i \in 1..Len(stack[u]),
                       NEW v \in Threads, NEW j \in 1..Len(stack[v]),
                       Right(u, i)', Right(v, j)', stack[u][i].op = stack[v][j].op
                PROVE  u = v /\ i = j
    BY <1>8 DEF Sole, Fail
  <2>. QED
    BY <1>8 DEF Fail, Right, Finishes, Sole
<1>9. ASSUME NEW t \in Threads, NEW o \in entered, CloseCall(t, o) PROVE Sole'
  <2>. [op |-> o, kind |-> "call"] \in Frames
    BY <1>9, Framed DEF CloseCall, Kinds, Deferring, Serving
  <2>1. stack' = [stack EXCEPT ![t] = Append(@, [op |-> o, kind |-> "call"])]
    BY <1>9 DEF CloseCall
  <2>2. Free(o)
    BY <1>9, FreeOps DEF CloseCall, TypeOK
  <2>. SUFFICES ASSUME NEW u \in Threads, NEW i \in 1..Len(stack'[u]), Right(u, i)'
                PROVE  Kept(u, i) \/ (u = t /\ i = Len(stack'[t]) /\ Free(stack'[t][i].op))
    BY OneRight
  <2>3. CASE u = t /\ stack'[u][i] = [op |-> o, kind |-> "call"] /\ i = Len(stack'[u])
    BY <2>2, <2>3
  <2>4. CASE /\ i \in 1..Len(stack[u]) /\ stack'[u][i] = stack[u][i] /\ (u = t => i # Len(stack'[u]))
             /\ (u # t => stack'[u] = stack[u])
    BY <1>9, <2>4 DEF CloseCall, Kept, Right, Finishes
  <2>. QED
    BY <2>1, <2>3, <2>4, Push
<1>10. ASSUME NEW t \in Threads, NEW o \in Ops, AddError(t, o) PROVE Sole'
  <2>. SUFFICES ASSUME NEW u \in Threads, NEW i \in 1..Len(stack[u]),
                       NEW v \in Threads, NEW j \in 1..Len(stack[v]),
                       Right(u, i)', Right(v, j)', stack[u][i].op = stack[v][j].op
                PROVE  u = v /\ i = j
    BY <1>10 DEF Sole, AddError
  <2>. QED
    BY <1>10 DEF AddError, Right, Finishes, Sole
<1>11. ASSUME NEW t \in Threads, NEW o \in Ops, NEW c \in Codes, Respond(t, o, c)
      PROVE  Sole'
  <2>. SUFFICES ASSUME NEW u \in Threads, NEW i \in 1..Len(stack[u]),
                       NEW v \in Threads, NEW j \in 1..Len(stack[v]),
                       Right(u, i)', Right(v, j)', stack[u][i].op = stack[v][j].op
                PROVE  u = v /\ i = j
    BY <1>11 DEF Sole, Respond
  <2>. QED
    BY <1>11 DEF Respond, Right, Finishes, Sole
<1>12. ASSUME NEW t \in Threads, Panic(t) PROVE Sole'
  <2>. SUFFICES ASSUME NEW u \in Threads, NEW i \in 1..Len(stack[u]),
                       NEW v \in Threads, NEW j \in 1..Len(stack[v]),
                       Right(u, i)', Right(v, j)', stack[u][i].op = stack[v][j].op
                PROVE  u = v /\ i = j
    BY <1>12 DEF Sole, Panic
  <2>. QED
    BY <1>12 DEF Panic, Right, Finishes, Sole
<1>13. ASSUME NEW t \in Threads, Goexit(t) PROVE Sole'
  <2>. SUFFICES ASSUME NEW u \in Threads, NEW i \in 1..Len(stack[u]),
                       NEW v \in Threads, NEW j \in 1..Len(stack[v]),
                       Right(u, i)', Right(v, j)', stack[u][i].op = stack[v][j].op
                PROVE  u = v /\ i = j
    BY <1>13 DEF Sole, Goexit
  <2>. QED
    BY <1>13 DEF Goexit, Right, Finishes, Sole
<1>14. ASSUME NEW t \in Threads, Recover(t) PROVE Sole'
  <2>. SUFFICES ASSUME NEW u \in Threads, NEW i \in 1..Len(stack[u]),
                       NEW v \in Threads, NEW j \in 1..Len(stack[v]),
                       Right(u, i)', Right(v, j)', stack[u][i].op = stack[v][j].op
                PROVE  u = v /\ i = j
    BY <1>14 DEF Sole, Recover
  <2>. QED
    BY <1>14 DEF Recover, Right, Finishes, Sole
<1>15. ASSUME NEW t \in Threads, LeaveRun(t) PROVE Sole'
  <2>. stack[t] # <<>> /\ stack' = stack
    BY <1>15 DEF LeaveRun, Leaving, Catch
  <2>. SUFFICES ASSUME NEW u \in Threads, NEW i \in 1..Len(stack'[u]), Right(u, i)'
                PROVE  Kept(u, i) \/ (u = t /\ i = Len(stack'[t]) /\ Free(stack'[t][i].op))
    BY OneRight
  <2>. QED
    BY <1>15, TopHeld, FreeOps DEF LeaveRun, Leaving, Catch, Kept, Right, Finishes, Own
<1>16. ASSUME NEW t \in Threads, LeaveServing(t) PROVE Sole'
  <2>. stack[t] # <<>> /\ stack' = stack
    BY <1>16 DEF LeaveServing, Leaving
  <2>. SUFFICES ASSUME NEW u \in Threads, NEW i \in 1..Len(stack'[u]), Right(u, i)'
                PROVE  Kept(u, i) \/ (u = t /\ i = Len(stack'[t]) /\ Free(stack'[t][i].op))
    BY OneRight
  <2>. QED
    BY <1>16, TopHeld, FreeOps DEF LeaveServing, Leaving, Kept, Right, Finishes, Own
<1>17. ASSUME NEW t \in Threads, LeaveStep(t) PROVE Sole'
  <2>. stack[t] # <<>> /\ stack' = stack
    BY <1>17 DEF LeaveStep, Leaving, Catch
  <2>. SUFFICES ASSUME NEW u \in Threads, NEW i \in 1..Len(stack'[u]), Right(u, i)'
                PROVE  Kept(u, i) \/ (u = t /\ i = Len(stack'[t]) /\ Free(stack'[t][i].op))
    BY OneRight
  <2>. QED
    BY <1>17, TopHeld, FreeOps DEF LeaveStep, Leaving, Catch, Kept, Right, Finishes, Own
<1>18. ASSUME NEW t \in Threads, LeaveEnter(t) PROVE Sole'
  <2>. stack[t] # <<>> /\ stack' = stack
    BY <1>18 DEF LeaveEnter, Leaving, Catch
  <2>. SUFFICES ASSUME NEW u \in Threads, NEW i \in 1..Len(stack'[u]), Right(u, i)'
                PROVE  Kept(u, i) \/ (u = t /\ i = Len(stack'[t]) /\ Free(stack'[t][i].op))
    BY OneRight
  <2>. Free(Top(t).op) /\ Top(t) = stack[t][Len(stack[t])]
    BY <1>18, TopHeld, FreeOps DEF LeaveEnter, Leaving, Catch, HeldAt
  <2>. QED
    BY <1>18, TopHeld, FreeOps DEF LeaveEnter, Leaving, Catch, Kept, Right, Finishes, Own
<1>19. ASSUME NEW t \in Threads, LeaveClosed(t) PROVE Sole'
  <2>1. stack[t] # <<>> /\ stack' = [stack EXCEPT ![t] = Front(@)]
    BY <1>19 DEF LeaveClosed, Leaving, TypeOK, Finishing
  <2>. SUFFICES ASSUME NEW u \in Threads, NEW i \in 1..Len(stack'[u]), Right(u, i)'
                PROVE  Kept(u, i) \/ (u = t /\ i = Len(stack'[t]) /\ Free(stack'[t][i].op))
    BY OneRight
  <2>2. /\ i \in 1..Len(stack[u]) /\ stack'[u][i] = stack[u][i]
        /\ (u = t => i # Len(stack[u])) /\ (u # t => stack'[u] = stack[u])
    BY <2>1, Pop
  <2>. QED
    BY <1>19, <2>2 DEF LeaveClosed, Leaving, Kept, Right, Finishes
<1>20. ASSUME NEW t \in Threads, Finish(t) PROVE Sole'
  <2>1. stack[t] # <<>> /\ stack' = [stack EXCEPT ![t] = Front(@)]
    BY <1>20 DEF Finish, Return, TypeOK, Finishing
  <2>. SUFFICES ASSUME NEW u \in Threads, NEW i \in 1..Len(stack'[u]), Right(u, i)'
                PROVE  Kept(u, i) \/ (u = t /\ i = Len(stack'[t]) /\ Free(stack'[t][i].op))
    BY OneRight
  <2>2. /\ i \in 1..Len(stack[u]) /\ stack'[u][i] = stack[u][i]
        /\ (u = t => i # Len(stack[u])) /\ (u # t => stack'[u] = stack[u])
    BY <2>1, Pop
  <2>. QED
    BY <1>20, <2>2 DEF Finish, Return, Kept, Right, Finishes
<1>21. CASE Finished
  <2>. SUFFICES ASSUME NEW u \in Threads, NEW i \in 1..Len(stack[u]),
                       NEW v \in Threads, NEW j \in 1..Len(stack[v]),
                       Right(u, i)', Right(v, j)', stack[u][i].op = stack[v][j].op
                PROVE  u = v /\ i = j
    BY <1>21 DEF Sole, Finished, vars
  <2>. QED
    BY <1>21 DEF Finished, vars, Right, Finishes, Sole
<1>22. CASE UNCHANGED vars
  <2>. SUFFICES ASSUME NEW u \in Threads, NEW i \in 1..Len(stack[u]),
                       NEW v \in Threads, NEW j \in 1..Len(stack[v]),
                       Right(u, i)', Right(v, j)', stack[u][i].op = stack[v][j].op
                PROVE  u = v /\ i = j
    BY <1>22 DEF Sole, vars
  <2>. QED
    BY <1>22 DEF vars, Right, Finishes, Sole
<1>. QED
  BY <1>1, <1>2, <1>3, <1>4, <1>5, <1>6, <1>7, <1>8, <1>9, <1>10, <1>11, <1>12, <1>13, <1>14,
     <1>15, <1>16, <1>17, <1>18, <1>19, <1>20, <1>21, <1>22 DEF Next, Leave

\* Every step keeps what nobody has finished yet.
LEMMA NextUnheld == IInv /\ [Next]_vars => Unheld'
<1>. SUFFICES ASSUME IInv, [Next]_vars PROVE Unheld'
  OBVIOUS
<1>. Shapes /\ Handles /\ Reports
  BY DEF IInv, TypeOK, Shapes, Handles, Reports
<1>. Finishing /\ Sole /\ Unheld /\ Held /\ TypeOK
  BY DEF IInv, TypeOK
<1>. USE DEF Running, calls, opVars, adapters, Shapes, Handles, Reports, Unheld, Ops, NoOp
<1>1. ASSUME NEW t \in Threads, Run(t) PROVE Unheld'
  <2>. [op |-> started + 1, kind |-> "run"] \in Frames
    BY <1>1, Framed DEF Run, StartOp, Kinds, Deferring, Serving
  <2>1. stack' = [stack EXCEPT ![t] = Append(@, [op |-> started + 1, kind |-> "run"])]
    BY <1>1 DEF Run, StartOp
  <2>2. \A u \in Threads : \A i \in 1..Len(stack'[u]) :
          \/ stack'[u][i].op = ([op |-> started + 1, kind |-> "run"]).op
          \/ i \in 1..Len(stack[u]) /\ stack'[u][i].op = stack[u][i].op
    BY <2>1, Push
  <2>. QED
    BY <1>1, <2>2, NewOp DEF Run, StartOp
<1>2. ASSUME NEW t \in Threads, NEW k \in Deferring, Enter(t, k) PROVE Unheld'
  <2>. [op |-> started + 1, kind |-> k] \in Frames
    BY <1>2, Framed DEF Enter, StartOp, Kinds, Deferring, Serving
  <2>1. stack' = [stack EXCEPT ![t] = Append(@, [op |-> started + 1, kind |-> k])]
    BY <1>2 DEF Enter, StartOp
  <2>2. \A u \in Threads : \A i \in 1..Len(stack'[u]) :
          \/ stack'[u][i].op = ([op |-> started + 1, kind |-> k]).op
          \/ i \in 1..Len(stack[u]) /\ stack'[u][i].op = stack[u][i].op
    BY <2>1, Push
  <2>. QED
    BY <1>2, <2>2, NewOp DEF Enter, StartOp
<1>3. ASSUME NEW t \in Threads, EnterOnly(t) PROVE Unheld'
  BY <1>3 DEF EnterOnly
<1>4. ASSUME NEW t \in Threads, NEW k \in Serving, Serve(t, k) PROVE Unheld'
  <2>. [op |-> started + 1, kind |-> k] \in Frames
    BY <1>4, Framed DEF Serve, StartOp, Kinds, Deferring, Serving
  <2>1. stack' = [stack EXCEPT ![t] = Append(@, [op |-> started + 1, kind |-> k])]
    BY <1>4 DEF Serve, StartOp
  <2>2. \A u \in Threads : \A i \in 1..Len(stack'[u]) :
          \/ stack'[u][i].op = ([op |-> started + 1, kind |-> k]).op
          \/ i \in 1..Len(stack[u]) /\ stack'[u][i].op = stack[u][i].op
    BY <2>1, Push
  <2>. QED
    BY <1>4, <2>2, NewOp DEF Serve, StartOp
<1>5. ASSUME NEW t \in Threads, NEW r \in Requests, CommandStarted(t, r) PROVE Unheld'
  <2>1. /\ started \in Nat /\ started + 1 \in Ops \ (entered \cup closed)
        /\ finishes[started + 1] = <<>> /\ parent[started + 1] = NoOp
    BY <1>5, NewOp DEF CommandStarted
  <2>2. \A u \in Threads : \A i \in 1..Len(stack[u]) : stack[u][i].op \in 1..started
    BY DEF Held, HeldAt
  <2>3. inflight' = [inflight EXCEPT ![r] = started + 1] /\ started' = started + 1
    BY <1>5 DEF CommandStarted
  <2>4. \A q \in Requests : inflight[q] \in 0..started
    OBVIOUS
  <2>5. ASSUME NEW q \in Requests, inflight'[q] # NoOp
        PROVE  /\ inflight'[q] \notin entered \cup closed
               /\ finishes[inflight'[q]] = <<>> /\ parent[inflight'[q]] = NoOp
               /\ \A p \in Requests : inflight'[p] = inflight'[q] => p = q
               /\ \A u \in Threads : \A i \in 1..Len(stack[u]) : stack[u][i].op # inflight'[q]
    BY <2>1, <2>2, <2>3, <2>4, <2>5
  <2>. QED
    BY <1>5, <2>1, <2>3, <2>5 DEF CommandStarted
<1>6. ASSUME NEW t \in Threads, NEW r \in Requests, NEW failure \in BOOLEAN, CommandEnded(t, r, failure)
      PROVE  Unheld'
  <2>. [op |-> inflight[r], kind |-> "call"] \in Frames
    BY <1>6, Framed DEF CommandEnded, Kinds, Deferring, Serving
  <2>1. stack' = [stack EXCEPT ![t] = Append(@, [op |-> inflight[r], kind |-> "call"])]
    BY <1>6 DEF CommandEnded
  <2>2. \A u \in Threads : \A i \in 1..Len(stack'[u]) :
          \/ stack'[u][i].op = ([op |-> inflight[r], kind |-> "call"]).op
          \/ i \in 1..Len(stack[u]) /\ stack'[u][i].op = stack[u][i].op
    BY <2>1, Push
  <2>. QED
    BY SMTT(30), <1>6, <2>2 DEF CommandEnded
<1>7. ASSUME NEW t \in Threads, NEW o \in entered, Step(t, o) PROVE Unheld'
  <2>. [op |-> started + 1, kind |-> "step"] \in Frames
    BY <1>7, Framed DEF Step, StartOp, Kinds, Deferring, Serving
  <2>1. stack' = [stack EXCEPT ![t] = Append(@, [op |-> started + 1, kind |-> "step"])]
    BY <1>7 DEF Step, StartOp
  <2>2. \A u \in Threads : \A i \in 1..Len(stack'[u]) :
          \/ stack'[u][i].op = ([op |-> started + 1, kind |-> "step"]).op
          \/ i \in 1..Len(stack[u]) /\ stack'[u][i].op = stack[u][i].op
    BY <2>1, Push
  <2>. QED
    BY SMTT(30), <1>7, <2>2, NewOp DEF Step, StartOp
<1>8. ASSUME NEW t \in Threads, NEW o \in entered, Fail(t, o) PROVE Unheld'
  BY <1>8 DEF Fail
<1>9. ASSUME NEW t \in Threads, NEW o \in entered, CloseCall(t, o) PROVE Unheld'
  <2>. [op |-> o, kind |-> "call"] \in Frames
    BY <1>9, Framed DEF CloseCall, Kinds, Deferring, Serving
  <2>1. stack' = [stack EXCEPT ![t] = Append(@, [op |-> o, kind |-> "call"])]
    BY <1>9 DEF CloseCall
  <2>2. \A u \in Threads : \A i \in 1..Len(stack'[u]) :
          \/ stack'[u][i].op = ([op |-> o, kind |-> "call"]).op
          \/ i \in 1..Len(stack[u]) /\ stack'[u][i].op = stack[u][i].op
    BY <2>1, Push
  <2>. QED
    BY <1>9, <2>2 DEF CloseCall
<1>10. ASSUME NEW t \in Threads, NEW o \in Ops, AddError(t, o) PROVE Unheld'
  BY <1>10 DEF AddError
<1>11. ASSUME NEW t \in Threads, NEW o \in Ops, NEW c \in Codes, Respond(t, o, c)
      PROVE  Unheld'
  BY <1>11 DEF Respond
<1>12. ASSUME NEW t \in Threads, Panic(t) PROVE Unheld'
  BY <1>12 DEF Panic
<1>13. ASSUME NEW t \in Threads, Goexit(t) PROVE Unheld'
  BY <1>13 DEF Goexit
<1>14. ASSUME NEW t \in Threads, Recover(t) PROVE Unheld'
  BY <1>14 DEF Recover
<1>15. ASSUME NEW t \in Threads, LeaveRun(t) PROVE Unheld'
  BY <1>15 DEF LeaveRun, Leaving, Catch
<1>16. ASSUME NEW t \in Threads, LeaveServing(t) PROVE Unheld'
  BY <1>16 DEF LeaveServing, Leaving
<1>17. ASSUME NEW t \in Threads, LeaveStep(t) PROVE Unheld'
  BY <1>17 DEF LeaveStep, Leaving, Catch
<1>18. ASSUME NEW t \in Threads, LeaveEnter(t) PROVE Unheld'
  <2>. Top(t).op \in entered
    BY <1>18, TopHeld DEF LeaveEnter, Leaving, Catch, HeldAt
  <2>. QED
    BY <1>18 DEF LeaveEnter, Leaving, Catch
<1>19. ASSUME NEW t \in Threads, LeaveClosed(t) PROVE Unheld'
  <2>1. stack[t] # <<>> /\ stack' = [stack EXCEPT ![t] = Front(@)]
    BY <1>19 DEF LeaveClosed, Leaving, TypeOK, Finishing
  <2>2. \A u \in Threads : \A i \in 1..Len(stack'[u]) : i \in 1..Len(stack[u]) /\ stack'[u][i] = stack[u][i]
    <3>. SUFFICES ASSUME NEW u \in Threads, NEW i \in 1..Len(stack'[u])
                  PROVE  i \in 1..Len(stack[u]) /\ stack'[u][i] = stack[u][i]
      OBVIOUS
    <3>. QED
      BY ZenonT(120), <2>1, Pop
  <2>. QED
    BY <1>19, <2>2 DEF LeaveClosed, Leaving
<1>20. ASSUME NEW t \in Threads, Finish(t) PROVE Unheld'
  <2>1. stack[t] # <<>> /\ stack' = [stack EXCEPT ![t] = Front(@)]
    BY <1>20 DEF Finish, Return, TypeOK, Finishing
  <2>2. \A u \in Threads : \A i \in 1..Len(stack'[u]) : i \in 1..Len(stack[u]) /\ stack'[u][i] = stack[u][i]
    <3>. SUFFICES ASSUME NEW u \in Threads, NEW i \in 1..Len(stack'[u])
                  PROVE  i \in 1..Len(stack[u]) /\ stack'[u][i] = stack[u][i]
      OBVIOUS
    <3>. QED
      BY ZenonT(120), <2>1, Pop
  <2>3. Top(t).op \in 1..started /\ Top(t).op \notin entered \ closed
    BY <1>20, <2>1, TopHeld DEF HeldAt, Right, Finishes, Finish
  <2>4. \A r \in Requests : inflight[r] # Top(t).op
    <3>. SUFFICES ASSUME NEW r \in Requests, inflight[r] = Top(t).op PROVE FALSE
      OBVIOUS
    <3>1. Top(t) = stack[t][Len(stack[t])] /\ Len(stack[t]) \in 1..Len(stack[t])
      BY <2>1, TopHeld
    <3>. QED
      BY SMTT(30), <2>3, <3>1
  <2>5. \A o \in Ops : o # Top(t).op => finishes'[o] = finishes[o]
    BY <1>20 DEF Finish
  <2>. QED
    BY SMTT(30), <1>20, <2>2, <2>3, <2>4, <2>5 DEF Finish
<1>21. CASE Finished
  BY <1>21 DEF Finished, vars
<1>22. CASE UNCHANGED vars
  BY <1>22 DEF vars
<1>. QED
  BY <1>1, <1>2, <1>3, <1>4, <1>5, <1>6, <1>7, <1>8, <1>9, <1>10, <1>11, <1>12, <1>13, <1>14,
     <1>15, <1>16, <1>17, <1>18, <1>19, <1>20, <1>21, <1>22 DEF Next, Leave

\* The start.
LEMMA InitIInv == Init => IInv
<1>1. Init => Flags
  BY ZenonT(30) DEF Init, Flags
<1>2. Init => TypeOK
  BY <1>1, OpAssumption DEF Init, TypeOK, Finishing, Codes, Ops, NoOp
<1>3. Init => Held /\ Sole /\ Unheld
  BY DEF Init, Held, Sole, Unheld, NoOp
<1>. QED
  BY <1>2, <1>3 DEF IInv

\* The inductive invariant of the operations.
LEMMA Invariant == Spec => []IInv
<1>1. IInv /\ [Next]_vars => IInv'
  BY NextTypeOK, NextHeld, NextSole, NextUnheld DEF IInv
<1>. QED
  BY InitIInv, <1>1, PTL DEF Spec

\* Every reachable state is well typed.
THEOREM TypeCorrect == Spec => []TypeOK
<1>1. IInv => TypeOK
  BY DEF IInv
<1>. QED
  BY Invariant, <1>1, PTL

----------------------------------------------------------------------------
(* Every operation is finished, and once.                                   *)

\* A completion is the first one of its operation.
LEMMA Reporting ==
  ASSUME IInv, NEW t \in Threads, Finish(t)
  PROVE  /\ stack[t] # <<>> /\ Top(t).op \in Ops
         /\ finishes[Top(t).op] = <<>> /\ finishes'[Top(t).op] = <<Outcome(t)>>
         /\ \A o \in Ops : o # Top(t).op => finishes'[o] = finishes[o]
<1>1. stack[t] # <<>> /\ finishes' = [finishes EXCEPT ![Top(t).op] = Append(@, Outcome(t))]
  BY DEF Finish, IInv, TypeOK, Finishing
<1>2. Top(t).op \in Ops /\ finishes[Top(t).op] = <<>>
  BY <1>1, TopHeld DEF IInv, HeldAt, Right, Finishes, Frames, Finish
<1>3. DOMAIN finishes = Ops
  BY DEF IInv, TypeOK
<1>4. Append(<<>>, Outcome(t)) = <<Outcome(t)>>
  OBVIOUS
<1>. QED
  BY <1>1, <1>2, <1>3, <1>4

\* Nothing else reports a completion.
LEMMA NotReporting == [Next]_vars => UNCHANGED finishes \/ \E t \in Threads : Finish(t)
<1>. SUFFICES ASSUME [Next]_vars, ~\E t \in Threads : Finish(t) PROVE UNCHANGED finishes
  OBVIOUS
<1>. QED
  BY ZenonT(120) DEF Next, Leave, vars, calls, opVars, adapters, Running, Run, StartOp, Serve, Enter,
     EnterOnly, CommandStarted, CommandEnded, Step, Fail, CloseCall, AddError, Respond, Panic,
     Goexit, Recover, LeaveRun, LeaveServing, LeaveStep, LeaveEnter, LeaveClosed, Finished

\* However many goroutines close an operation, and however they interleave, it is finished once.
THEOREM FinishesOnce == Spec => []FinishedOnce
<1>1. Init => FinishedOnce
  BY DEF Init, FinishedOnce
<1>2. IInv /\ FinishedOnce /\ [Next]_vars => FinishedOnce'
  <2>. SUFFICES ASSUME IInv, FinishedOnce, [Next]_vars, NEW o \in Ops PROVE Len(finishes'[o]) <= 1
    BY DEF FinishedOnce
  <2>1. CASE UNCHANGED finishes
    BY <2>1 DEF FinishedOnce
  <2>2. ASSUME NEW t \in Threads, Finish(t) PROVE Len(finishes'[o]) <= 1
    <3>1. PICK s : s = <<Outcome(t)>>
      OBVIOUS
    <3>2. Len(s) <= 1 /\ Len(finishes[o]) <= 1
      BY <3>1 DEF FinishedOnce
    <3>3. finishes'[o] = finishes[o] \/ finishes'[o] = s
      BY <2>2, <3>1, Reporting
    <3>. QED
      BY Zenon, <3>2, <3>3
  <2>. QED
    BY <2>1, <2>2, NotReporting
<1>. QED
  BY <1>1, <1>2, Invariant, PTL DEF Spec

\* What is closed has been finished, or is being finished.
Ended ==
  \A o \in closed : finishes[o] # <<>> \/ \E t \in Threads : doing[t] = "finish" /\ Top(t).op = o

\* A step changes the stack of one goroutine, and closes only what that one goes on to finish.
LEMMA OneStack ==
  ASSUME IInv, [Next]_vars
  PROVE  \/ UNCHANGED <<stack, doing, closed, finishes>>
         \/ \E t \in Threads :
              /\ \A u \in Threads \ {t} : stack'[u] = stack[u] /\ doing'[u] = doing[u]
              /\ doing[t] = "fn" => UNCHANGED finishes
              /\ \/ UNCHANGED closed
                 \/ closed' = closed \cup {Top(t)'.op} /\ doing'[t] = "finish" /\ doing[t] = "fn"
              /\ doing[t] = "finish" => Finish(t)
<1>. DEFINE Alone(t) == /\ \A u \in Threads \ {t} : stack'[u] = stack[u] /\ doing'[u] = doing[u]
                        /\ doing[t] = "fn" => UNCHANGED finishes
                        /\ \/ UNCHANGED closed
                           \/ closed' = closed \cup {Top(t)'.op} /\ doing'[t] = "finish" /\ doing[t] = "fn"
                        /\ doing[t] = "finish" => Finish(t)
            One == UNCHANGED <<stack, doing, closed, finishes>> \/ \E t \in Threads : Alone(t)
<1>. Calls /\ TypeOK
  BY DEF IInv, TypeOK, Calls
<1>. USE DEF Running, calls, opVars, adapters, Shapes
<1>. Shapes
  BY DEF TypeOK
<1>1. ASSUME NEW t \in Threads, Run(t) PROVE Alone(t)
  BY <1>1 DEF Run, StartOp
<1>2. ASSUME NEW t \in Threads, NEW k \in Deferring, Enter(t, k) PROVE Alone(t)
  BY <1>2 DEF Enter, StartOp
<1>3. ASSUME NEW t \in Threads, EnterOnly(t) PROVE UNCHANGED <<stack, doing, closed, finishes>>
  BY <1>3 DEF EnterOnly
<1>4. ASSUME NEW t \in Threads, NEW k \in Serving, Serve(t, k) PROVE Alone(t)
  BY <1>4 DEF Serve, StartOp
<1>5. ASSUME NEW t \in Threads, NEW r \in Requests, CommandStarted(t, r)
      PROVE  UNCHANGED <<stack, doing, closed, finishes>>
  BY <1>5 DEF CommandStarted
<1>6. ASSUME NEW t \in Threads, NEW r \in Requests, NEW failure \in BOOLEAN, CommandEnded(t, r, failure)
      PROVE  Alone(t)
  <2>1. [op |-> inflight[r], kind |-> "call"] \in Frames
    BY <1>6, Framed DEF CommandEnded
  <2>2. stack'[t] = Append(stack[t], [op |-> inflight[r], kind |-> "call"])
    BY <1>6 DEF CommandEnded
  <2>3. Top(t)' = [op |-> inflight[r], kind |-> "call"]
    BY <2>1, <2>2, Pushing DEF Top, Last
  <2>. QED
    BY <1>6, <2>3 DEF CommandEnded
<1>7. ASSUME NEW t \in Threads, NEW o \in entered, Step(t, o) PROVE Alone(t)
  BY <1>7 DEF Step, StartOp
<1>8. ASSUME NEW t \in Threads, NEW o \in entered, Fail(t, o)
      PROVE  UNCHANGED <<stack, doing, closed, finishes>>
  BY <1>8 DEF Fail
<1>9. ASSUME NEW t \in Threads, NEW o \in entered, CloseCall(t, o) PROVE Alone(t)
  <2>1. [op |-> o, kind |-> "call"] \in Frames
    BY <1>9, Framed DEF CloseCall
  <2>2. stack'[t] = Append(stack[t], [op |-> o, kind |-> "call"])
    BY <1>9 DEF CloseCall
  <2>3. Top(t)' = [op |-> o, kind |-> "call"]
    BY <2>1, <2>2, Pushing DEF Top, Last
  <2>. QED
    BY <1>9, <2>3 DEF CloseCall
<1>10. ASSUME NEW t \in Threads, NEW o \in Ops, AddError(t, o)
       PROVE  UNCHANGED <<stack, doing, closed, finishes>>
  BY <1>10 DEF AddError
<1>11. ASSUME NEW t \in Threads, NEW o \in Ops, NEW c \in Codes, Respond(t, o, c)
       PROVE  UNCHANGED <<stack, doing, closed, finishes>>
  BY <1>11 DEF Respond
<1>12. ASSUME NEW t \in Threads, Panic(t) PROVE UNCHANGED <<stack, doing, closed, finishes>>
  BY <1>12 DEF Panic
<1>13. ASSUME NEW t \in Threads, Goexit(t) PROVE UNCHANGED <<stack, doing, closed, finishes>>
  BY <1>13 DEF Goexit
<1>14. ASSUME NEW t \in Threads, Recover(t) PROVE UNCHANGED <<stack, doing, closed, finishes>>
  BY <1>14 DEF Recover
<1>15. ASSUME NEW t \in Threads, LeaveRun(t) PROVE Alone(t)
  BY <1>15 DEF LeaveRun, Leaving, Catch
<1>16. ASSUME NEW t \in Threads, LeaveServing(t) PROVE Alone(t)
  BY <1>16 DEF LeaveServing, Leaving
<1>17. ASSUME NEW t \in Threads, LeaveStep(t) PROVE Alone(t)
  BY <1>17 DEF LeaveStep, Leaving, Catch
<1>18. ASSUME NEW t \in Threads, LeaveEnter(t) PROVE Alone(t)
  BY <1>18 DEF LeaveEnter, Leaving, Catch, Top
<1>19. ASSUME NEW t \in Threads, LeaveClosed(t) PROVE Alone(t)
  BY <1>19 DEF LeaveClosed, Leaving
<1>20. ASSUME NEW t \in Threads, Finish(t) PROVE Alone(t)
  BY <1>20 DEF Finish, Return
<1>21. Finished => One
  BY DEF Finished, vars
<1>22. UNCHANGED vars => One
  BY DEF vars
<1>23. \A t \in Threads : Alone(t) => One
  OBVIOUS
<1>24. UNCHANGED <<stack, doing, closed, finishes>> => One
  OBVIOUS
<1>. HIDE DEF Alone, One, Running, calls, opVars, adapters, Shapes
<1>25. One
  BY <1>1, <1>2, <1>3, <1>4, <1>5, <1>6, <1>7, <1>8, <1>9, <1>10, <1>11, <1>12, <1>13, <1>14,
     <1>15, <1>16, <1>17, <1>18, <1>19, <1>20, <1>21, <1>22, <1>23, <1>24 DEF Next, Leave
<1>. QED
  BY <1>25 DEF One, Alone

\* Whoever closes an operation finishes it.
LEMMA NextEnded == IInv /\ Ended /\ [Next]_vars => Ended'
<1>. SUFFICES ASSUME IInv, Ended, [Next]_vars, NEW o \in closed'
              PROVE  finishes'[o] # <<>> \/ \E t \in Threads : doing'[t] = "finish" /\ Top(t)'.op = o
  BY DEF Ended
<1>1. CASE UNCHANGED <<stack, doing, closed, finishes>>
  BY <1>1 DEF Ended, Top
<1>2. ASSUME NEW t \in Threads,
             \A u \in Threads \ {t} : stack'[u] = stack[u] /\ doing'[u] = doing[u],
             doing[t] = "fn", UNCHANGED finishes,
             \/ UNCHANGED closed
             \/ closed' = closed \cup {Top(t)'.op} /\ doing'[t] = "finish"
      PROVE  finishes'[o] # <<>> \/ \E u \in Threads : doing'[u] = "finish" /\ Top(u)'.op = o
  <2>1. CASE o \in closed
    BY <1>2, <2>1 DEF Ended, Top
  <2>2. CASE o \notin closed
    BY <1>2, <2>2
  <2>. QED
    BY <2>1, <2>2
<1>3. ASSUME NEW t \in Threads,
             \A u \in Threads \ {t} : stack'[u] = stack[u] /\ doing'[u] = doing[u],
             Finish(t)
      PROVE  finishes'[o] # <<>> \/ \E u \in Threads : doing'[u] = "finish" /\ Top(u)'.op = o
  <2>1. o \in closed /\ o \in Ops
    BY <1>3, OpAssumption DEF Finish, IInv, TypeOK, Ops
  <2>2. CASE o = Top(t).op
    BY <1>3, <2>2, Reporting
  <2>3. CASE o # Top(t).op
    <3>1. finishes'[o] = finishes[o]
      BY <1>3, <2>1, <2>3, Reporting
    <3>. QED
      BY <1>3, <2>1, <2>3, <3>1 DEF Ended, Top
  <2>. QED
    BY <2>2, <2>3
<1>4. \A t \in Threads : doing[t] \in {"fn", "finish"}
  BY DEF IInv, TypeOK
<1>. QED
  BY <1>1, <1>2, <1>3, <1>4, OneStack

\* What the calls hold, call by call.
LEMMA HeldBy ==
  ASSUME TypeOK
  PROVE  \A o : o \in held <=> \E t \in Threads : \E i \in 1..Len(stack[t]) : stack[t][i].op = o
  BY DEF held, TypeOK

\* The next step's.
LEMMA HeldByNext ==
  ASSUME TypeOK'
  PROVE  \A o : o \in held' <=> \E t \in Threads : \E i \in 1..Len(stack'[t]) : stack'[t][i].op = o
  BY DEF held, TypeOK

\* Whoever pushes a frame holds its operation, and nobody lets go of one.
LEMMA HeldByPush ==
  ASSUME TypeOK, TypeOK', NEW t \in Threads, NEW f \in Frames, stack' = [stack EXCEPT ![t] = Append(@, f)],
         NEW o, o \notin held'
  PROVE  o \notin held /\ o # f.op
<1>1. /\ Len(stack[t]) \in Nat /\ Len(stack'[t]) = Len(stack[t]) + 1
      /\ stack'[t][Len(stack[t]) + 1] = f /\ \A i \in 1..Len(stack[t]) : stack'[t][i] = stack[t][i]
  <2>1. stack'[t] = Append(stack[t], f) /\ stack[t] \in Seq(Frames)
    BY DEF TypeOK
  <2>. QED
    BY <2>1, Pushing
<1>2. o # f.op
  <2>1. Len(stack[t]) + 1 \in 1..Len(stack'[t])
    BY <1>1
  <2>. QED
    BY <1>1, <2>1, HeldByNext
<1>3. ASSUME NEW u \in Threads, NEW i \in 1..Len(stack[u]) PROVE stack[u][i].op # o
  <2>1. CASE u = t
    <3>1. i \in 1..Len(stack'[t]) /\ stack'[t][i] = stack[t][i]
      BY <1>1, <1>3, <2>1
    <3>. QED
      BY <2>1, <3>1, HeldByNext
  <2>2. CASE u # t
    <3>1. stack'[u] = stack[u]
      BY <2>2 DEF TypeOK
    <3>. QED
      BY <3>1, HeldByNext
  <2>. QED
    BY <2>1, <2>2
<1>. QED
  BY <1>2, <1>3, HeldBy

\* Whoever pops a frame lets go of its operation only.
LEMMA HeldByPop ==
  ASSUME TypeOK, TypeOK', NEW t \in Threads, stack[t] # <<>>, stack' = [stack EXCEPT ![t] = Front(@)],
         NEW o \in held, o \notin held'
  PROVE  o = Top(t).op
<1>1. /\ Len(stack[t]) \in Nat \ {0} /\ Len(stack'[t]) = Len(stack[t]) - 1 /\ Top(t) = stack[t][Len(stack[t])]
      /\ \A i \in 1..(Len(stack[t]) - 1) : stack'[t][i] = stack[t][i]
  <2>1. stack'[t] = Front(stack[t]) /\ stack[t] \in Seq(Frames)
    BY DEF TypeOK
  <2>. QED
    BY <2>1, Popping DEF Top
<1>2. PICK u \in Threads : \E i \in 1..Len(stack[u]) : stack[u][i].op = o
  BY HeldBy
<1>3. PICK i \in 1..Len(stack[u]) : stack[u][i].op = o
  BY <1>2
<1>4. CASE u = t /\ i # Len(stack[t])
  <2>1. i \in 1..Len(stack'[t]) /\ stack'[t][i] = stack[t][i]
    BY <1>1, <1>4
  <2>. QED
    BY <1>3, <1>4, <2>1, HeldByNext
<1>5. CASE u # t
  <2>1. stack'[u] = stack[u]
    BY <1>5 DEF TypeOK
  <2>. QED
    BY <1>3, <2>1, HeldByNext
<1>. QED
  BY <1>1, <1>3, <1>4, <1>5

\* Every step leaves what nobody holds any more finished, or to a handle or the driver.
LEMMA NextForgotten == IInv /\ Ended /\ NoneForgotten /\ [Next]_vars => NoneForgotten'
<1>. SUFFICES ASSUME IInv, Ended, NoneForgotten, [Next]_vars PROVE NoneForgotten'
  OBVIOUS
<1>. TypeOK /\ TypeOK' /\ Calls
  BY NextTypeOK DEF IInv, TypeOK, Calls
<1>. SUFFICES ASSUME NEW o \in 1..started', o \notin held'
              PROVE  finishes'[o] # <<>> \/ o \in entered' \ closed' \/ \E q \in Requests : inflight'[q] = o
  BY DEF NoneForgotten
<1>. DEFINE Safe == finishes'[o] # <<>> \/ o \in entered' \ closed' \/ \E q \in Requests : inflight'[q] = o
<1>. Shapes /\ Handles
  BY DEF TypeOK, Shapes, Handles
<1>. USE DEF Running, calls, opVars, adapters, Shapes, Handles
<1>1. ASSUME NEW t \in Threads, Run(t) PROVE Safe
  <2>. [op |-> started + 1, kind |-> "run"] \in Frames
    BY <1>1, Framed DEF Run, StartOp, Kinds, Deferring, Serving
  <2>1. stack' = [stack EXCEPT ![t] = Append(@, [op |-> started + 1, kind |-> "run"])]
    BY <1>1 DEF Run, StartOp
  <2>2. o \notin held /\ o # ([op |-> started + 1, kind |-> "run"]).op
    BY <2>1, HeldByPush
  <2>. QED
    BY <1>1, <2>2 DEF Run, StartOp, NoneForgotten
<1>2. ASSUME NEW t \in Threads, NEW k \in Deferring, Enter(t, k) PROVE Safe
  <2>. [op |-> started + 1, kind |-> k] \in Frames
    BY <1>2, Framed DEF Enter, StartOp, Kinds, Deferring, Serving
  <2>1. stack' = [stack EXCEPT ![t] = Append(@, [op |-> started + 1, kind |-> k])]
    BY <1>2 DEF Enter, StartOp
  <2>2. o \notin held /\ o # ([op |-> started + 1, kind |-> k]).op
    BY <2>1, HeldByPush
  <2>. QED
    BY <1>2, <2>2 DEF Enter, StartOp, NoneForgotten
<1>3. ASSUME NEW t \in Threads, EnterOnly(t) PROVE Safe
  <2>. o \notin held
    BY <1>3, HeldBy, HeldByNext DEF EnterOnly
  <2>. QED
    BY <1>3 DEF EnterOnly, NoneForgotten
<1>4. ASSUME NEW t \in Threads, NEW k \in Serving, Serve(t, k) PROVE Safe
  <2>. [op |-> started + 1, kind |-> k] \in Frames
    BY <1>4, Framed DEF Serve, StartOp, Kinds, Deferring, Serving
  <2>1. stack' = [stack EXCEPT ![t] = Append(@, [op |-> started + 1, kind |-> k])]
    BY <1>4 DEF Serve, StartOp
  <2>2. o \notin held /\ o # ([op |-> started + 1, kind |-> k]).op
    BY <2>1, HeldByPush
  <2>. QED
    BY <1>4, <2>2 DEF Serve, StartOp, NoneForgotten
<1>5. ASSUME NEW t \in Threads, NEW r \in Requests, CommandStarted(t, r) PROVE Safe
  <2>1. o \notin held
    BY <1>5, HeldBy, HeldByNext DEF CommandStarted
  <2>2. o \in 1..started \/ o = started + 1
    BY <1>5 DEF CommandStarted
  <2>3. CASE o = started + 1
    BY <1>5, <2>3 DEF CommandStarted
  <2>4. CASE o \in 1..started
    <3>1. ASSUME NEW q \in Requests, inflight[q] = o PROVE inflight'[q] = o
      BY <1>5, <2>4, <3>1 DEF CommandStarted, NoOp
    <3>2. finishes[o] # <<>> \/ o \in entered \ closed \/ \E q \in Requests : inflight[q] = o
      BY <2>1, <2>4 DEF NoneForgotten
    <3>. QED
      BY <1>5, <3>1, <3>2 DEF CommandStarted
  <2>. QED
    BY <2>2, <2>3, <2>4
<1>6. ASSUME NEW t \in Threads, NEW r \in Requests, NEW failure \in BOOLEAN, CommandEnded(t, r, failure)
      PROVE  Safe
  <2>. [op |-> inflight[r], kind |-> "call"] \in Frames
    BY <1>6, Framed DEF CommandEnded, Kinds, Deferring, Serving
  <2>1. stack' = [stack EXCEPT ![t] = Append(@, [op |-> inflight[r], kind |-> "call"])]
    BY <1>6 DEF CommandEnded
  <2>2. o \notin held /\ o # ([op |-> inflight[r], kind |-> "call"]).op
    BY <2>1, HeldByPush
  <2>. QED
    BY <1>6, <2>2 DEF CommandEnded, NoneForgotten
<1>7. ASSUME NEW t \in Threads, NEW p \in entered, Step(t, p) PROVE Safe
  <2>. [op |-> started + 1, kind |-> "step"] \in Frames
    BY <1>7, Framed DEF Step, StartOp, Kinds, Deferring, Serving
  <2>1. stack' = [stack EXCEPT ![t] = Append(@, [op |-> started + 1, kind |-> "step"])]
    BY <1>7 DEF Step, StartOp
  <2>2. o \notin held /\ o # ([op |-> started + 1, kind |-> "step"]).op
    BY <2>1, HeldByPush
  <2>. QED
    BY <1>7, <2>2 DEF Step, StartOp, NoneForgotten
<1>8. ASSUME NEW t \in Threads, NEW p \in entered, Fail(t, p) PROVE Safe
  <2>. o \notin held
    BY <1>8, HeldBy, HeldByNext DEF Fail
  <2>. QED
    BY <1>8 DEF Fail, NoneForgotten
<1>9. ASSUME NEW t \in Threads, NEW p \in entered, CloseCall(t, p) PROVE Safe
  <2>. [op |-> p, kind |-> "call"] \in Frames
    BY <1>9, Framed DEF CloseCall, Kinds, Deferring, Serving
  <2>1. stack' = [stack EXCEPT ![t] = Append(@, [op |-> p, kind |-> "call"])]
    BY <1>9 DEF CloseCall
  <2>2. o \notin held /\ o # ([op |-> p, kind |-> "call"]).op
    BY <2>1, HeldByPush
  <2>. QED
    BY <1>9, <2>2 DEF CloseCall, NoneForgotten
<1>10. ASSUME NEW t \in Threads, NEW p \in Ops, AddError(t, p) PROVE Safe
  <2>. o \notin held
    BY <1>10, HeldBy, HeldByNext DEF AddError
  <2>. QED
    BY <1>10 DEF AddError, NoneForgotten
<1>11. ASSUME NEW t \in Threads, NEW p \in Ops, NEW c \in Codes, Respond(t, p, c) PROVE Safe
  <2>. o \notin held
    BY <1>11, HeldBy, HeldByNext DEF Respond
  <2>. QED
    BY <1>11 DEF Respond, NoneForgotten
<1>12. ASSUME NEW t \in Threads, Panic(t) PROVE Safe
  <2>. o \notin held
    BY <1>12, HeldBy, HeldByNext DEF Panic
  <2>. QED
    BY <1>12 DEF Panic, NoneForgotten
<1>13. ASSUME NEW t \in Threads, Goexit(t) PROVE Safe
  <2>. o \notin held
    BY <1>13, HeldBy, HeldByNext DEF Goexit
  <2>. QED
    BY <1>13 DEF Goexit, NoneForgotten
<1>14. ASSUME NEW t \in Threads, Recover(t) PROVE Safe
  <2>. o \notin held
    BY <1>14, HeldBy, HeldByNext DEF Recover
  <2>. QED
    BY <1>14 DEF Recover, NoneForgotten
<1>15. ASSUME NEW t \in Threads, LeaveRun(t) PROVE Safe
  <2>. o \notin held
    BY <1>15, HeldBy, HeldByNext DEF LeaveRun, Leaving, Catch
  <2>. QED
    BY <1>15 DEF LeaveRun, Leaving, Catch, NoneForgotten
<1>16. ASSUME NEW t \in Threads, LeaveServing(t) PROVE Safe
  <2>. o \notin held
    BY <1>16, HeldBy, HeldByNext DEF LeaveServing, Leaving
  <2>. QED
    BY <1>16 DEF LeaveServing, Leaving, NoneForgotten
<1>17. ASSUME NEW t \in Threads, LeaveStep(t) PROVE Safe
  <2>. o \notin held
    BY <1>17, HeldBy, HeldByNext DEF LeaveStep, Leaving, Catch
  <2>. QED
    BY <1>17 DEF LeaveStep, Leaving, Catch, NoneForgotten
<1>18. ASSUME NEW t \in Threads, LeaveEnter(t) PROVE Safe
  <2>1. o \notin held
    BY <1>18, HeldBy, HeldByNext DEF LeaveEnter, Leaving, Catch
  <2>2. o # Top(t).op
    BY ZenonT(40), <1>18, <2>1, TopHeld, HeldBy DEF LeaveEnter, Leaving, Catch
  <2>. QED
    BY <1>18, <2>1, <2>2 DEF LeaveEnter, Leaving, Catch, NoneForgotten
<1>19. ASSUME NEW t \in Threads, LeaveClosed(t) PROVE Safe
  <2>1. stack[t] # <<>> /\ stack' = [stack EXCEPT ![t] = Front(@)]
    BY <1>19 DEF LeaveClosed, Leaving, TypeOK, Finishing
  <2>2. stack'[t] = Front(stack[t]) /\ \A u \in Threads \ {t} : stack'[u] = stack[u]
    BY <2>1
  <2>4. o \in held => o = Top(t).op
    BY <2>1, HeldByPop
  <2>5. CASE o = Top(t).op
    <3>1. finishes[o] # <<>> \/ \E u \in Threads \ {t} : doing[u] = "finish" /\ Top(u).op = o
      BY <1>19, <2>5 DEF LeaveClosed, Leaving, Ended
    <3>2. ASSUME NEW u \in Threads \ {t}, doing[u] = "finish", Top(u).op = o PROVE FALSE
      <4>1. stack[u] # <<>>
        BY <3>2 DEF TypeOK, Finishing
      <4>. QED
        BY <2>2, <3>2, <4>1, TopHeld, HeldByNext
    <3>. QED
      BY <1>19, <3>1, <3>2 DEF LeaveClosed, Leaving
  <2>6. CASE o # Top(t).op
    BY <1>19, <2>4, <2>6 DEF LeaveClosed, Leaving, NoneForgotten
  <2>. QED
    BY <2>5, <2>6
<1>20. ASSUME NEW t \in Threads, Finish(t) PROVE Safe
  <2>1. stack[t] # <<>> /\ stack' = [stack EXCEPT ![t] = Front(@)]
    BY <1>20 DEF Finish, Return, TypeOK, Finishing
  <2>2. stack'[t] = Front(stack[t]) /\ \A u \in Threads \ {t} : stack'[u] = stack[u]
    BY <2>1
  <2>4. o \in held => o = Top(t).op
    BY <2>1, HeldByPop
  <2>5. CASE o = Top(t).op
    <3>1. finishes'[o] = <<Outcome(t)>>
      BY <1>20, <2>5, Reporting
    <3>. QED
      BY <3>1
  <2>6. CASE o # Top(t).op
    <3>1. finishes'[o] = finishes[o]
      BY <1>20, <2>6 DEF Finish
    <3>. QED
      BY <1>20, <2>4, <2>6, <3>1 DEF Finish, NoneForgotten
  <2>. QED
    BY <2>5, <2>6
<1>21. CASE Finished
  <2>. o \notin held
    BY <1>21, HeldBy, HeldByNext DEF Finished, vars
  <2>. QED
    BY <1>21 DEF Finished, vars, NoneForgotten
<1>22. CASE UNCHANGED vars
  <2>. o \notin held
    BY <1>22, HeldBy, HeldByNext DEF vars
  <2>. QED
    BY <1>22 DEF vars, NoneForgotten
<1>. QED
  BY <1>1, <1>2, <1>3, <1>4, <1>5, <1>6, <1>7, <1>8, <1>9, <1>10, <1>11, <1>12, <1>13, <1>14,
     <1>15, <1>16, <1>17, <1>18, <1>19, <1>20, <1>21, <1>22 DEF Next, Leave

\* Whatever way its calls are left, an operation that was started has reported its completion as
\* soon as no call holds it, unless its handle is open or its command in flight.
THEOREM ForgetsNone == Spec => []NoneForgotten
<1>1. Init => Ended /\ NoneForgotten
  BY DEF Init, Ended, NoneForgotten
<1>. QED
  BY <1>1, NextEnded, NextForgotten, Invariant, PTL DEF Spec

----------------------------------------------------------------------------
(* Panics.                                                                  *)

\* Every step leaves a panic under way, or in the hands of who raises it again.
LEMMA NextPanic == IInv /\ PanicNeverSwallowed /\ [Next]_vars => PanicNeverSwallowed'
<1>. SUFFICES ASSUME IInv, PanicNeverSwallowed, [Next]_vars PROVE PanicNeverSwallowed'
  OBVIOUS
<1>. Shapes /\ Flags /\ Finishing /\ Calls /\ raised \subseteq Threads
  BY DEF IInv, TypeOK, Shapes, Calls
<1>. USE DEF PanicNeverSwallowed
<1>. USE DEF Running, calls, opVars, adapters, Shapes
<1>1. ASSUME NEW t \in Threads, Run(t) PROVE PanicNeverSwallowed'
  BY <1>1 DEF Run, StartOp
<1>2. ASSUME NEW t \in Threads, NEW k \in Deferring, Enter(t, k) PROVE PanicNeverSwallowed'
  BY <1>2 DEF Enter, StartOp
<1>3. ASSUME NEW t \in Threads, EnterOnly(t) PROVE PanicNeverSwallowed'
  BY <1>3 DEF EnterOnly
<1>4. ASSUME NEW t \in Threads, NEW k \in Serving, Serve(t, k) PROVE PanicNeverSwallowed'
  BY <1>4 DEF Serve, StartOp
<1>5. ASSUME NEW t \in Threads, NEW r \in Requests, CommandStarted(t, r)
      PROVE  PanicNeverSwallowed'
  BY <1>5 DEF CommandStarted
<1>6. ASSUME NEW t \in Threads, NEW r \in Requests, NEW failure \in BOOLEAN, CommandEnded(t, r, failure)
      PROVE  PanicNeverSwallowed'
  BY <1>6 DEF CommandEnded
<1>7. ASSUME NEW t \in Threads, NEW o \in entered, Step(t, o) PROVE PanicNeverSwallowed'
  BY <1>7 DEF Step, StartOp
<1>8. ASSUME NEW t \in Threads, NEW o \in entered, Fail(t, o) PROVE PanicNeverSwallowed'
  BY <1>8 DEF Fail
<1>9. ASSUME NEW t \in Threads, NEW o \in entered, CloseCall(t, o)
      PROVE  PanicNeverSwallowed'
  BY <1>9 DEF CloseCall
<1>10. ASSUME NEW t \in Threads, NEW o \in Ops, AddError(t, o) PROVE PanicNeverSwallowed'
  BY <1>10 DEF AddError
<1>11. ASSUME NEW t \in Threads, NEW o \in Ops, NEW c \in Codes, Respond(t, o, c)
      PROVE  PanicNeverSwallowed'
  BY <1>11 DEF Respond
<1>12. ASSUME NEW t \in Threads, Panic(t) PROVE PanicNeverSwallowed'
  <2>. UNCHANGED rec
    BY <1>12 DEF Panic
  <2>. QED
    BY <1>12 DEF Panic
<1>13. ASSUME NEW t \in Threads, Goexit(t) PROVE PanicNeverSwallowed'
  BY <1>13 DEF Goexit
<1>14. ASSUME NEW t \in Threads, Recover(t) PROVE PanicNeverSwallowed'
  <2>. UNCHANGED rec
    BY <1>14 DEF Recover
  <2>. QED
    BY <1>14 DEF Recover
<1>15. ASSUME NEW t \in Threads, LeaveRun(t) PROVE PanicNeverSwallowed'
  <2>. Catch(t) /\ UNCHANGED raised /\ ~rec[t]
    BY <1>15 DEF LeaveRun, Leaving, Finishing
  <2>. QED
    BY Caught
<1>16. ASSUME NEW t \in Threads, LeaveServing(t) PROVE PanicNeverSwallowed'
  <2>. UNCHANGED raised /\ ~rec[t] /\ mode' = [mode EXCEPT ![t] = IF @ = "panic" THEN "run" ELSE @]
    BY <1>16 DEF LeaveServing, Leaving, Finishing
  <2>. (mode[t] = "panic" => rec'[t]) /\ \A u \in Threads \ {t} : rec'[u] <=> rec[u]
    BY Zenon, <1>16 DEF LeaveServing, Flags
  <2>. QED
    OBVIOUS
<1>17. ASSUME NEW t \in Threads, LeaveStep(t) PROVE PanicNeverSwallowed'
  <2>. Catch(t) /\ UNCHANGED raised /\ ~rec[t]
    BY <1>17 DEF LeaveStep, Leaving, Finishing
  <2>. QED
    BY Caught
<1>18. ASSUME NEW t \in Threads, LeaveEnter(t) PROVE PanicNeverSwallowed'
  <2>. Catch(t) /\ UNCHANGED raised /\ ~rec[t]
    BY <1>18 DEF LeaveEnter, Leaving, Finishing
  <2>. QED
    BY Caught
<1>19. ASSUME NEW t \in Threads, LeaveClosed(t) PROVE PanicNeverSwallowed'
  BY <1>19 DEF LeaveClosed, Leaving
<1>20. ASSUME NEW t \in Threads, Finish(t) PROVE PanicNeverSwallowed'
  <2>. Return(t) /\ UNCHANGED raised /\ mode[t] # "panic"
    BY <1>20 DEF Finish, Finishing
  <2>. QED
    BY Returned
<1>21. CASE Finished
  BY <1>21 DEF Finished, vars
<1>22. CASE UNCHANGED vars
  BY <1>22 DEF vars
<1>. QED
  BY <1>1, <1>2, <1>3, <1>4, <1>5, <1>6, <1>7, <1>8, <1>9, <1>10, <1>11, <1>12, <1>13, <1>14,
     <1>15, <1>16, <1>17, <1>18, <1>19, <1>20, <1>21, <1>22 DEF Next, Leave

\* No panic is swallowed: three deferred functions recover it, and raise it again.
THEOREM NeverSwallowsPanic == Spec => []PanicNeverSwallowed
<1>1. Init => PanicNeverSwallowed
  BY DEF Init, PanicNeverSwallowed
<1>. QED
  BY <1>1, NextPanic, Invariant, PTL DEF Spec

\* Pushing makes no stack shorter.
LEMMA Longer ==
  ASSUME TypeOK, NEW t \in Threads, NEW f \in Frames, stack' = [stack EXCEPT ![t] = Append(@, f)],
         NEW u \in Threads
  PROVE  ~(Len(stack'[u]) < Len(stack[u]))
<1>1. Len(stack[u]) \in Nat
  BY DEF TypeOK
<1>2. CASE u = t
  <2>1. stack'[u] = Append(stack[u], f) /\ stack[u] \in Seq(Frames)
    BY <1>2 DEF TypeOK
  <2>2. Len(stack'[u]) = Len(stack[u]) + 1
    BY <2>1, Pushing
  <2>. QED
    BY <1>1, <2>2
<1>3. CASE u # t
  BY <1>1, <1>3 DEF TypeOK
<1>. QED
  BY <1>2, <1>3

\* A goroutine loses a call by finishing its operation, or by finding it closed.
LEMMA Shrinking ==
  ASSUME IInv, [Next]_vars, NEW u \in Threads, Len(stack'[u]) < Len(stack[u])
  PROVE  LeaveClosed(u) \/ Finish(u)
<1>. Shapes /\ TypeOK
  BY DEF IInv, TypeOK, Shapes
<1>. DEFINE Lost == Len(stack'[u]) < Len(stack[u]) => LeaveClosed(u) \/ Finish(u)
<1>. Len(stack[u]) \in Nat
  BY DEF Shapes
<1>. USE DEF Running, calls, opVars, adapters, Shapes
<1>1. ASSUME NEW t \in Threads, Run(t) PROVE Lost
  <2>1. /\ [op |-> started + 1, kind |-> "run"] \in Frames
        /\ stack' = [stack EXCEPT ![t] = Append(@, [op |-> started + 1, kind |-> "run"])]
    BY <1>1, Framed DEF Run, StartOp, Kinds, Deferring, Serving
  <2>. QED
    BY <2>1, Longer
<1>2. ASSUME NEW t \in Threads, NEW k \in Deferring, Enter(t, k) PROVE Lost
  <2>1. /\ [op |-> started + 1, kind |-> k] \in Frames
        /\ stack' = [stack EXCEPT ![t] = Append(@, [op |-> started + 1, kind |-> k])]
    BY <1>2, Framed DEF Enter, StartOp, Kinds, Deferring, Serving
  <2>. QED
    BY <2>1, Longer
<1>3. ASSUME NEW t \in Threads, EnterOnly(t) PROVE Lost
  BY <1>3 DEF EnterOnly
<1>4. ASSUME NEW t \in Threads, NEW k \in Serving, Serve(t, k) PROVE Lost
  <2>1. /\ [op |-> started + 1, kind |-> k] \in Frames
        /\ stack' = [stack EXCEPT ![t] = Append(@, [op |-> started + 1, kind |-> k])]
    BY <1>4, Framed DEF Serve, StartOp, Kinds, Deferring, Serving
  <2>. QED
    BY <2>1, Longer
<1>5. ASSUME NEW t \in Threads, NEW r \in Requests, CommandStarted(t, r) PROVE Lost
  BY <1>5 DEF CommandStarted
<1>6. ASSUME NEW t \in Threads, NEW r \in Requests, NEW failure \in BOOLEAN, CommandEnded(t, r, failure)
      PROVE  Lost
  <2>1. /\ [op |-> inflight[r], kind |-> "call"] \in Frames
        /\ stack' = [stack EXCEPT ![t] = Append(@, [op |-> inflight[r], kind |-> "call"])]
    BY <1>6, Framed DEF CommandEnded, Kinds, Deferring, Serving
  <2>. QED
    BY <2>1, Longer
<1>7. ASSUME NEW t \in Threads, NEW p \in entered, Step(t, p) PROVE Lost
  <2>1. /\ [op |-> started + 1, kind |-> "step"] \in Frames
        /\ stack' = [stack EXCEPT ![t] = Append(@, [op |-> started + 1, kind |-> "step"])]
    BY <1>7, Framed DEF Step, StartOp, Kinds, Deferring, Serving
  <2>. QED
    BY <2>1, Longer
<1>8. ASSUME NEW t \in Threads, NEW p \in entered, Fail(t, p) PROVE Lost
  BY <1>8 DEF Fail
<1>9. ASSUME NEW t \in Threads, NEW p \in entered, CloseCall(t, p) PROVE Lost
  <2>1. /\ [op |-> p, kind |-> "call"] \in Frames
        /\ stack' = [stack EXCEPT ![t] = Append(@, [op |-> p, kind |-> "call"])]
    BY <1>9, Framed DEF CloseCall, Kinds, Deferring, Serving
  <2>. QED
    BY <2>1, Longer
<1>10. ASSUME NEW t \in Threads, NEW p \in Ops, AddError(t, p) PROVE Lost
  BY <1>10 DEF AddError
<1>11. ASSUME NEW t \in Threads, NEW p \in Ops, NEW c \in Codes, Respond(t, p, c) PROVE Lost
  BY <1>11 DEF Respond
<1>12. ASSUME NEW t \in Threads, Panic(t) PROVE Lost
  BY <1>12 DEF Panic
<1>13. ASSUME NEW t \in Threads, Goexit(t) PROVE Lost
  BY <1>13 DEF Goexit
<1>14. ASSUME NEW t \in Threads, Recover(t) PROVE Lost
  BY <1>14 DEF Recover
<1>15. ASSUME NEW t \in Threads, LeaveRun(t) PROVE Lost
  BY <1>15 DEF LeaveRun, Leaving, Catch
<1>16. ASSUME NEW t \in Threads, LeaveServing(t) PROVE Lost
  BY <1>16 DEF LeaveServing, Leaving
<1>17. ASSUME NEW t \in Threads, LeaveStep(t) PROVE Lost
  BY <1>17 DEF LeaveStep, Leaving, Catch
<1>18. ASSUME NEW t \in Threads, LeaveEnter(t) PROVE Lost
  BY <1>18 DEF LeaveEnter, Leaving, Catch
<1>19. ASSUME NEW t \in Threads, LeaveClosed(t) PROVE Lost
  <2>1. CASE u = t
    BY <1>19, <2>1
  <2>2. CASE u # t
    BY <1>19, <2>2 DEF LeaveClosed, Leaving
  <2>. QED
    BY <2>1, <2>2
<1>20. ASSUME NEW t \in Threads, Finish(t) PROVE Lost
  <2>1. CASE u = t
    BY <1>20, <2>1
  <2>2. CASE u # t
    BY <1>20, <2>2 DEF Finish, Return
  <2>. QED
    BY <2>1, <2>2
<1>21. Finished => Lost
  BY DEF Finished, vars
<1>22. UNCHANGED vars => Lost
  BY DEF vars
<1>. HIDE DEF Lost, Running, calls, opVars, adapters, Shapes
<1>23. Lost
  BY <1>1, <1>2, <1>3, <1>4, <1>5, <1>6, <1>7, <1>8, <1>9, <1>10, <1>11, <1>12, <1>13, <1>14,
     <1>15, <1>16, <1>17, <1>18, <1>19, <1>20, <1>21, <1>22 DEF Next, Leave
<1>. QED
  BY <1>23 DEF Lost

\* A call that a panic leaves has reported it, unless someone had closed the operation before.
THEOREM ReportsPanic == Spec => PanicReported
<1>1. ASSUME IInv, PanicNeverSwallowed, [Next]_vars, NEW t \in Threads, t \in raised,
             Len(stack'[t]) < Len(stack[t])
      PROVE  \/ "panic" \in ToSet(finishes'[Top(t).op])
             \/ Top(t).kind \in Deferring /\ doing[t] = "fn" /\ Top(t).op \in closed
  <2>1. CASE LeaveClosed(t)
    BY <2>1 DEF LeaveClosed, Leaving
  <2>2. CASE Finish(t)
    <3>1. rec[t]
      BY <1>1, <2>2 DEF Finish, PanicNeverSwallowed, IInv, TypeOK, Finishing
    <3>2. Outcome(t) = "panic"
      BY <3>1 DEF Outcome
    <3>3. finishes'[Top(t).op] = <<"panic">>
      BY <1>1, <2>2, <3>2, Reporting
    <3>4. "panic" \in ToSet(<<"panic">>)
      BY DEF ToSet
    <3>. QED
      BY <3>3, <3>4
  <2>. QED
    BY <1>1, <2>1, <2>2, Shrinking
<1>2. IInv /\ PanicNeverSwallowed /\ [Next]_vars =>
        [\A t \in Threads :
           (t \in raised /\ Len(stack'[t]) < Len(stack[t])) =>
             \/ "panic" \in ToSet(finishes'[Top(t).op])
             \/ Top(t).kind \in Deferring /\ doing[t] = "fn" /\ Top(t).op \in closed]_vars
  BY <1>1
<1>. QED
  BY <1>2, Invariant, NeverSwallowsPanic, PTL DEF Spec, PanicReported

----------------------------------------------------------------------------
(* Failures.                                                                *)

\* The status the middleware recorded is the client's, or an informational one, or an error.
Responses ==
  \A o \in Ops : (status[o] = "unset" => answer[o] = "unset") /\ (status[o] = "ok" => answer[o] = "ok")

\* A panic is an error, and the error of a step is in its parent before the step finishes.
Errs ==
  \A t \in Threads :
    /\ rec[t] => err[t]
    /\ err[t] /\ Top(t).kind = "step" => parent[Top(t).op] \in failed

\* What is known to have failed has its error in the handle, or in the call that finishes it.
KnownAt(t, i) ==
  stack[t][i].op \in known =>
    /\ stack[t][i].kind \in Own => Finishes(t, i) /\ err[t]
    /\ stack[t][i].kind = "call" => stack[t][i].op \in failed

Known ==
  /\ known \cap entered \subseteq failed
  /\ \A t \in Threads : \A i \in 1..Len(stack[t]) : KnownAt(t, i)

\* The first status is recorded, and the first that is not informational is sent.
LEMMA NextResponses == TypeOK /\ Responses /\ [Next]_vars => Responses'
<1>. SUFFICES ASSUME TypeOK /\ Responses, [Next]_vars PROVE Responses'
  OBVIOUS
<1>. Reports
  BY DEF TypeOK, Reports
<1>. USE DEF Running, calls, opVars, adapters, Responses, Reports, Codes
<1>1. ASSUME NEW t \in Threads, Run(t) PROVE Responses'
  BY <1>1 DEF Run, StartOp
<1>2. ASSUME NEW t \in Threads, NEW k \in Deferring, Enter(t, k) PROVE Responses'
  BY <1>2 DEF Enter, StartOp
<1>3. ASSUME NEW t \in Threads, EnterOnly(t) PROVE Responses'
  BY <1>3 DEF EnterOnly
<1>4. ASSUME NEW t \in Threads, NEW k \in Serving, Serve(t, k) PROVE Responses'
  BY <1>4 DEF Serve, StartOp
<1>5. ASSUME NEW t \in Threads, NEW r \in Requests, CommandStarted(t, r) PROVE Responses'
  BY <1>5 DEF CommandStarted
<1>6. ASSUME NEW t \in Threads, NEW r \in Requests, NEW failure \in BOOLEAN, CommandEnded(t, r, failure)
      PROVE  Responses'
  BY <1>6 DEF CommandEnded
<1>7. ASSUME NEW t \in Threads, NEW o \in entered, Step(t, o) PROVE Responses'
  BY <1>7 DEF Step, StartOp
<1>8. ASSUME NEW t \in Threads, NEW o \in entered, Fail(t, o) PROVE Responses'
  BY <1>8 DEF Fail
<1>9. ASSUME NEW t \in Threads, NEW o \in entered, CloseCall(t, o) PROVE Responses'
  BY <1>9 DEF CloseCall
<1>10. ASSUME NEW t \in Threads, NEW o \in Ops, AddError(t, o) PROVE Responses'
  BY <1>10 DEF AddError
<1>11. ASSUME NEW t \in Threads, NEW o \in Ops, NEW c \in Codes, Respond(t, o, c)
      PROVE  Responses'
  BY <1>11 DEF Respond
<1>12. ASSUME NEW t \in Threads, Panic(t) PROVE Responses'
  BY <1>12 DEF Panic
<1>13. ASSUME NEW t \in Threads, Goexit(t) PROVE Responses'
  BY <1>13 DEF Goexit
<1>14. ASSUME NEW t \in Threads, Recover(t) PROVE Responses'
  BY <1>14 DEF Recover
<1>15. ASSUME NEW t \in Threads, LeaveRun(t) PROVE Responses'
  BY <1>15 DEF LeaveRun, Leaving, Catch
<1>16. ASSUME NEW t \in Threads, LeaveServing(t) PROVE Responses'
  BY <1>16 DEF LeaveServing, Leaving
<1>17. ASSUME NEW t \in Threads, LeaveStep(t) PROVE Responses'
  BY <1>17 DEF LeaveStep, Leaving, Catch
<1>18. ASSUME NEW t \in Threads, LeaveEnter(t) PROVE Responses'
  BY <1>18 DEF LeaveEnter, Leaving, Catch
<1>19. ASSUME NEW t \in Threads, LeaveClosed(t) PROVE Responses'
  BY <1>19 DEF LeaveClosed, Leaving
<1>20. ASSUME NEW t \in Threads, Finish(t) PROVE Responses'
  BY <1>20 DEF Finish, Return
<1>21. CASE Finished
  BY <1>21 DEF Finished, vars
<1>22. CASE UNCHANGED vars
  BY <1>22 DEF vars
<1>. QED
  BY <1>1, <1>2, <1>3, <1>4, <1>5, <1>6, <1>7, <1>8, <1>9, <1>10, <1>11, <1>12, <1>13, <1>14,
     <1>15, <1>16, <1>17, <1>18, <1>19, <1>20, <1>21, <1>22 DEF Next, Leave

\* Every step keeps the errors.
LEMMA NextErrs == IInv /\ Errs /\ [Next]_vars => Errs'
<1>. SUFFICES ASSUME IInv, Errs, [Next]_vars PROVE Errs'
  OBVIOUS
<1>. TypeOK /\ Calls /\ Shapes /\ Handles /\ Flags /\ Finishing
  BY DEF IInv, TypeOK, Calls, Shapes, Handles
<1>. \A u \in Threads : err[u] => stack[u] # <<>> /\ doing[u] = "finish"
  BY DEF Finishing
<1>. \A u \in Threads : err[u] => Top(u).op \in 1..started
  BY TopHeld DEF HeldAt, IInv
<1>. USE DEF Errs
<1>. USE DEF Running, calls, opVars, adapters
<1>1. ASSUME NEW t \in Threads, Run(t) PROVE Errs'
  <2>1. \A u \in Threads \ {t} : Top(u)' = Top(u)
    BY <1>1 DEF Run, StartOp, Top
  <2>2. UNCHANGED <<rec, err>> /\ ~err[t] /\ ~rec[t]
    BY <1>1 DEF Run, StartOp, Finishing
  <2>3. failed \subseteq failed' /\ \A u \in Threads : err[u] => parent'[Top(u).op] = parent[Top(u).op]
    BY <1>1 DEF Run, StartOp
  <2>. QED
    BY <2>1, <2>2, <2>3
<1>2. ASSUME NEW t \in Threads, NEW k \in Deferring, Enter(t, k) PROVE Errs'
  <2>1. \A u \in Threads \ {t} : Top(u)' = Top(u)
    BY <1>2 DEF Enter, StartOp, Top
  <2>2. UNCHANGED <<rec, err>> /\ ~err[t] /\ ~rec[t]
    BY <1>2 DEF Enter, StartOp, Finishing
  <2>3. failed \subseteq failed' /\ \A u \in Threads : err[u] => parent'[Top(u).op] = parent[Top(u).op]
    BY <1>2 DEF Enter, StartOp
  <2>. QED
    BY <2>1, <2>2, <2>3
<1>3. ASSUME NEW t \in Threads, EnterOnly(t) PROVE Errs'
  <2>1. UNCHANGED <<stack, rec, err, parent>> /\ failed \subseteq failed'
    BY <1>3 DEF EnterOnly
  <2>2. \A u \in Threads : Top(u)' = Top(u)
    BY <2>1 DEF Top
  <2>. QED
    BY <2>1, <2>2
<1>4. ASSUME NEW t \in Threads, NEW k \in Serving, Serve(t, k) PROVE Errs'
  <2>1. \A u \in Threads \ {t} : Top(u)' = Top(u)
    BY <1>4 DEF Serve, StartOp, Top
  <2>2. UNCHANGED <<rec, err>> /\ ~err[t] /\ ~rec[t]
    BY <1>4 DEF Serve, StartOp, Finishing
  <2>3. failed \subseteq failed' /\ \A u \in Threads : err[u] => parent'[Top(u).op] = parent[Top(u).op]
    BY <1>4 DEF Serve, StartOp
  <2>. QED
    BY <2>1, <2>2, <2>3
<1>5. ASSUME NEW t \in Threads, NEW r \in Requests, CommandStarted(t, r) PROVE Errs'
  <2>1. UNCHANGED <<stack, rec, err, parent>> /\ failed \subseteq failed'
    BY <1>5 DEF CommandStarted
  <2>2. \A u \in Threads : Top(u)' = Top(u)
    BY <2>1 DEF Top
  <2>. QED
    BY <2>1, <2>2
<1>6. ASSUME NEW t \in Threads, NEW r \in Requests, NEW failure \in BOOLEAN, CommandEnded(t, r, failure)
      PROVE  Errs'
  <2>1. \A u \in Threads \ {t} : Top(u)' = Top(u)
    BY <1>6 DEF CommandEnded, Top
  <2>2. UNCHANGED <<rec, err>> /\ ~err[t] /\ ~rec[t]
    BY <1>6 DEF CommandEnded, Finishing
  <2>3. failed \subseteq failed' /\ \A u \in Threads : err[u] => parent'[Top(u).op] = parent[Top(u).op]
    BY <1>6 DEF CommandEnded
  <2>. QED
    BY <2>1, <2>2, <2>3
<1>7. ASSUME NEW t \in Threads, NEW o \in entered, Step(t, o) PROVE Errs'
  <2>1. \A u \in Threads \ {t} : Top(u)' = Top(u)
    BY <1>7 DEF Step, StartOp, Top
  <2>2. UNCHANGED <<rec, err>> /\ ~err[t] /\ ~rec[t]
    BY <1>7 DEF Step, StartOp, Finishing
  <2>3. failed \subseteq failed' /\ \A u \in Threads : err[u] => parent'[Top(u).op] = parent[Top(u).op]
    <3>1. UNCHANGED failed /\ parent' = [parent EXCEPT ![started + 1] = o]
      BY <1>7 DEF Step, StartOp
    <3>2. \A u \in Threads : err[u] => Top(u).op # started + 1
      BY OpAssumption DEF Handles
    <3>. QED
      BY <3>1, <3>2
  <2>. QED
    BY <2>1, <2>2, <2>3
<1>8. ASSUME NEW t \in Threads, NEW o \in entered, Fail(t, o) PROVE Errs'
  <2>1. UNCHANGED <<stack, rec, err, parent>> /\ failed \subseteq failed'
    BY <1>8 DEF Fail
  <2>2. \A u \in Threads : Top(u)' = Top(u)
    BY <2>1 DEF Top
  <2>. QED
    BY <2>1, <2>2
<1>9. ASSUME NEW t \in Threads, NEW o \in entered, CloseCall(t, o) PROVE Errs'
  <2>1. \A u \in Threads \ {t} : Top(u)' = Top(u)
    BY <1>9 DEF CloseCall, Top
  <2>2. UNCHANGED <<rec, err>> /\ ~err[t] /\ ~rec[t]
    BY <1>9 DEF CloseCall, Finishing
  <2>3. failed \subseteq failed' /\ \A u \in Threads : err[u] => parent'[Top(u).op] = parent[Top(u).op]
    BY <1>9 DEF CloseCall
  <2>. QED
    BY <2>1, <2>2, <2>3
<1>10. ASSUME NEW t \in Threads, NEW o \in Ops, AddError(t, o) PROVE Errs'
  <2>1. UNCHANGED <<stack, rec, err, parent>> /\ failed \subseteq failed'
    BY <1>10 DEF AddError
  <2>2. \A u \in Threads : Top(u)' = Top(u)
    BY <2>1 DEF Top
  <2>. QED
    BY <2>1, <2>2
<1>11. ASSUME NEW t \in Threads, NEW o \in Ops, NEW c \in Codes, Respond(t, o, c)
      PROVE  Errs'
  <2>1. UNCHANGED <<stack, rec, err, parent>> /\ failed \subseteq failed'
    BY <1>11 DEF Respond
  <2>2. \A u \in Threads : Top(u)' = Top(u)
    BY <2>1 DEF Top
  <2>. QED
    BY <2>1, <2>2
<1>12. ASSUME NEW t \in Threads, Panic(t) PROVE Errs'
  <2>1. UNCHANGED <<stack, rec, err, parent>> /\ failed \subseteq failed'
    BY <1>12 DEF Panic
  <2>2. \A u \in Threads : Top(u)' = Top(u)
    BY <2>1 DEF Top
  <2>. QED
    BY <2>1, <2>2
<1>13. ASSUME NEW t \in Threads, Goexit(t) PROVE Errs'
  <2>1. UNCHANGED <<stack, rec, err, parent>> /\ failed \subseteq failed'
    BY <1>13 DEF Goexit
  <2>2. \A u \in Threads : Top(u)' = Top(u)
    BY <2>1 DEF Top
  <2>. QED
    BY <2>1, <2>2
<1>14. ASSUME NEW t \in Threads, Recover(t) PROVE Errs'
  <2>1. UNCHANGED <<stack, rec, err, parent>> /\ failed \subseteq failed'
    BY <1>14 DEF Recover
  <2>2. \A u \in Threads : Top(u)' = Top(u)
    BY <2>1 DEF Top
  <2>. QED
    BY <2>1, <2>2
<1>15. ASSUME NEW t \in Threads, LeaveRun(t) PROVE Errs'
  <2>1. UNCHANGED stack /\ UNCHANGED parent /\ failed \subseteq failed'
    BY <1>15 DEF LeaveRun
  <2>2. \A u \in Threads : Top(u)' = Top(u)
    BY <2>1 DEF Top
  <2>3. (rec'[t] => err'[t]) /\ \A u \in Threads \ {t} : (rec'[u] <=> rec[u]) /\ (err'[u] <=> err[u])
    BY Zenon, <1>15 DEF LeaveRun, Catch, Flags
  <2>4. err'[t] /\ Top(t).kind = "step" => parent[Top(t).op] \in failed'
    BY <1>15 DEF LeaveRun, Leaving, Deferring, Serving
  <2>. QED
    BY <2>1, <2>2, <2>3, <2>4
<1>16. ASSUME NEW t \in Threads, LeaveServing(t) PROVE Errs'
  <2>1. UNCHANGED stack /\ UNCHANGED parent /\ failed \subseteq failed'
    BY <1>16 DEF LeaveServing
  <2>2. \A u \in Threads : Top(u)' = Top(u)
    BY <2>1 DEF Top
  <2>3. (rec'[t] => err'[t]) /\ \A u \in Threads \ {t} : (rec'[u] <=> rec[u]) /\ (err'[u] <=> err[u])
    BY Zenon, <1>16 DEF LeaveServing, Flags
  <2>4. err'[t] /\ Top(t).kind = "step" => parent[Top(t).op] \in failed'
    BY <1>16 DEF LeaveServing, Leaving, Deferring, Serving
  <2>. QED
    BY <2>1, <2>2, <2>3, <2>4
<1>17. ASSUME NEW t \in Threads, LeaveStep(t) PROVE Errs'
  <2>1. UNCHANGED stack /\ UNCHANGED parent /\ failed \subseteq failed'
    BY <1>17 DEF LeaveStep
  <2>2. \A u \in Threads : Top(u)' = Top(u)
    BY <2>1 DEF Top
  <2>3. (rec'[t] => err'[t]) /\ \A u \in Threads \ {t} : (rec'[u] <=> rec[u]) /\ (err'[u] <=> err[u])
    BY Zenon, <1>17 DEF LeaveStep, Catch, Flags
  <2>4. err'[t] /\ Top(t).kind = "step" => parent[Top(t).op] \in failed'
    BY <1>17 DEF LeaveStep
  <2>. QED
    BY <2>1, <2>2, <2>3, <2>4
<1>18. ASSUME NEW t \in Threads, LeaveEnter(t) PROVE Errs'
  <2>1. UNCHANGED stack /\ UNCHANGED parent /\ failed \subseteq failed'
    BY <1>18 DEF LeaveEnter
  <2>2. \A u \in Threads : Top(u)' = Top(u)
    BY <2>1 DEF Top
  <2>3. (rec'[t] => err'[t]) /\ \A u \in Threads \ {t} : (rec'[u] <=> rec[u]) /\ (err'[u] <=> err[u])
    BY Zenon, <1>18 DEF LeaveEnter, Catch, Flags
  <2>4. err'[t] /\ Top(t).kind = "step" => parent[Top(t).op] \in failed'
    BY <1>18 DEF LeaveEnter, Leaving, Deferring, Serving
  <2>. QED
    BY <2>1, <2>2, <2>3, <2>4
<1>19. ASSUME NEW t \in Threads, LeaveClosed(t) PROVE Errs'
  <2>1. \A u \in Threads \ {t} : Top(u)' = Top(u)
    BY <1>19 DEF LeaveClosed, Leaving, Top
  <2>2. UNCHANGED <<rec, err, parent, failed>> /\ ~err[t] /\ ~rec[t]
    BY <1>19 DEF LeaveClosed, Leaving, Finishing
  <2>. QED
    BY <2>1, <2>2
<1>20. ASSUME NEW t \in Threads, Finish(t) PROVE Errs'
  <2>1. Return(t) /\ UNCHANGED <<parent, failed>>
    BY <1>20 DEF Finish
  <2>2. \A u \in Threads \ {t} : Top(u)' = Top(u)
    BY <2>1 DEF Return, Top
  <2>. QED
    BY <2>1, <2>2, Returned
<1>21. CASE Finished
  <2>1. UNCHANGED <<stack, rec, err, parent>> /\ failed \subseteq failed'
    BY <1>21 DEF Finished, vars
  <2>2. \A u \in Threads : Top(u)' = Top(u)
    BY <2>1 DEF Top
  <2>. QED
    BY <2>1, <2>2
<1>22. CASE UNCHANGED vars
  <2>1. UNCHANGED <<stack, rec, err, parent>> /\ failed \subseteq failed'
    BY <1>22 DEF vars
  <2>2. \A u \in Threads : Top(u)' = Top(u)
    BY <2>1 DEF Top
  <2>. QED
    BY <2>1, <2>2
<1>. QED
  BY <1>1, <1>2, <1>3, <1>4, <1>5, <1>6, <1>7, <1>8, <1>9, <1>10, <1>11, <1>12, <1>13, <1>14,
     <1>15, <1>16, <1>17, <1>18, <1>19, <1>20, <1>21, <1>22 DEF Next, Leave

\* What is known to have failed is not reported as a success.
LEMMA OutcomeKnown ==
  ASSUME IInv, Errs, Known, NEW t \in Threads, doing[t] = "finish", Top(t).op \in known
  PROVE  Outcome(t) # "ok"
<1>1. stack[t] # <<>> /\ HeldAt(t, Len(stack[t])) /\ KnownAt(t, Len(stack[t])) /\ Top(t) = stack[t][Len(stack[t])]
      /\ Top(t).kind \in Kinds
  BY TopHeld DEF IInv, TypeOK, Finishing, Known, Frames
<1>2. CASE Top(t).kind \in Own
  BY <1>1, <1>2 DEF KnownAt, Outcome, Own, Serving
<1>3. CASE Top(t).kind \in Deferring \cup {"call"}
  BY <1>1, <1>3 DEF KnownAt, HeldAt, Known, Outcome, Deferring
<1>. QED
  BY <1>1, <1>2, <1>3 DEF Kinds, Own, Deferring, Serving

\* A command in flight has not failed.
Waiting == \A r \in Requests : inflight[r] # NoOp => inflight[r] \notin known

\* Every step leaves commands in flight as they are.
LEMMA NextWaiting == IInv /\ Waiting /\ [Next]_vars => Waiting'
<1>. SUFFICES ASSUME IInv, Waiting, [Next]_vars PROVE Waiting'
  OBVIOUS
<1>. TypeOK /\ Calls /\ Shapes /\ Handles /\ Reports /\ Flags /\ Finishing /\ Held /\ Unheld /\ Sole
  BY DEF IInv, TypeOK, Calls, Shapes, Handles, Reports
<1>. USE DEF Running, calls, opVars, adapters, Shapes, Handles, Waiting
<1>1. ASSUME NEW t \in Threads, Run(t) PROVE Waiting'
  BY <1>1 DEF Run, StartOp
<1>2. ASSUME NEW t \in Threads, NEW k \in Deferring, Enter(t, k) PROVE Waiting'
  BY <1>2 DEF Enter, StartOp
<1>3. ASSUME NEW t \in Threads, EnterOnly(t) PROVE Waiting'
  BY <1>3 DEF EnterOnly
<1>4. ASSUME NEW t \in Threads, NEW k \in Serving, Serve(t, k) PROVE Waiting'
  BY <1>4 DEF Serve, StartOp
<1>5. ASSUME NEW t \in Threads, NEW r \in Requests, CommandStarted(t, r) PROVE Waiting'
  <2>. started + 1 \notin known
    BY <1>5, NewOp DEF CommandStarted
  <2>. QED
    BY <1>5 DEF CommandStarted
<1>6. ASSUME NEW t \in Threads, NEW r \in Requests, NEW failure \in BOOLEAN, CommandEnded(t, r, failure)
      PROVE  Waiting'
  <2>. \A q \in Requests : q # r /\ inflight[q] # NoOp => inflight[q] # inflight[r]
    BY DEF Unheld
  <2>. QED
    BY <1>6 DEF CommandEnded
<1>7. ASSUME NEW t \in Threads, NEW o \in entered, Step(t, o) PROVE Waiting'
  BY <1>7 DEF Step, StartOp
<1>8. ASSUME NEW t \in Threads, NEW o \in entered, Fail(t, o) PROVE Waiting'
  <2>. QED
    BY <1>8 DEF Fail, Unheld
<1>9. ASSUME NEW t \in Threads, NEW o \in entered, CloseCall(t, o) PROVE Waiting'
  BY <1>9 DEF CloseCall
<1>10. ASSUME NEW t \in Threads, NEW o \in Ops, AddError(t, o) PROVE Waiting'
  BY <1>10 DEF AddError
<1>11. ASSUME NEW t \in Threads, NEW o \in Ops, NEW c \in Codes, Respond(t, o, c)
      PROVE  Waiting'
  BY <1>11 DEF Respond
<1>12. ASSUME NEW t \in Threads, Panic(t) PROVE Waiting'
  BY <1>12 DEF Panic
<1>13. ASSUME NEW t \in Threads, Goexit(t) PROVE Waiting'
  BY <1>13 DEF Goexit
<1>14. ASSUME NEW t \in Threads, Recover(t) PROVE Waiting'
  BY <1>14 DEF Recover
<1>15. ASSUME NEW t \in Threads, LeaveRun(t) PROVE Waiting'
  BY <1>15 DEF LeaveRun, Leaving, Catch
<1>16. ASSUME NEW t \in Threads, LeaveServing(t) PROVE Waiting'
  <2>. stack[t] # <<>>
    BY <1>16 DEF LeaveServing, Leaving
  <2>. \A r \in Requests : inflight[r] # NoOp => Top(t).op # inflight[r]
    BY TopHeld DEF Unheld
  <2>. QED
    BY <1>16 DEF LeaveServing, Leaving
<1>17. ASSUME NEW t \in Threads, LeaveStep(t) PROVE Waiting'
  BY <1>17 DEF LeaveStep, Leaving, Catch
<1>18. ASSUME NEW t \in Threads, LeaveEnter(t) PROVE Waiting'
  BY <1>18 DEF LeaveEnter, Leaving, Catch
<1>19. ASSUME NEW t \in Threads, LeaveClosed(t) PROVE Waiting'
  BY <1>19 DEF LeaveClosed, Leaving
<1>20. ASSUME NEW t \in Threads, Finish(t) PROVE Waiting'
  <2>. known' = known \/ (known' = known \cup {parent[Top(t).op]} /\ parent[Top(t).op] \in entered)
    BY <1>20 DEF Finish
  <2>. UNCHANGED inflight
    BY <1>20 DEF Finish
  <2>. QED
    BY DEF Unheld
<1>21. CASE Finished
  BY <1>21 DEF Finished, vars
<1>22. CASE UNCHANGED vars
  BY <1>22 DEF vars
<1>. QED
  BY <1>1, <1>2, <1>3, <1>4, <1>5, <1>6, <1>7, <1>8, <1>9, <1>10, <1>11, <1>12, <1>13, <1>14,
     <1>15, <1>16, <1>17, <1>18, <1>19, <1>20, <1>21, <1>22 DEF Next, Leave
\* Every step keeps what is known.
LEMMA NextKnown == IInv /\ Errs /\ Responses /\ Waiting /\ Known /\ [Next]_vars => Known'
<1>. SUFFICES ASSUME IInv, Errs, Responses, Waiting, Known, [Next]_vars PROVE Known'
  OBVIOUS
<1>. TypeOK /\ Calls /\ Shapes /\ Handles /\ Reports /\ Flags /\ Finishing /\ Held /\ Unheld /\ Sole
  BY DEF IInv, TypeOK, Calls, Shapes, Handles, Reports
<1>. USE DEF Running, calls, opVars, adapters, Shapes, Handles, KnownAt
<1>1. ASSUME NEW t \in Threads, Run(t) PROVE Known'
  <2>. [op |-> started + 1, kind |-> "run"] \in Frames
    BY <1>1, Framed DEF Run, StartOp, Kinds, Deferring, Serving
  <2>1. stack' = [stack EXCEPT ![t] = Append(@, [op |-> started + 1, kind |-> "run"])]
    BY <1>1 DEF Run, StartOp
  <2>2. started + 1 \notin known
    BY <1>1, NewOp DEF Run, StartOp
  <2>3. ASSUME NEW u \in Threads, NEW i \in 1..Len(stack'[u]) PROVE KnownAt(u, i)'
    <3>1. CASE u = t /\ stack'[u][i] = [op |-> started + 1, kind |-> "run"] /\ i = Len(stack'[u])
      <4>1. stack'[u][i].op = started + 1 /\ stack'[u][i].kind = "run"
        BY <3>1
      <4>. QED
        BY <1>1, <2>2, <3>1, <4>1 DEF Run, StartOp, Own, Serving
    <3>2. CASE /\ i \in 1..Len(stack[u]) /\ stack'[u][i] = stack[u][i] /\ (u = t => i # Len(stack'[u]))
               /\ (u # t => stack'[u] = stack[u])
      <4>1. KnownAt(u, i) /\ HeldAt(u, i)
        BY <3>2 DEF Known, Held
      <4>2. ~Finishes(t, i) /\ doing[t] = "fn"
        BY <1>1 DEF Run, StartOp, Finishes
      <4>. QED
        BY <1>1, <2>2, <3>2, <4>1, <4>2 DEF Run, StartOp, Finishes
    <3>. QED
      BY <2>1, <3>1, <3>2, Push
  <2>. QED
    BY <1>1, <2>2, <2>3 DEF Run, StartOp, Known
<1>2. ASSUME NEW t \in Threads, NEW k \in Deferring, Enter(t, k) PROVE Known'
  <2>. [op |-> started + 1, kind |-> k] \in Frames
    BY <1>2, Framed DEF Enter, StartOp, Kinds, Deferring, Serving
  <2>1. stack' = [stack EXCEPT ![t] = Append(@, [op |-> started + 1, kind |-> k])]
    BY <1>2 DEF Enter, StartOp
  <2>2. started + 1 \notin known
    BY <1>2, NewOp DEF Enter, StartOp
  <2>3. ASSUME NEW u \in Threads, NEW i \in 1..Len(stack'[u]) PROVE KnownAt(u, i)'
    <3>1. CASE u = t /\ stack'[u][i] = [op |-> started + 1, kind |-> k] /\ i = Len(stack'[u])
      <4>1. stack'[u][i].op = started + 1 /\ stack'[u][i].kind = k
        BY <3>1
      <4>. QED
        BY <1>2, <2>2, <3>1, <4>1 DEF Enter, StartOp, Own, Serving
    <3>2. CASE /\ i \in 1..Len(stack[u]) /\ stack'[u][i] = stack[u][i] /\ (u = t => i # Len(stack'[u]))
               /\ (u # t => stack'[u] = stack[u])
      <4>1. KnownAt(u, i) /\ HeldAt(u, i)
        BY <3>2 DEF Known, Held
      <4>2. ~Finishes(t, i) /\ doing[t] = "fn"
        BY <1>2 DEF Enter, StartOp, Finishes
      <4>. QED
        BY <1>2, <2>2, <3>2, <4>1, <4>2 DEF Enter, StartOp, Finishes
    <3>. QED
      BY <2>1, <3>1, <3>2, Push
  <2>. QED
    BY <1>2, <2>2, <2>3 DEF Enter, StartOp, Known
<1>3. ASSUME NEW t \in Threads, EnterOnly(t) PROVE Known'
  <2>1. known' \cap entered' \subseteq failed'
    BY <1>3, NewOp DEF EnterOnly, Known
  <2>2. ASSUME NEW u \in Threads, NEW i \in 1..Len(stack[u]) PROVE KnownAt(u, i)'
    <3>1. KnownAt(u, i) /\ HeldAt(u, i)
      BY DEF Known, Held
    <3>. QED
      BY <1>3, <3>1, NewOp DEF EnterOnly, KnownAt, HeldAt, Finishes
  <2>. QED
    BY <1>3, <2>1, <2>2 DEF EnterOnly, Known
<1>4. ASSUME NEW t \in Threads, NEW k \in Serving, Serve(t, k) PROVE Known'
  <2>. [op |-> started + 1, kind |-> k] \in Frames
    BY <1>4, Framed DEF Serve, StartOp, Kinds, Deferring, Serving
  <2>1. stack' = [stack EXCEPT ![t] = Append(@, [op |-> started + 1, kind |-> k])]
    BY <1>4 DEF Serve, StartOp
  <2>2. started + 1 \notin known
    BY <1>4, NewOp DEF Serve, StartOp
  <2>3. ASSUME NEW u \in Threads, NEW i \in 1..Len(stack'[u]) PROVE KnownAt(u, i)'
    <3>1. CASE u = t /\ stack'[u][i] = [op |-> started + 1, kind |-> k] /\ i = Len(stack'[u])
      <4>1. stack'[u][i].op = started + 1 /\ stack'[u][i].kind = k
        BY <3>1
      <4>. QED
        BY <1>4, <2>2, <3>1, <4>1 DEF Serve, StartOp, Own, Serving
    <3>2. CASE /\ i \in 1..Len(stack[u]) /\ stack'[u][i] = stack[u][i] /\ (u = t => i # Len(stack'[u]))
               /\ (u # t => stack'[u] = stack[u])
      <4>1. KnownAt(u, i) /\ HeldAt(u, i)
        BY <3>2 DEF Known, Held
      <4>2. ~Finishes(t, i) /\ doing[t] = "fn"
        BY <1>4 DEF Serve, StartOp, Finishes
      <4>. QED
        BY <1>4, <2>2, <3>2, <4>1, <4>2 DEF Serve, StartOp, Finishes
    <3>. QED
      BY <2>1, <3>1, <3>2, Push
  <2>. QED
    BY <1>4, <2>2, <2>3 DEF Serve, StartOp, Known
<1>5. ASSUME NEW t \in Threads, NEW r \in Requests, CommandStarted(t, r) PROVE Known'
  <2>1. known' \cap entered' \subseteq failed'
    BY <1>5, NewOp DEF CommandStarted, Known
  <2>2. ASSUME NEW u \in Threads, NEW i \in 1..Len(stack[u]) PROVE KnownAt(u, i)'
    <3>1. KnownAt(u, i) /\ HeldAt(u, i)
      BY DEF Known, Held
    <3>. QED
      BY <1>5, <3>1, NewOp DEF CommandStarted, KnownAt, HeldAt, Finishes
  <2>. QED
    BY <1>5, <2>1, <2>2 DEF CommandStarted, Known
<1>6. ASSUME NEW t \in Threads, NEW r \in Requests, NEW failure \in BOOLEAN, CommandEnded(t, r, failure)
      PROVE  Known'
  <2>. [op |-> inflight[r], kind |-> "call"] \in Frames
    BY <1>6, Framed DEF CommandEnded, Kinds, Deferring, Serving
  <2>1. stack' = [stack EXCEPT ![t] = Append(@, [op |-> inflight[r], kind |-> "call"])]
    BY <1>6 DEF CommandEnded
  <2>2. inflight[r] \notin known /\ inflight[r] \notin entered /\ \A u \in Threads : \A i \in 1..Len(stack[u]) : stack[u][i].op # inflight[r]
    BY <1>6 DEF CommandEnded, Unheld, Waiting
  <2>3. ASSUME NEW u \in Threads, NEW i \in 1..Len(stack'[u]) PROVE KnownAt(u, i)'
    <3>1. CASE u = t /\ stack'[u][i] = [op |-> inflight[r], kind |-> "call"] /\ i = Len(stack'[u])
      <4>1. stack'[u][i].op = inflight[r] /\ stack'[u][i].kind = "call"
        BY <3>1
      <4>. QED
        BY <1>6, <2>2, <3>1, <4>1 DEF CommandEnded, Own, Serving
    <3>2. CASE /\ i \in 1..Len(stack[u]) /\ stack'[u][i] = stack[u][i] /\ (u = t => i # Len(stack'[u]))
               /\ (u # t => stack'[u] = stack[u])
      <4>1. KnownAt(u, i) /\ HeldAt(u, i)
        BY <3>2 DEF Known, Held
      <4>2. ~Finishes(t, i) /\ doing[t] = "fn"
        BY <1>6 DEF CommandEnded, Finishes
      <4>. QED
        BY <1>6, <2>2, <3>2, <4>1, <4>2 DEF CommandEnded, Finishes
    <3>. QED
      BY <2>1, <3>1, <3>2, Push
  <2>. QED
    BY <1>6, <2>2, <2>3 DEF CommandEnded, Known
<1>7. ASSUME NEW t \in Threads, NEW o \in entered, Step(t, o) PROVE Known'
  <2>. [op |-> started + 1, kind |-> "step"] \in Frames
    BY <1>7, Framed DEF Step, StartOp, Kinds, Deferring, Serving
  <2>1. stack' = [stack EXCEPT ![t] = Append(@, [op |-> started + 1, kind |-> "step"])]
    BY <1>7 DEF Step, StartOp
  <2>2. started + 1 \notin known
    BY <1>7, NewOp DEF Step, StartOp
  <2>3. ASSUME NEW u \in Threads, NEW i \in 1..Len(stack'[u]) PROVE KnownAt(u, i)'
    <3>1. CASE u = t /\ stack'[u][i] = [op |-> started + 1, kind |-> "step"] /\ i = Len(stack'[u])
      <4>1. stack'[u][i].op = started + 1 /\ stack'[u][i].kind = "step"
        BY <3>1
      <4>. QED
        BY <1>7, <2>2, <3>1, <4>1 DEF Step, StartOp, Own, Serving
    <3>2. CASE /\ i \in 1..Len(stack[u]) /\ stack'[u][i] = stack[u][i] /\ (u = t => i # Len(stack'[u]))
               /\ (u # t => stack'[u] = stack[u])
      <4>1. KnownAt(u, i) /\ HeldAt(u, i)
        BY <3>2 DEF Known, Held
      <4>2. ~Finishes(t, i) /\ doing[t] = "fn"
        BY <1>7 DEF Step, StartOp, Finishes
      <4>. QED
        BY <1>7, <2>2, <3>2, <4>1, <4>2 DEF Step, StartOp, Finishes
    <3>. QED
      BY <2>1, <3>1, <3>2, Push
  <2>. QED
    BY <1>7, <2>2, <2>3 DEF Step, StartOp, Known
<1>8. ASSUME NEW t \in Threads, NEW o \in entered, Fail(t, o) PROVE Known'
  <2>1. known' \cap entered' \subseteq failed'
    BY <1>8 DEF Fail, Known
  <2>2. ASSUME NEW u \in Threads, NEW i \in 1..Len(stack[u]) PROVE KnownAt(u, i)'
    <3>1. KnownAt(u, i) /\ HeldAt(u, i)
      BY DEF Known, Held
    <3>. QED
      BY <1>8, <3>1 DEF Fail, KnownAt, HeldAt, Finishes
  <2>. QED
    BY <1>8, <2>1, <2>2 DEF Fail, Known
<1>9. ASSUME NEW t \in Threads, NEW o \in entered, CloseCall(t, o) PROVE Known'
  <2>. [op |-> o, kind |-> "call"] \in Frames
    BY <1>9, Framed DEF CloseCall, Kinds, Deferring, Serving
  <2>1. stack' = [stack EXCEPT ![t] = Append(@, [op |-> o, kind |-> "call"])]
    BY <1>9 DEF CloseCall
  <2>2. o \in known => o \in failed
    BY <1>9 DEF CloseCall, Known
  <2>3. ASSUME NEW u \in Threads, NEW i \in 1..Len(stack'[u]) PROVE KnownAt(u, i)'
    <3>1. CASE u = t /\ stack'[u][i] = [op |-> o, kind |-> "call"] /\ i = Len(stack'[u])
      <4>1. stack'[u][i].op = o /\ stack'[u][i].kind = "call"
        BY <3>1
      <4>. QED
        BY <1>9, <2>2, <3>1, <4>1 DEF CloseCall, Own, Serving
    <3>2. CASE /\ i \in 1..Len(stack[u]) /\ stack'[u][i] = stack[u][i] /\ (u = t => i # Len(stack'[u]))
               /\ (u # t => stack'[u] = stack[u])
      <4>1. KnownAt(u, i) /\ HeldAt(u, i)
        BY <3>2 DEF Known, Held
      <4>2. ~Finishes(t, i) /\ doing[t] = "fn"
        BY <1>9 DEF CloseCall, Finishes
      <4>. QED
        BY <1>9, <2>2, <3>2, <4>1, <4>2 DEF CloseCall, Finishes
    <3>. QED
      BY <2>1, <3>1, <3>2, Push
  <2>. QED
    BY <1>9, <2>2, <2>3 DEF CloseCall, Known
<1>10. ASSUME NEW t \in Threads, NEW o \in Ops, AddError(t, o) PROVE Known'
  <2>1. known' \cap entered' \subseteq failed'
    BY <1>10 DEF AddError, Known
  <2>2. ASSUME NEW u \in Threads, NEW i \in 1..Len(stack[u]) PROVE KnownAt(u, i)'
    <3>1. KnownAt(u, i) /\ HeldAt(u, i)
      BY DEF Known, Held
    <3>. QED
      BY <1>10, <3>1 DEF AddError, KnownAt, HeldAt, Finishes
  <2>. QED
    BY <1>10, <2>1, <2>2 DEF AddError, Known
<1>11. ASSUME NEW t \in Threads, NEW o \in Ops, NEW c \in Codes, Respond(t, o, c)
      PROVE  Known'
  <2>1. known' \cap entered' \subseteq failed'
    BY <1>11 DEF Respond, Known
  <2>2. ASSUME NEW u \in Threads, NEW i \in 1..Len(stack[u]) PROVE KnownAt(u, i)'
    <3>1. KnownAt(u, i) /\ HeldAt(u, i)
      BY DEF Known, Held
    <3>. QED
      BY <1>11, <3>1 DEF Respond, KnownAt, HeldAt, Finishes
  <2>. QED
    BY <1>11, <2>1, <2>2 DEF Respond, Known
<1>12. ASSUME NEW t \in Threads, Panic(t) PROVE Known'
  <2>1. known' \cap entered' \subseteq failed'
    BY <1>12 DEF Panic, Known
  <2>2. ASSUME NEW u \in Threads, NEW i \in 1..Len(stack[u]) PROVE KnownAt(u, i)'
    <3>1. KnownAt(u, i) /\ HeldAt(u, i)
      BY DEF Known, Held
    <3>. QED
      BY <1>12, <3>1 DEF Panic, KnownAt, HeldAt, Finishes
  <2>. QED
    BY <1>12, <2>1, <2>2 DEF Panic, Known
<1>13. ASSUME NEW t \in Threads, Goexit(t) PROVE Known'
  <2>1. known' \cap entered' \subseteq failed'
    BY <1>13 DEF Goexit, Known
  <2>2. ASSUME NEW u \in Threads, NEW i \in 1..Len(stack[u]) PROVE KnownAt(u, i)'
    <3>1. KnownAt(u, i) /\ HeldAt(u, i)
      BY DEF Known, Held
    <3>. QED
      BY <1>13, <3>1 DEF Goexit, KnownAt, HeldAt, Finishes
  <2>. QED
    BY <1>13, <2>1, <2>2 DEF Goexit, Known
<1>14. ASSUME NEW t \in Threads, Recover(t) PROVE Known'
  <2>1. known' \cap entered' \subseteq failed'
    BY <1>14 DEF Recover, Known
  <2>2. ASSUME NEW u \in Threads, NEW i \in 1..Len(stack[u]) PROVE KnownAt(u, i)'
    <3>1. KnownAt(u, i) /\ HeldAt(u, i)
      BY DEF Known, Held
    <3>. QED
      BY <1>14, <3>1 DEF Recover, KnownAt, HeldAt, Finishes
  <2>. QED
    BY <1>14, <2>1, <2>2 DEF Recover, Known
<1>15. ASSUME NEW t \in Threads, LeaveRun(t) PROVE Known'
  <2>1. UNCHANGED stack /\ failed \subseteq failed' /\ ~err[t] /\ doing[t] = "fn" /\ doing'[t] = "finish"
        /\ \A u \in Threads \ {t} : doing'[u] = doing[u]
    BY <1>15 DEF LeaveRun, Leaving, Catch, Finishing
  <2>2. \A u \in Threads \ {t} : err'[u] <=> err[u]
    BY Zenon, <1>15 DEF LeaveRun, Catch, Flags
  <2>3. known' \cap entered' \subseteq failed'
    BY <1>15 DEF LeaveRun, Leaving, Catch, Known
  <2>4. ASSUME NEW u \in Threads, NEW i \in 1..Len(stack[u]) PROVE KnownAt(u, i)'
    <3>1. KnownAt(u, i) /\ HeldAt(u, i)
      BY DEF Known, Held
    <3>2. UNCHANGED known
      BY <1>15 DEF LeaveRun
    <3>3. CASE u = t
      BY <2>1, <3>1, <3>2, <3>3 DEF KnownAt, HeldAt, Finishes
    <3>4. CASE u # t
      BY <2>1, <2>2, <3>1, <3>2, <3>4 DEF KnownAt, Finishes
    <3>. QED
      BY <3>3, <3>4
  <2>. QED
    BY <2>1, <2>3, <2>4 DEF Known
<1>16. ASSUME NEW t \in Threads, LeaveServing(t) PROVE Known'
  <2>1. UNCHANGED <<stack, failed, entered>> /\ ~err[t] /\ doing[t] = "fn" /\ doing'[t] = "finish"
        /\ \A u \in Threads \ {t} : doing'[u] = doing[u]
    BY <1>16 DEF LeaveServing, Leaving, Finishing
  <2>2. \A u \in Threads \ {t} : err'[u] <=> err[u]
    BY Zenon, <1>16 DEF LeaveServing, Flags
  <2>3. /\ stack[t] # <<>> /\ Top(t).kind \in Own /\ Top(t) = stack[t][Len(stack[t])] /\ Top(t).op \notin entered
        /\ Len(stack[t]) \in 1..Len(stack[t])
    BY <1>16, TopHeld DEF LeaveServing, Leaving, HeldAt, Own
  <2>4. known' = known \/ (known' = known \cup {Top(t).op} /\ err'[t])
    <3>1. CASE UNCHANGED known
      BY <3>1
    <3>2. CASE known' = known \cup {Top(t).op} /\ known' # known
      <4>1. mode[t] = "run" /\ status[Top(t).op] = "fail"
        BY ZenonT(60), <1>16, <2>3, <3>2, TopHeld DEF LeaveServing, Responses, Codes, Frames, Reports
      <4>2. err' = [err EXCEPT ![t] = mode[t] = "panic" \/ (mode[t] = "run" /\ status[Top(t).op] = "fail")]
        BY <1>16 DEF LeaveServing
      <4>3. err'[t]
        BY Zenon, <4>1, <4>2 DEF Flags
      <4>. QED
        BY <3>2, <4>3
    <3>. QED
      BY <1>16, <3>1, <3>2 DEF LeaveServing
  <2>5. ASSUME NEW u \in Threads, NEW i \in 1..Len(stack[u]) PROVE KnownAt(u, i)'
    <3>1. KnownAt(u, i) /\ HeldAt(u, i)
      BY DEF Known, Held
    <3>2. CASE stack[u][i].op = Top(t).op /\ stack[u][i].kind \in Own
      <4>1. u = t /\ i = Len(stack[t])
        BY <2>3, <3>2 DEF Sole, Right
      <4>. QED
        BY <2>1, <2>4, <3>1, <4>1 DEF KnownAt, Finishes, HeldAt
    <3>3. CASE ~(stack[u][i].op = Top(t).op /\ stack[u][i].kind \in Own)
      <4>1. CASE u = t
        BY <2>1, <2>3, <2>4, <3>1, <3>3, <4>1 DEF KnownAt, HeldAt, Finishes, Sole, Right
      <4>2. CASE u # t
        BY <2>1, <2>2, <2>3, <2>4, <3>1, <3>3, <4>2 DEF KnownAt, HeldAt, Finishes, Sole, Right
      <4>. QED
        BY <4>1, <4>2
    <3>. QED
      BY <3>2, <3>3
  <2>. QED
    BY <2>1, <2>3, <2>4, <2>5 DEF Known
<1>17. ASSUME NEW t \in Threads, LeaveStep(t) PROVE Known'
  <2>1. UNCHANGED stack /\ failed \subseteq failed' /\ ~err[t] /\ doing[t] = "fn" /\ doing'[t] = "finish"
        /\ \A u \in Threads \ {t} : doing'[u] = doing[u]
    BY <1>17 DEF LeaveStep, Leaving, Catch, Finishing
  <2>2. \A u \in Threads \ {t} : err'[u] <=> err[u]
    BY Zenon, <1>17 DEF LeaveStep, Catch, Flags
  <2>3. known' \cap entered' \subseteq failed'
    BY <1>17 DEF LeaveStep, Leaving, Catch, Known
  <2>4. ASSUME NEW u \in Threads, NEW i \in 1..Len(stack[u]) PROVE KnownAt(u, i)'
    <3>1. KnownAt(u, i) /\ HeldAt(u, i)
      BY DEF Known, Held
    <3>2. UNCHANGED known
      BY <1>17 DEF LeaveStep
    <3>3. CASE u = t
      BY <2>1, <3>1, <3>2, <3>3 DEF KnownAt, HeldAt, Finishes
    <3>4. CASE u # t
      BY <2>1, <2>2, <3>1, <3>2, <3>4 DEF KnownAt, Finishes
    <3>. QED
      BY <3>3, <3>4
  <2>. QED
    BY <2>1, <2>3, <2>4 DEF Known
<1>18. ASSUME NEW t \in Threads, LeaveEnter(t) PROVE Known'
  <2>1. UNCHANGED stack /\ failed \subseteq failed' /\ ~err[t] /\ doing[t] = "fn" /\ doing'[t] = "finish"
        /\ \A u \in Threads \ {t} : doing'[u] = doing[u]
    BY <1>18 DEF LeaveEnter, Leaving, Catch, Finishing
  <2>2. \A u \in Threads \ {t} : err'[u] <=> err[u]
    BY Zenon, <1>18 DEF LeaveEnter, Catch, Flags
  <2>3. known' \cap entered' \subseteq failed'
    BY <1>18 DEF LeaveEnter, Leaving, Catch, Known
  <2>4. ASSUME NEW u \in Threads, NEW i \in 1..Len(stack[u]) PROVE KnownAt(u, i)'
    <3>1. KnownAt(u, i) /\ HeldAt(u, i)
      BY DEF Known, Held
    <3>2. UNCHANGED known
      BY <1>18 DEF LeaveEnter
    <3>3. CASE u = t
      BY <2>1, <3>1, <3>2, <3>3 DEF KnownAt, HeldAt, Finishes
    <3>4. CASE u # t
      BY <2>1, <2>2, <3>1, <3>2, <3>4 DEF KnownAt, Finishes
    <3>. QED
      BY <3>3, <3>4
  <2>. QED
    BY <2>1, <2>3, <2>4 DEF Known
<1>19. ASSUME NEW t \in Threads, LeaveClosed(t) PROVE Known'
  <2>1. stack[t] # <<>> /\ stack' = [stack EXCEPT ![t] = Front(@)]
    BY <1>19 DEF LeaveClosed, Leaving, TypeOK, Finishing
  <2>4. ASSUME NEW u \in Threads, NEW i \in 1..Len(stack'[u]) PROVE KnownAt(u, i)'
    <3>1. /\ i \in 1..Len(stack[u]) /\ stack'[u][i] = stack[u][i]
          /\ (u = t => i # Len(stack[u])) /\ (u # t => stack'[u] = stack[u])
      BY <2>1, Pop
    <3>2. KnownAt(u, i) /\ HeldAt(u, i)
      BY <3>1 DEF Known, Held
    <3>. QED
      BY <1>19, <3>1, <3>2 DEF LeaveClosed, Leaving, KnownAt, HeldAt, Finishes
  <2>. QED
    BY <1>19, <2>4 DEF LeaveClosed, Leaving, Known
<1>20. ASSUME NEW t \in Threads, Finish(t) PROVE Known'
  <2>1. stack[t] # <<>> /\ stack' = [stack EXCEPT ![t] = Front(@)]
    BY <1>20 DEF Finish, Return, TypeOK, Finishing
  <2>2. UNCHANGED <<entered, failed>> /\ known \subseteq known' /\ \A o \in known' \ known : o \in entered /\ o \in failed
    <3>1. known' = known \/ (known' = known \cup {parent[Top(t).op]} /\ parent[Top(t).op] \in entered /\ Outcome(t) # "ok")
      BY <1>20 DEF Finish
    <3>2. CASE parent[Top(t).op] \in entered /\ Outcome(t) # "ok"
      <4>1. Top(t).kind = "step"
        BY <2>1, <3>2, TopHeld DEF HeldAt, NoOp
      <4>2. err[t]
        BY <3>2, <4>1 DEF Outcome, Errs, Deferring
      <4>. QED
        BY <1>20, <3>1, <4>1, <4>2 DEF Errs, Finish
    <3>. QED
      BY <1>20, <3>1, <3>2 DEF Finish
  <2>3. \A u \in Threads \ {t} : doing'[u] = doing[u] /\ (err'[u] <=> err[u])
    BY <1>20, Returned DEF Finish
  <2>4. ASSUME NEW u \in Threads, NEW i \in 1..Len(stack'[u]) PROVE KnownAt(u, i)'
    <3>1. /\ i \in 1..Len(stack[u]) /\ stack'[u][i] = stack[u][i]
          /\ (u = t => i # Len(stack[u])) /\ (u # t => stack'[u] = stack[u])
      BY <2>1, Pop
    <3>2. KnownAt(u, i) /\ HeldAt(u, i)
      BY <3>1 DEF Known, Held
    <3>. QED
      BY <2>2, <2>3, <3>1, <3>2 DEF KnownAt, HeldAt, Finishes
  <2>. QED
    BY <2>2, <2>4 DEF Known
<1>21. CASE Finished
  <2>1. known' \cap entered' \subseteq failed'
    BY <1>21 DEF Finished, vars, Known
  <2>2. ASSUME NEW u \in Threads, NEW i \in 1..Len(stack[u]) PROVE KnownAt(u, i)'
    <3>1. KnownAt(u, i) /\ HeldAt(u, i)
      BY DEF Known, Held
    <3>. QED
      BY <1>21, <3>1 DEF Finished, vars, KnownAt, HeldAt, Finishes
  <2>. QED
    BY <1>21, <2>1, <2>2 DEF Finished, vars, Known
<1>22. CASE UNCHANGED vars
  <2>1. known' \cap entered' \subseteq failed'
    BY <1>22 DEF vars, Known
  <2>2. ASSUME NEW u \in Threads, NEW i \in 1..Len(stack[u]) PROVE KnownAt(u, i)'
    <3>1. KnownAt(u, i) /\ HeldAt(u, i)
      BY DEF Known, Held
    <3>. QED
      BY <1>22, <3>1 DEF vars, KnownAt, HeldAt, Finishes
  <2>. QED
    BY <1>22, <2>1, <2>2 DEF vars, Known
<1>. QED
  BY <1>1, <1>2, <1>3, <1>4, <1>5, <1>6, <1>7, <1>8, <1>9, <1>10, <1>11, <1>12, <1>13, <1>14,
     <1>15, <1>16, <1>17, <1>18, <1>19, <1>20, <1>21, <1>22 DEF Next, Leave

\* What becomes known to have failed has not been reported yet.
LEMMA Learned ==
  ASSUME IInv, [Next]_vars, ~\E t \in Threads : Finish(t), NEW o \in known', o \notin known
  PROVE  o \in Ops /\ finishes[o] = <<>>
<1>. Handles /\ Shapes /\ Unheld /\ Held
  BY DEF IInv, TypeOK, Handles, Shapes
<1>. DEFINE Fresh == o \notin known' \/ (o \in Ops /\ finishes[o] = <<>>)
<1>. USE DEF Running, calls, opVars, adapters, Handles, Shapes, Ops, NoOp
<1>1. ASSUME NEW t \in Threads, Run(t) PROVE Fresh
  BY <1>1 DEF Run, StartOp
<1>2. ASSUME NEW t \in Threads, NEW k \in Deferring, Enter(t, k) PROVE Fresh
  BY <1>2 DEF Enter, StartOp
<1>3. ASSUME NEW t \in Threads, EnterOnly(t) PROVE Fresh
  BY <1>3 DEF EnterOnly
<1>4. ASSUME NEW t \in Threads, NEW k \in Serving, Serve(t, k) PROVE Fresh
  BY <1>4 DEF Serve, StartOp
<1>5. ASSUME NEW t \in Threads, NEW r \in Requests, CommandStarted(t, r) PROVE Fresh
  BY <1>5 DEF CommandStarted
<1>6. ASSUME NEW t \in Threads, NEW r \in Requests, NEW failure \in BOOLEAN, CommandEnded(t, r, failure)
      PROVE  Fresh
  BY <1>6, OpAssumption DEF CommandEnded, Unheld
<1>7. ASSUME NEW t \in Threads, NEW p \in entered, Step(t, p) PROVE Fresh
  BY <1>7 DEF Step, StartOp
<1>8. ASSUME NEW t \in Threads, NEW p \in entered, Fail(t, p) PROVE Fresh
  BY <1>8, OpAssumption DEF Fail, Unheld
<1>9. ASSUME NEW t \in Threads, NEW p \in entered, CloseCall(t, p) PROVE Fresh
  BY <1>9 DEF CloseCall
<1>10. ASSUME NEW t \in Threads, NEW p \in Ops, AddError(t, p) PROVE Fresh
  BY <1>10 DEF AddError
<1>11. ASSUME NEW t \in Threads, NEW p \in Ops, NEW c \in Codes, Respond(t, p, c) PROVE Fresh
  BY <1>11 DEF Respond
<1>12. ASSUME NEW t \in Threads, Panic(t) PROVE Fresh
  BY <1>12 DEF Panic
<1>13. ASSUME NEW t \in Threads, Goexit(t) PROVE Fresh
  BY <1>13 DEF Goexit
<1>14. ASSUME NEW t \in Threads, Recover(t) PROVE Fresh
  BY <1>14 DEF Recover
<1>15. ASSUME NEW t \in Threads, LeaveRun(t) PROVE Fresh
  BY <1>15 DEF LeaveRun, Leaving, Catch
<1>16. ASSUME NEW t \in Threads, LeaveServing(t) PROVE Fresh
  <2>1. stack[t] # <<>> /\ (o \notin known' \/ o = Top(t).op)
    BY <1>16 DEF LeaveServing, Leaving
  <2>2. Top(t).op \in Ops /\ finishes[Top(t).op] = <<>>
    BY <1>16, <2>1, TopHeld DEF LeaveServing, Leaving, IInv, Held, HeldAt, Right, Own, Frames
  <2>. QED
    BY <2>1, <2>2
<1>17. ASSUME NEW t \in Threads, LeaveStep(t) PROVE Fresh
  BY <1>17 DEF LeaveStep, Leaving, Catch
<1>18. ASSUME NEW t \in Threads, LeaveEnter(t) PROVE Fresh
  BY <1>18 DEF LeaveEnter, Leaving, Catch
<1>19. ASSUME NEW t \in Threads, LeaveClosed(t) PROVE Fresh
  BY <1>19 DEF LeaveClosed, Leaving
<1>20. Finished => Fresh
  BY DEF Finished, vars
<1>21. UNCHANGED vars => Fresh
  BY DEF vars
<1>. HIDE DEF Fresh, Running, calls, opVars, adapters, Handles, Shapes
<1>22. Fresh
  BY <1>1, <1>2, <1>3, <1>4, <1>5, <1>6, <1>7, <1>8, <1>9, <1>10, <1>11, <1>12, <1>13, <1>14,
     <1>15, <1>16, <1>17, <1>18, <1>19, <1>20, <1>21 DEF Next, Leave
<1>. QED
  BY <1>22 DEF Fresh

\* An operation that failed in one of the ways its handle, its steps, its middleware or its
\* driver know before it is closed is never reported as a success.
THEOREM HidesNoFailure == Spec => []FailureNotHidden
<1>1. Init => Errs /\ Responses /\ Waiting /\ Known /\ FailureNotHidden
  BY DEF Init, Errs, Responses, Waiting, Known, FailureNotHidden
<1>2. IInv /\ Errs /\ Responses /\ Waiting /\ Known /\ FailureNotHidden /\ [Next]_vars => FailureNotHidden'
  <2>. SUFFICES ASSUME IInv, Errs, Responses, Known, FailureNotHidden, [Next]_vars, NEW o \in known'
                PROVE  "ok" \notin ToSet(finishes'[o])
    BY DEF FailureNotHidden
  <2>1. CASE \E t \in Threads : Finish(t)
    <3>1. PICK t \in Threads : Finish(t)
      BY <2>1
    <3>2. CASE o \in known /\ o = Top(t).op
      <4>1. Outcome(t) # "ok" /\ finishes'[o] = <<Outcome(t)>>
        BY <3>1, <3>2, OutcomeKnown, Reporting DEF Finish
      <4>2. PICK x : x = Outcome(t)
        OBVIOUS
      <4>3. ToSet(<<x>>) = {x}
        BY DEF ToSet
      <4>. QED
        BY <4>1, <4>2, <4>3
    <3>3. CASE o \in known /\ o # Top(t).op
      <4>1. o \in Ops
        BY <3>3, OpAssumption DEF IInv, TypeOK, Ops
      <4>. QED
        BY <3>1, <3>3, <4>1, Reporting DEF FailureNotHidden
    <3>4. CASE o \notin known
      <4>1. o \in entered \ closed
        BY <3>1, <3>4 DEF Finish
      <4>2. o \in Ops /\ finishes[o] = <<>>
        BY <4>1, OpAssumption DEF IInv, TypeOK, Ops, Unheld
      <4>3. o # Top(t).op
        <5>1. stack[t] # <<>> /\ doing[t] = "finish"
          BY <3>1, Reporting DEF Finish
        <5>2. Top(t) = stack[t][Len(stack[t])] /\ HeldAt(t, Len(stack[t]))
          BY <5>1, TopHeld DEF IInv
        <5>. QED
          BY <4>1, <5>1, <5>2 DEF HeldAt, Right, Finishes
      <4>4. finishes'[o] = <<>>
        BY <3>1, <4>2, <4>3, Reporting
      <4>. QED
        BY <4>4 DEF ToSet
    <3>. QED
      BY <3>2, <3>3, <3>4
  <2>2. CASE ~\E t \in Threads : Finish(t)
    <3>1. UNCHANGED finishes
      BY <2>2, NotReporting
    <3>2. CASE o \in known
      BY <3>1, <3>2 DEF FailureNotHidden
    <3>3. CASE o \notin known
      <4>1. o \in Ops /\ finishes[o] = <<>>
        BY <2>2, <3>3, Learned
      <4>. QED
        BY <3>1, <4>1 DEF ToSet
    <3>. QED
      BY <3>2, <3>3
  <2>. QED
    BY <2>1, <2>2
<1>. QED
  BY <1>1, <1>2, NextErrs, NextResponses, NextWaiting, NextKnown, Invariant, TypeCorrect,
     PTL DEF Spec
============================================================================
