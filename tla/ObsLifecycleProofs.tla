------------------------- MODULE ObsLifecycleProofs -------------------------
(***************************************************************************)
(* Proofs about ObsLifecycle, for any goroutines, configurations and bound *)
(* on the number of Inits that satisfy LifecycleAssumption.                *)
(***************************************************************************)
EXTENDS ObsLifecycle, FiniteSetTheorems, TLAPS

USE DEF Obs, NoObs, Providers, NoInstrument

----------------------------------------------------------------------------
(* Types.                                                                   *)

\* Init gives every variable its type.
LEMMA InitTypeOK == Init => TypeOK
<1>1. Init => Flags
  BY Zenon DEF Init, Flags
<1>. QED
  BY <1>1, LifecycleAssumption DEF Init, TypeOK, Labels, Working

\* The flags stay truth values.
LEMMA NextFlags == Flags /\ [Next]_vars => Flags'
<1>. SUFFICES ASSUME Flags, [Next]_vars PROVE Flags'
  OBVIOUS
<1>. USE DEF Flags, threadVars, obsVars, closeVars, tracerVars, meterVars, cacheVars, history
<1>1. ASSUME NEW t \in Threads, NEW c \in Configs, Start(t, c) PROVE Flags'
  BY Zenon, <1>1 DEF Start, At, Goto
<1>2. ASSUME NEW t \in Threads, Look(t) PROVE Flags'
  BY Zenon, <1>2 DEF Look, At, Goto
<1>3. ASSUME NEW t \in Threads, Decide(t) PROVE Flags'
  BY Zenon, <1>3 DEF Decide, At, Goto, Forget
<1>4. ASSUME NEW t \in Threads, SetTracer(t) PROVE Flags'
  BY Zenon, <1>4 DEF SetTracer, At, Goto
<1>5. ASSUME NEW t \in Threads, OwnTracer(t) PROVE Flags'
  BY Zenon, <1>5 DEF OwnTracer, At, Goto
<1>6. ASSUME NEW t \in Threads, Telemetry(t) PROVE Flags'
  BY Zenon, <1>6 DEF Telemetry, At, Goto
<1>7. ASSUME NEW t \in Threads, TelemetryMeter(t) PROVE Flags'
  BY Zenon, <1>7 DEF TelemetryMeter, At, Goto
<1>8. ASSUME NEW t \in Threads, Swap(t) PROVE Flags'
  BY Zenon, <1>8 DEF Swap, At, Goto, Return, Forget
<1>9. ASSUME NEW t \in Threads, NEW o \in Obs, CloseCall(t, o) PROVE Flags'
  BY Zenon, <1>9 DEF CloseCall, At, Goto
<1>10. ASSUME NEW t \in Threads, CloseFlag(t) PROVE Flags'
  BY Zenon, <1>10 DEF CloseFlag, At, Goto, Return, Forget
<1>11. ASSUME NEW t \in Threads, Shutdown(t) PROVE Flags'
  BY Zenon, <1>11 DEF Shutdown, At, Goto, Return, Forget
<1>12. ASSUME NEW t \in Threads, NEW o \in Obs, Handler(t, o) PROVE Flags'
  BY Zenon, <1>12 DEF Handler, At, Goto
<1>13. ASSUME NEW t \in Threads, LookMeter(t) PROVE Flags'
  BY Zenon, <1>13 DEF LookMeter, At, Goto
<1>14. ASSUME NEW t \in Threads, Claim(t) PROVE Flags'
  BY Zenon, <1>14 DEF Claim, NotInstalled, At, Goto, Return, Forget
<1>15. ASSUME NEW t \in Threads, SetMeter(t) PROVE Flags'
  BY Zenon, <1>15 DEF SetMeter, At, Goto
<1>16. ASSUME NEW t \in Threads, OwnMeter(t) PROVE Flags'
  BY Zenon, <1>16 DEF OwnMeter, At, Goto
<1>17. ASSUME NEW t \in Threads, Reset(t) PROVE Flags'
  BY Zenon, <1>17 DEF Reset, At, Goto, Return, Forget
<1>18. ASSUME NEW t \in Threads, Mint(t) PROVE Flags'
  BY Zenon, <1>18 DEF Mint, At, Goto
<1>19. ASSUME NEW t \in Threads, Minted(t) PROVE Flags'
  BY Zenon, <1>19 DEF Minted, At, Goto, Return, Forget
<1>20. CASE AppTracer
  BY Zenon, <1>20 DEF AppTracer
<1>21. CASE AppMeter
  BY Zenon, <1>21 DEF AppMeter
<1>22. CASE UNCHANGED vars
  BY Zenon, <1>22 DEF vars
<1>. QED
  BY <1>1, <1>2, <1>3, <1>4, <1>5, <1>6, <1>7, <1>8, <1>9, <1>10, <1>11, <1>12, <1>13, <1>14,
     <1>15, <1>16, <1>17, <1>18, <1>19, <1>20, <1>21, <1>22
  DEF Next, InitStep, CloseStep, MeterStep

\* A goroutine takes up an Obs and lays it down with its label.
LEMMA NextWorking == TypeOK /\ [Next]_vars => Working'
<1>. SUFFICES ASSUME TypeOK, [Next]_vars PROVE Working'
  OBVIOUS
<1>. pc \in [Threads -> Labels] /\ ob \in [Threads -> Obs \cup {NoObs}] /\ Working /\ made \in Nat
  BY LifecycleAssumption DEF TypeOK
<1>. USE DEF Working, Labels
<1>. USE DEF threadVars
<1>1. ASSUME NEW t \in Threads, NEW c \in Configs, Start(t, c) PROVE Working'
  BY <1>1 DEF Start, At, Goto
<1>2. ASSUME NEW t \in Threads, Look(t) PROVE Working'
  BY <1>2 DEF Look, At, Goto
<1>3. ASSUME NEW t \in Threads, Decide(t) PROVE Working'
  BY <1>3 DEF Decide, At, Goto, Forget
<1>4. ASSUME NEW t \in Threads, SetTracer(t) PROVE Working'
  BY <1>4 DEF SetTracer, At, Goto
<1>5. ASSUME NEW t \in Threads, OwnTracer(t) PROVE Working'
  BY <1>5 DEF OwnTracer, At, Goto
<1>6. ASSUME NEW t \in Threads, Telemetry(t) PROVE Working'
  BY <1>6 DEF Telemetry, At, Goto
<1>7. ASSUME NEW t \in Threads, TelemetryMeter(t) PROVE Working'
  BY <1>7 DEF TelemetryMeter, At, Goto
<1>8. ASSUME NEW t \in Threads, Swap(t) PROVE Working'
  <2>1. CASE def = NoObs
    BY <1>8, <2>1 DEF Swap, At, Goto, Return, Forget
  <2>2. CASE def # NoObs
    BY <1>8, <2>2 DEF Swap, At, Goto, Return, Forget
  <2>. QED
    BY <1>8, <2>1, <2>2 DEF Swap, At, Goto, Return, Forget
<1>9. ASSUME NEW t \in Threads, NEW o \in Obs, CloseCall(t, o) PROVE Working'
  BY <1>9 DEF CloseCall, At, Goto
<1>10. ASSUME NEW t \in Threads, CloseFlag(t) PROVE Working'
  BY <1>10 DEF CloseFlag, At, Goto, Return, Forget
<1>11. ASSUME NEW t \in Threads, Shutdown(t) PROVE Working'
  BY <1>11 DEF Shutdown, At, Goto, Return, Forget
<1>12. ASSUME NEW t \in Threads, NEW o \in Obs, Handler(t, o) PROVE Working'
  BY <1>12 DEF Handler, At, Goto
<1>13. ASSUME NEW t \in Threads, LookMeter(t) PROVE Working'
  BY <1>13 DEF LookMeter, At, Goto
<1>14. ASSUME NEW t \in Threads, Claim(t) PROVE Working'
  <2>1. CASE pc'[t] = "idle"
    BY <1>14, <2>1 DEF Claim, NotInstalled, At, Goto, Return, Forget, Building
  <2>2. CASE pc'[t] # "idle"
    BY <1>14, <2>2 DEF Claim, NotInstalled, At, Goto, Return, Forget, Building
  <2>. QED
    BY <1>14, <2>1, <2>2 DEF Claim, NotInstalled, At, Goto, Return, Forget, Building
<1>15. ASSUME NEW t \in Threads, SetMeter(t) PROVE Working'
  BY <1>15 DEF SetMeter, At, Goto
<1>16. ASSUME NEW t \in Threads, OwnMeter(t) PROVE Working'
  BY <1>16 DEF OwnMeter, At, Goto
<1>17. ASSUME NEW t \in Threads, Reset(t) PROVE Working'
  BY <1>17 DEF Reset, At, Goto, Return, Forget
<1>18. ASSUME NEW t \in Threads, Mint(t) PROVE Working'
  BY <1>18 DEF Mint, At, Goto
<1>19. ASSUME NEW t \in Threads, Minted(t) PROVE Working'
  BY <1>19 DEF Minted, At, Goto, Return, Forget
<1>20. CASE AppTracer
  BY <1>20 DEF AppTracer
<1>21. CASE AppMeter
  BY <1>21 DEF AppMeter
<1>22. CASE UNCHANGED vars
  BY <1>22 DEF vars
<1>. QED
  BY <1>1, <1>2, <1>3, <1>4, <1>5, <1>6, <1>7, <1>8, <1>9, <1>10, <1>11, <1>12, <1>13, <1>14,
     <1>15, <1>16, <1>17, <1>18, <1>19, <1>20, <1>21, <1>22
  DEF Next, InitStep, CloseStep, MeterStep

\* Every step keeps the types.
LEMMA NextTypeOK == TypeOK /\ [Next]_vars => TypeOK'
<1>. SUFFICES ASSUME TypeOK, [Next]_vars PROVE TypeOK'
  OBVIOUS
<1>. Flags' /\ Working'
  BY NextFlags, NextWorking DEF TypeOK
<1>. USE LifecycleAssumption DEF TypeOK
<1>. USE DEF Labels, threadVars, obsVars, closeVars, tracerVars, meterVars, cacheVars, history
<1>1. ASSUME NEW t \in Threads, NEW c \in Configs, Start(t, c) PROVE TypeOK'
  BY SMTT(30), <1>1 DEF Start, At, Goto
<1>2. ASSUME NEW t \in Threads, Look(t) PROVE TypeOK'
  <2>. ob[t] \in Obs
    BY <1>2 DEF Working, Look, At
  <2>. QED
    BY SMTT(90), <1>2 DEF Look, At, Goto, Labels
<1>3. ASSUME NEW t \in Threads, Decide(t) PROVE TypeOK'
  <2>. ob[t] \in Obs
    BY <1>3 DEF Working, Decide, At
  <2>1. /\ pc' \in [Threads -> Labels] /\ ob' \in [Threads -> Obs \cup {NoObs}]
        /\ seen' \in [Threads -> Providers]
    BY <1>3 DEF Decide, At, Goto, Forget
  <2>2. exports' \subseteq Obs /\ pushing' \subseteq Obs /\ tracer' \in [Obs -> Providers]
    BY <1>3 DEF Decide, At, Goto, Forget
  <2>. QED
    BY SMTT(30), <1>3, <2>1, <2>2 DEF Decide
<1>4. ASSUME NEW t \in Threads, SetTracer(t) PROVE TypeOK'
  <2>. ob[t] \in Obs
    BY <1>4 DEF Working, SetTracer, At
  <2>. QED
    BY <1>4 DEF SetTracer, At, Goto, Labels
<1>5. ASSUME NEW t \in Threads, OwnTracer(t) PROVE TypeOK'
  <2>. ob[t] \in Obs
    BY <1>5 DEF Working, OwnTracer, At
  <2>. QED
    BY <1>5 DEF OwnTracer, At, Goto, Labels
<1>6. ASSUME NEW t \in Threads, Telemetry(t) PROVE TypeOK'
  <2>. ob[t] \in Obs
    BY <1>6 DEF Working, Telemetry, At
  <2>. QED
    BY <1>6 DEF Telemetry, At, Goto, Labels
<1>7. ASSUME NEW t \in Threads, TelemetryMeter(t) PROVE TypeOK'
  <2>. ob[t] \in Obs
    BY <1>7 DEF Working, TelemetryMeter, At
  <2>. QED
    BY <1>7 DEF TelemetryMeter, At, Goto, Labels
<1>8. ASSUME NEW t \in Threads, Swap(t) PROVE TypeOK'
  <2>. ob[t] \in Obs
    BY <1>8 DEF Working, Swap, At
  <2>1. /\ pc' \in [Threads -> Labels] /\ ob' \in [Threads -> Obs \cup {NoObs}]
        /\ seen' \in [Threads -> Providers]
    BY ZenonT(40), <1>8 DEF Swap, At, Goto, Return, Forget
  <2>2. published' \subseteq Obs /\ running' \subseteq Obs
    BY <1>8 DEF Swap
  <2>. QED
    BY <1>8, <2>1, <2>2 DEF Swap
<1>9. ASSUME NEW t \in Threads, NEW o \in Obs, CloseCall(t, o) PROVE TypeOK'
  BY SMTT(30), <1>9 DEF CloseCall, At, Goto
<1>10. ASSUME NEW t \in Threads, CloseFlag(t) PROVE TypeOK'
  <2>. ob[t] \in Obs
    BY ZenonT(40), <1>10 DEF Working, CloseFlag, At
  <2>1. /\ pc' \in [Threads -> Labels] /\ ob' \in [Threads -> Obs \cup {NoObs}]
        /\ seen' \in [Threads -> Providers]
    <3>1. CASE Return(t)
      BY <1>10, <3>1 DEF Return, Forget, Goto, Labels
    <3>2. CASE ~Return(t)
      BY <1>10, <3>2 DEF CloseFlag, NotInstalled, Goto, Forget, threadVars
    <3>. QED
      BY <3>1, <3>2
  <2>2. closed' = closed \/ closed' = closed \cup {ob[t]}
    BY <1>10 DEF CloseFlag
  <2>. QED
    BY ZenonT(40), <1>10, <2>1, <2>2 DEF CloseFlag
<1>11. ASSUME NEW t \in Threads, Shutdown(t) PROVE TypeOK'
  <2>. ob[t] \in Obs
    BY <1>11 DEF Working, Shutdown, At
  <2>1. /\ pc' \in [Threads -> Labels] /\ ob' \in [Threads -> Obs \cup {NoObs}]
        /\ seen' \in [Threads -> Providers]
    BY <1>11 DEF Shutdown, At, Goto, Return, Forget
  <2>2. running' \subseteq Obs /\ pushing' \subseteq Obs
    BY <1>11 DEF Shutdown
  <2>3. shutdowns' \in [Obs -> Nat]
    BY <1>11 DEF Shutdown
  <2>. QED
    BY SMTT(30), <1>11, <2>1, <2>2, <2>3 DEF Shutdown
<1>12. ASSUME NEW t \in Threads, NEW o \in Obs, Handler(t, o) PROVE TypeOK'
  BY ZenonT(40), <1>12 DEF Handler, At, Goto
<1>13. ASSUME NEW t \in Threads, LookMeter(t) PROVE TypeOK'
  <2>. ob[t] \in Obs
    BY SMTT(30), <1>13 DEF Working, LookMeter, At
  <2>. QED
    BY SMTT(90), <1>13 DEF LookMeter, At, Goto, Labels
<1>14. ASSUME NEW t \in Threads, Claim(t) PROVE TypeOK'
  <2>. ob[t] \in Obs
    BY <1>14 DEF Working, Claim, At
  <2>1. /\ pc' \in [Threads -> Labels] /\ ob' \in [Threads -> Obs \cup {NoObs}]
        /\ seen' \in [Threads -> Providers]
    <3>1. CASE Return(t)
      BY <1>14, <3>1 DEF Return, Forget, Goto, Labels
    <3>2. CASE ~Return(t)
      BY <1>14, <3>2 DEF Claim, NotInstalled, Goto, Forget, threadVars
    <3>. QED
      BY <3>1, <3>2
  <2>2. installed' = installed \/ installed' = installed \cup {ob[t]}
    BY <1>14 DEF Claim
  <2>. QED
    BY ZenonT(40), <1>14, <2>1, <2>2 DEF Claim
<1>15. ASSUME NEW t \in Threads, SetMeter(t) PROVE TypeOK'
  <2>. ob[t] \in Obs
    BY <1>15 DEF Working, SetMeter, At
  <2>. QED
    BY <1>15 DEF SetMeter, At, Goto, Labels
<1>16. ASSUME NEW t \in Threads, OwnMeter(t) PROVE TypeOK'
  <2>. ob[t] \in Obs
    BY <1>16 DEF Working, OwnMeter, At
  <2>. QED
    BY <1>16 DEF OwnMeter, At, Goto, Labels
<1>17. ASSUME NEW t \in Threads, Reset(t) PROVE TypeOK'
  <2>. ob[t] \in Obs
    BY <1>17 DEF Working, Reset, At
  <2>. QED
    BY <1>17 DEF Reset, At, Goto, Return, Forget, Labels
<1>18. ASSUME NEW t \in Threads, Mint(t) PROVE TypeOK'
  BY <1>18 DEF Mint, At, Goto
<1>19. ASSUME NEW t \in Threads, Minted(t) PROVE TypeOK'
  BY <1>19 DEF Minted, At, Goto, Return, Forget
<1>20. CASE AppTracer
  BY <1>20 DEF AppTracer
<1>21. CASE AppMeter
  BY <1>21 DEF AppMeter
<1>22. CASE UNCHANGED vars
  BY SMTT(30), <1>22 DEF vars
<1>. QED
  BY <1>1, <1>2, <1>3, <1>4, <1>5, <1>6, <1>7, <1>8, <1>9, <1>10, <1>11, <1>12, <1>13, <1>14,
     <1>15, <1>16, <1>17, <1>18, <1>19, <1>20, <1>21, <1>22
  DEF Next, InitStep, CloseStep, MeterStep

\* Every variable of the life of an Obs has its type, and a goroutine works on an Obs exactly
\* while it is in Init, Close or MetricsHandler.
THEOREM TypeCorrect == Spec => []TypeOK
<1>. QED
  BY InitTypeOK, NextTypeOK, PTL DEF Spec

----------------------------------------------------------------------------
(* Who works on which Obs.                                                  *)

InInit == {"look", "compare", "setTracer", "ownTracer", "telemetry", "telemetryMeter", "swap"}

PerThread(t) ==
  /\ ob[t] <= made
  /\ pc[t] \in InInit => ob[t] \notin published
  /\ pc[t] \in {"close", "shutdown", "reset"} => ob[t] \in published
  /\ pc[t] = "shutdown" => ob[t] \in closed
  /\ \A u \in Threads : u # t /\ ob[u] = ob[t] => ob[t] \in published \cup {NoObs}

\* Only the goroutine that builds an Obs works on it until Init publishes it; Close and the
\* end of MetricsHandler work on published ones, and a shutdown follows the flag.
Owned ==
  /\ published \subseteq 1..made /\ closed \subseteq published /\ def \in published \cup {NoObs}
  /\ \A t \in Threads : PerThread(t)

\* Nobody works on anything at first.
LEMMA InitOwned == Init => Owned
  BY DEF Init, Owned, PerThread, InInit

\* Every step keeps the ownership.
LEMMA NextOwned == TypeOK /\ Owned /\ [Next]_vars => Owned'
<1>. SUFFICES ASSUME TypeOK, Owned, [Next]_vars PROVE Owned'
  OBVIOUS
<1>. /\ pc \in [Threads -> Labels] /\ ob \in [Threads -> Obs \cup {NoObs}] /\ Working
     /\ made \in Nat /\ published \subseteq Obs /\ def \in Obs \cup {NoObs} /\ closed \subseteq Obs
  BY LifecycleAssumption DEF TypeOK
<1>. USE DEF Owned, PerThread, InInit, Working, Labels
<1>. USE DEF threadVars, obsVars, closeVars
<1>1. ASSUME NEW t \in Threads, NEW c \in Configs, Start(t, c) PROVE Owned'
  BY <1>1 DEF Start, At, Goto
<1>2. ASSUME NEW t \in Threads, Look(t) PROVE Owned'
  BY <1>2 DEF Look, At, Goto
<1>3. ASSUME NEW t \in Threads, Decide(t) PROVE Owned'
  BY <1>3 DEF Decide, At, Goto, Forget
<1>4. ASSUME NEW t \in Threads, SetTracer(t) PROVE Owned'
  BY <1>4 DEF SetTracer, At, Goto
<1>5. ASSUME NEW t \in Threads, OwnTracer(t) PROVE Owned'
  BY <1>5 DEF OwnTracer, At, Goto
<1>6. ASSUME NEW t \in Threads, Telemetry(t) PROVE Owned'
  BY <1>6 DEF Telemetry, At, Goto
<1>7. ASSUME NEW t \in Threads, TelemetryMeter(t) PROVE Owned'
  BY <1>7 DEF TelemetryMeter, At, Goto
<1>8. ASSUME NEW t \in Threads, Swap(t) PROVE Owned'
  <2>. ob[t] \in 1..made
    BY <1>8 DEF Swap, At
  <2>1. /\ published' \subseteq 1..made' /\ closed' \subseteq published'
        /\ def' \in published' \cup {NoObs}
    BY <1>8 DEF Swap, At
  <2>2. ASSUME NEW v \in Threads PROVE PerThread(v)'
    <3>1. CASE v = t /\ def = NoObs
      BY <1>8, <3>1 DEF Swap, At, Goto, Return, Forget
    <3>2. CASE v = t /\ def # NoObs
      BY <1>8, <3>2 DEF Swap, At, Goto, Return, Forget
    <3>3. CASE v # t
      BY <1>8, <3>3 DEF Swap, At, Goto, Return, Forget
    <3>. QED
      BY <3>1, <3>2, <3>3
  <2>. QED
    BY <2>1, <2>2 DEF PerThread
<1>9. ASSUME NEW t \in Threads, NEW o \in Obs, CloseCall(t, o) PROVE Owned'
  BY <1>9 DEF CloseCall, At, Goto
<1>10. ASSUME NEW t \in Threads, CloseFlag(t) PROVE Owned'
  <2>1. /\ published' \subseteq 1..made' /\ closed' \subseteq published'
        /\ def' \in published' \cup {NoObs}
    BY <1>10 DEF CloseFlag, At
  <2>2. ASSUME NEW v \in Threads PROVE PerThread(v)'
    <3>1. CASE v = t /\ ob[t] \in closed
      BY <1>10, <3>1 DEF CloseFlag, At, Goto, Return, Forget
    <3>2. CASE v = t /\ ob[t] \notin closed
      BY <1>10, <3>2 DEF CloseFlag, At, Goto, Return, Forget
    <3>3. CASE v # t
      BY <1>10, <3>3 DEF CloseFlag, At, Goto, Return, Forget
    <3>. QED
      BY <3>1, <3>2, <3>3
  <2>. QED
    BY <2>1, <2>2 DEF PerThread
<1>11. ASSUME NEW t \in Threads, Shutdown(t) PROVE Owned'
  BY <1>11 DEF Shutdown, At, Goto, Return, Forget
<1>12. ASSUME NEW t \in Threads, NEW o \in Obs, Handler(t, o) PROVE Owned'
  BY <1>12 DEF Handler, At, Goto
<1>13. ASSUME NEW t \in Threads, LookMeter(t) PROVE Owned'
  BY <1>13 DEF LookMeter, At, Goto
<1>14. ASSUME NEW t \in Threads, Claim(t) PROVE Owned'
  <2>1. CASE Return(t)
    BY <1>14, <2>1 DEF Claim, NotInstalled, At, Goto, Return, Forget, Building
  <2>2. CASE ~Return(t)
    BY <1>14, <2>2 DEF Claim, NotInstalled, At, Goto, Return, Forget, Building
  <2>. QED
    BY <1>14, <2>1, <2>2 DEF Claim, NotInstalled, At, Goto, Return, Forget, Building
<1>15. ASSUME NEW t \in Threads, SetMeter(t) PROVE Owned'
  BY <1>15 DEF SetMeter, At, Goto
<1>16. ASSUME NEW t \in Threads, OwnMeter(t) PROVE Owned'
  <2>1. CASE Building(t)
    BY <1>16, <2>1 DEF OwnMeter, At, Goto, Building
  <2>2. CASE ~Building(t)
    BY <1>16, <2>2 DEF OwnMeter, At, Goto, Building
  <2>. QED
    BY <1>16, <2>1, <2>2 DEF OwnMeter, At, Goto, Building
<1>17. ASSUME NEW t \in Threads, Reset(t) PROVE Owned'
  BY <1>17 DEF Reset, At, Goto, Return, Forget
<1>18. ASSUME NEW t \in Threads, Mint(t) PROVE Owned'
  BY <1>18 DEF Mint, At, Goto
<1>19. ASSUME NEW t \in Threads, Minted(t) PROVE Owned'
  BY <1>19 DEF Minted, At, Goto, Return, Forget
<1>20. CASE AppTracer
  BY <1>20 DEF AppTracer
<1>21. CASE AppMeter
  BY <1>21 DEF AppMeter
<1>22. CASE UNCHANGED vars
  BY <1>22 DEF vars
<1>. QED
  BY <1>1, <1>2, <1>3, <1>4, <1>5, <1>6, <1>7, <1>8, <1>9, <1>10, <1>11, <1>12, <1>13, <1>14,
     <1>15, <1>16, <1>17, <1>18, <1>19, <1>20, <1>21, <1>22
  DEF Next, InitStep, CloseStep, MeterStep

----------------------------------------------------------------------------
(* Every Obs that was replaced is closed.                                   *)

\* Replacing hands the old default to Close, which leaves it with the flag set.
LEMMA NextForgotten == TypeOK /\ Owned /\ NoneForgotten /\ [Next]_vars => NoneForgotten'
<1>. SUFFICES ASSUME TypeOK, Owned, NoneForgotten, [Next]_vars PROVE NoneForgotten'
  OBVIOUS
<1>. /\ pc \in [Threads -> Labels] /\ ob \in [Threads -> Obs \cup {NoObs}] /\ Working
     /\ made \in Nat /\ published \subseteq Obs /\ def \in Obs \cup {NoObs} /\ closed \subseteq Obs
  BY LifecycleAssumption DEF TypeOK
<1>. USE DEF At, NoneForgotten, Owned, Working
<1>. USE DEF threadVars, obsVars, closeVars
<1>1. ASSUME NEW t \in Threads, NEW c \in Configs, Start(t, c) PROVE NoneForgotten'
  BY <1>1 DEF Start, At, Goto
<1>2. ASSUME NEW t \in Threads, Look(t) PROVE NoneForgotten'
  BY <1>2 DEF Look, At, Goto
<1>3. ASSUME NEW t \in Threads, Decide(t) PROVE NoneForgotten'
  BY <1>3 DEF Decide, At, Goto, Forget
<1>4. ASSUME NEW t \in Threads, SetTracer(t) PROVE NoneForgotten'
  BY <1>4 DEF SetTracer, At, Goto
<1>5. ASSUME NEW t \in Threads, OwnTracer(t) PROVE NoneForgotten'
  BY <1>5 DEF OwnTracer, At, Goto
<1>6. ASSUME NEW t \in Threads, Telemetry(t) PROVE NoneForgotten'
  BY <1>6 DEF Telemetry, At, Goto
<1>7. ASSUME NEW t \in Threads, TelemetryMeter(t) PROVE NoneForgotten'
  BY <1>7 DEF TelemetryMeter, At, Goto
<1>8. ASSUME NEW t \in Threads, Swap(t) PROVE NoneForgotten'
  <2>1. CASE def = NoObs
    BY <1>8, <2>1 DEF Swap, At, Goto, Return, Forget
  <2>2. CASE def # NoObs
    BY <1>8, <2>2 DEF Swap, At, Goto, Return, Forget
  <2>. QED
    BY <1>8, <2>1, <2>2 DEF Swap, At, Goto, Return, Forget
<1>9. ASSUME NEW t \in Threads, NEW o \in Obs, CloseCall(t, o) PROVE NoneForgotten'
  BY <1>9 DEF CloseCall, At, Goto
<1>10. ASSUME NEW t \in Threads, CloseFlag(t) PROVE NoneForgotten'
  <2>1. CASE ob[t] \in closed
    BY <1>10, <2>1 DEF CloseFlag, At, Goto, Return, Forget
  <2>2. CASE ob[t] \notin closed
    BY <1>10, <2>2 DEF CloseFlag, At, Goto, Return, Forget
  <2>. QED
    BY <1>10, <2>1, <2>2 DEF CloseFlag, At, Goto, Return, Forget
<1>11. ASSUME NEW t \in Threads, Shutdown(t) PROVE NoneForgotten'
  BY <1>11 DEF Shutdown, At, Goto, Return, Forget
<1>12. ASSUME NEW t \in Threads, NEW o \in Obs, Handler(t, o) PROVE NoneForgotten'
  BY <1>12 DEF Handler, At, Goto
<1>13. ASSUME NEW t \in Threads, LookMeter(t) PROVE NoneForgotten'
  BY <1>13 DEF LookMeter, At, Goto
<1>14. ASSUME NEW t \in Threads, Claim(t) PROVE NoneForgotten'
  <2>1. CASE Return(t)
    BY <1>14, <2>1 DEF Claim, NotInstalled, At, Goto, Return, Forget, Building
  <2>2. CASE ~Return(t)
    BY <1>14, <2>2 DEF Claim, NotInstalled, At, Goto, Return, Forget, Building
  <2>. QED
    BY <1>14, <2>1, <2>2 DEF Claim, NotInstalled, At, Goto, Return, Forget, Building
<1>15. ASSUME NEW t \in Threads, SetMeter(t) PROVE NoneForgotten'
  BY <1>15 DEF SetMeter, At, Goto
<1>16. ASSUME NEW t \in Threads, OwnMeter(t) PROVE NoneForgotten'
  BY <1>16 DEF OwnMeter, At, Goto
<1>17. ASSUME NEW t \in Threads, Reset(t) PROVE NoneForgotten'
  BY <1>17 DEF Reset, At, Goto, Return, Forget
<1>18. ASSUME NEW t \in Threads, Mint(t) PROVE NoneForgotten'
  BY <1>18 DEF Mint, At, Goto
<1>19. ASSUME NEW t \in Threads, Minted(t) PROVE NoneForgotten'
  BY <1>19 DEF Minted, At, Goto, Return, Forget
<1>20. CASE AppTracer
  BY <1>20 DEF AppTracer
<1>21. CASE AppMeter
  BY <1>21 DEF AppMeter
<1>22. CASE UNCHANGED vars
  BY <1>22 DEF vars
<1>. QED
  BY <1>1, <1>2, <1>3, <1>4, <1>5, <1>6, <1>7, <1>8, <1>9, <1>10, <1>11, <1>12, <1>13, <1>14,
     <1>15, <1>16, <1>17, <1>18, <1>19, <1>20, <1>21, <1>22
  DEF Next, InitStep, CloseStep, MeterStep

----------------------------------------------------------------------------
(* No Init closes the default.                                              *)

\* An Init closes what it replaced, so a goroutine that closes the default was called by the
\* application.
ClosesForUser == \A t \in Threads : At(t, "close") /\ ob[t] = def => def \in byUser

\* No step closes the default unless the application asked for it.
LEMMA NextServes ==
  TypeOK /\ Owned /\ ClosesForUser /\ DefaultServes /\ [Next]_vars => (ClosesForUser /\ DefaultServes)'
<1>. SUFFICES ASSUME TypeOK, Owned, ClosesForUser, DefaultServes, [Next]_vars PROVE (ClosesForUser /\ DefaultServes)'
  OBVIOUS
<1>. /\ pc \in [Threads -> Labels] /\ ob \in [Threads -> Obs \cup {NoObs}] /\ Working
     /\ made \in Nat /\ published \subseteq Obs /\ def \in Obs \cup {NoObs} /\ closed \subseteq Obs
  BY LifecycleAssumption DEF TypeOK
<1>. USE DEF At, ClosesForUser, DefaultServes, Owned, PerThread, InInit, Working
<1>. USE DEF threadVars, obsVars, closeVars, history
<1>1. ASSUME NEW t \in Threads, NEW c \in Configs, Start(t, c)
      PROVE  (ClosesForUser /\ DefaultServes)'
  BY <1>1 DEF Start, At, Goto
<1>2. ASSUME NEW t \in Threads, Look(t) PROVE (ClosesForUser /\ DefaultServes)'
  BY <1>2 DEF Look, At, Goto
<1>3. ASSUME NEW t \in Threads, Decide(t) PROVE (ClosesForUser /\ DefaultServes)'
  BY <1>3 DEF Decide, At, Goto, Forget
<1>4. ASSUME NEW t \in Threads, SetTracer(t) PROVE (ClosesForUser /\ DefaultServes)'
  BY <1>4 DEF SetTracer, At, Goto
<1>5. ASSUME NEW t \in Threads, OwnTracer(t) PROVE (ClosesForUser /\ DefaultServes)'
  BY <1>5 DEF OwnTracer, At, Goto
<1>6. ASSUME NEW t \in Threads, Telemetry(t) PROVE (ClosesForUser /\ DefaultServes)'
  BY <1>6 DEF Telemetry, At, Goto
<1>7. ASSUME NEW t \in Threads, TelemetryMeter(t) PROVE (ClosesForUser /\ DefaultServes)'
  BY <1>7 DEF TelemetryMeter, At, Goto
<1>8. ASSUME NEW t \in Threads, Swap(t) PROVE (ClosesForUser /\ DefaultServes)'
  <2>1. CASE def = NoObs
    BY <1>8, <2>1 DEF Swap, At, Goto, Return, Forget
  <2>2. CASE def # NoObs
    BY <1>8, <2>2 DEF Swap, At, Goto, Return, Forget
  <2>. QED
    BY <1>8, <2>1, <2>2 DEF Swap, At, Goto, Return, Forget
<1>9. ASSUME NEW t \in Threads, NEW o \in Obs, CloseCall(t, o)
      PROVE  (ClosesForUser /\ DefaultServes)'
  BY <1>9 DEF CloseCall, At, Goto
<1>10. ASSUME NEW t \in Threads, CloseFlag(t) PROVE (ClosesForUser /\ DefaultServes)'
  <2>1. CASE ob[t] \in closed
    BY <1>10, <2>1 DEF CloseFlag, At, Goto, Return, Forget
  <2>2. CASE ob[t] \notin closed
    BY <1>10, <2>2 DEF CloseFlag, At, Goto, Return, Forget
  <2>. QED
    BY <1>10, <2>1, <2>2 DEF CloseFlag, At, Goto, Return, Forget
<1>11. ASSUME NEW t \in Threads, Shutdown(t) PROVE (ClosesForUser /\ DefaultServes)'
  BY <1>11 DEF Shutdown, At, Goto, Return, Forget
<1>12. ASSUME NEW t \in Threads, NEW o \in Obs, Handler(t, o)
       PROVE  (ClosesForUser /\ DefaultServes)'
  BY <1>12 DEF Handler, At, Goto
<1>13. ASSUME NEW t \in Threads, LookMeter(t) PROVE (ClosesForUser /\ DefaultServes)'
  BY <1>13 DEF LookMeter, At, Goto
<1>14. ASSUME NEW t \in Threads, Claim(t) PROVE (ClosesForUser /\ DefaultServes)'
  <2>1. CASE Return(t)
    BY <1>14, <2>1 DEF Claim, NotInstalled, At, Goto, Return, Forget, Building
  <2>2. CASE ~Return(t)
    BY <1>14, <2>2 DEF Claim, NotInstalled, At, Goto, Return, Forget, Building
  <2>. QED
    BY <1>14, <2>1, <2>2 DEF Claim, NotInstalled, At, Goto, Return, Forget, Building
<1>15. ASSUME NEW t \in Threads, SetMeter(t) PROVE (ClosesForUser /\ DefaultServes)'
  BY <1>15 DEF SetMeter, At, Goto
<1>16. ASSUME NEW t \in Threads, OwnMeter(t) PROVE (ClosesForUser /\ DefaultServes)'
  BY <1>16 DEF OwnMeter, At, Goto
<1>17. ASSUME NEW t \in Threads, Reset(t) PROVE (ClosesForUser /\ DefaultServes)'
  BY <1>17 DEF Reset, At, Goto, Return, Forget
<1>18. ASSUME NEW t \in Threads, Mint(t) PROVE (ClosesForUser /\ DefaultServes)'
  BY <1>18 DEF Mint, At, Goto
<1>19. ASSUME NEW t \in Threads, Minted(t) PROVE (ClosesForUser /\ DefaultServes)'
  BY <1>19 DEF Minted, At, Goto, Return, Forget
<1>20. CASE AppTracer
  BY <1>20 DEF AppTracer
<1>21. CASE AppMeter
  BY <1>21 DEF AppMeter
<1>22. CASE UNCHANGED vars
  BY <1>22 DEF vars
<1>. QED
  BY <1>1, <1>2, <1>3, <1>4, <1>5, <1>6, <1>7, <1>8, <1>9, <1>10, <1>11, <1>12, <1>13, <1>14,
     <1>15, <1>16, <1>17, <1>18, <1>19, <1>20, <1>21, <1>22
  DEF Next, InitStep, CloseStep, MeterStep

----------------------------------------------------------------------------
(* One shutdown for each Obs.                                               *)

\* The provider of a closed Obs was shut down, or the one goroutine that set the flag is about
\* to do it.
OneShutdown ==
  \A o \in Obs :
    /\ o \notin closed => shutdowns[o] = 0
    /\ o \in closed =>
         \/ shutdowns[o] = 1 /\ \A t \in Threads : ~(ob[t] = o /\ At(t, "shutdown"))
         \/ /\ shutdowns[o] = 0
            /\ \E t \in Threads : \A u \in Threads : ob[u] = o /\ At(u, "shutdown") <=> u = t

\* CloseFlag lets one goroutine through, and Shutdown is its last step.
LEMMA NextOneShutdown == TypeOK /\ Owned /\ OneShutdown /\ [Next]_vars => OneShutdown'
<1>. SUFFICES ASSUME TypeOK, Owned, OneShutdown, [Next]_vars PROVE OneShutdown'
  OBVIOUS
<1>. /\ pc \in [Threads -> Labels] /\ ob \in [Threads -> Obs \cup {NoObs}] /\ Working
     /\ made \in Nat /\ published \subseteq Obs /\ def \in Obs \cup {NoObs} /\ closed \subseteq Obs
     /\ shutdowns \in [Obs -> Nat]
  BY LifecycleAssumption DEF TypeOK
<1>. USE DEF At, OneShutdown, Owned, PerThread, InInit, Working
<1>. USE DEF threadVars, obsVars, closeVars
<1>1. ASSUME NEW t \in Threads, NEW c \in Configs, Start(t, c) PROVE OneShutdown'
  BY <1>1 DEF Start, At, Goto
<1>2. ASSUME NEW t \in Threads, Look(t) PROVE OneShutdown'
  BY <1>2 DEF Look, At, Goto
<1>3. ASSUME NEW t \in Threads, Decide(t) PROVE OneShutdown'
  BY <1>3 DEF Decide, At, Goto, Forget
<1>4. ASSUME NEW t \in Threads, SetTracer(t) PROVE OneShutdown'
  BY <1>4 DEF SetTracer, At, Goto
<1>5. ASSUME NEW t \in Threads, OwnTracer(t) PROVE OneShutdown'
  BY <1>5 DEF OwnTracer, At, Goto
<1>6. ASSUME NEW t \in Threads, Telemetry(t) PROVE OneShutdown'
  BY <1>6 DEF Telemetry, At, Goto
<1>7. ASSUME NEW t \in Threads, TelemetryMeter(t) PROVE OneShutdown'
  BY <1>7 DEF TelemetryMeter, At, Goto
<1>8. ASSUME NEW t \in Threads, Swap(t) PROVE OneShutdown'
  <2>1. CASE def = NoObs
    BY <1>8, <2>1 DEF Swap, At, Goto, Return, Forget
  <2>2. CASE def # NoObs
    BY <1>8, <2>2 DEF Swap, At, Goto, Return, Forget
  <2>. QED
    BY <1>8, <2>1, <2>2 DEF Swap, At, Goto, Return, Forget
<1>9. ASSUME NEW t \in Threads, NEW o \in Obs, CloseCall(t, o) PROVE OneShutdown'
  BY <1>9 DEF CloseCall, At, Goto
<1>10. ASSUME NEW t \in Threads, CloseFlag(t) PROVE OneShutdown'
  <2>1. CASE ob[t] \in closed
    BY <1>10, <2>1 DEF CloseFlag, At, Goto, Return, Forget
  <2>2. CASE ob[t] \notin closed
    BY <1>10, <2>2 DEF CloseFlag, At, Goto, Return, Forget
  <2>. QED
    BY <1>10, <2>1, <2>2 DEF CloseFlag, At, Goto, Return, Forget
<1>11. ASSUME NEW t \in Threads, Shutdown(t) PROVE OneShutdown'
  BY <1>11 DEF Shutdown, At, Goto, Return, Forget
<1>12. ASSUME NEW t \in Threads, NEW o \in Obs, Handler(t, o) PROVE OneShutdown'
  BY <1>12 DEF Handler, At, Goto
<1>13. ASSUME NEW t \in Threads, LookMeter(t) PROVE OneShutdown'
  BY <1>13 DEF LookMeter, At, Goto
<1>14. ASSUME NEW t \in Threads, Claim(t) PROVE OneShutdown'
  <2>1. CASE Return(t)
    BY <1>14, <2>1 DEF Claim, NotInstalled, At, Goto, Return, Forget, Building
  <2>2. CASE ~Return(t)
    BY <1>14, <2>2 DEF Claim, NotInstalled, At, Goto, Return, Forget, Building
  <2>. QED
    BY <1>14, <2>1, <2>2 DEF Claim, NotInstalled, At, Goto, Return, Forget, Building
<1>15. ASSUME NEW t \in Threads, SetMeter(t) PROVE OneShutdown'
  BY <1>15 DEF SetMeter, At, Goto
<1>16. ASSUME NEW t \in Threads, OwnMeter(t) PROVE OneShutdown'
  BY <1>16 DEF OwnMeter, At, Goto
<1>17. ASSUME NEW t \in Threads, Reset(t) PROVE OneShutdown'
  BY <1>17 DEF Reset, At, Goto, Return, Forget
<1>18. ASSUME NEW t \in Threads, Mint(t) PROVE OneShutdown'
  BY <1>18 DEF Mint, At, Goto
<1>19. ASSUME NEW t \in Threads, Minted(t) PROVE OneShutdown'
  BY <1>19 DEF Minted, At, Goto, Return, Forget
<1>20. CASE AppTracer
  BY <1>20 DEF AppTracer
<1>21. CASE AppMeter
  BY <1>21 DEF AppMeter
<1>22. CASE UNCHANGED vars
  BY <1>22 DEF vars
<1>. QED
  BY <1>1, <1>2, <1>3, <1>4, <1>5, <1>6, <1>7, <1>8, <1>9, <1>10, <1>11, <1>12, <1>13, <1>14,
     <1>15, <1>16, <1>17, <1>18, <1>19, <1>20, <1>21, <1>22
  DEF Next, InitStep, CloseStep, MeterStep

\* One goroutine shuts the provider down.
LEMMA OneShutdownSuffices == TypeOK /\ Owned /\ OneShutdown => ShutDownOnce
<1>. SUFFICES ASSUME TypeOK, Owned, OneShutdown, NEW o \in Obs
              PROVE  shutdowns[o] + Cardinality(Closing(o)) = IF o \in closed THEN 1 ELSE 0
  BY DEF ShutDownOnce
<1>1. Closing(o) = {} => Cardinality(Closing(o)) = 0
  BY FS_EmptySet
<1>2. ASSUME NEW t \in Threads, Closing(o) = {t} PROVE Cardinality(Closing(o)) = 1
  BY <1>2, FS_Singleton
<1>3. CASE o \notin closed
  <2>1. Closing(o) = {}
    BY <1>3 DEF Closing, Owned, PerThread, At
  <2>. QED
    BY <1>1, <1>3, <2>1 DEF OneShutdown
<1>4. CASE o \in closed /\ shutdowns[o] = 1 /\ \A t \in Threads : ~(ob[t] = o /\ At(t, "shutdown"))
  <2>1. Closing(o) = {}
    BY <1>4 DEF Closing
  <2>. QED
    BY <1>1, <1>4, <2>1
<1>5. CASE /\ o \in closed /\ shutdowns[o] = 0
           /\ \E t \in Threads : \A u \in Threads : ob[u] = o /\ At(u, "shutdown") <=> u = t
  <2>1. PICK t \in Threads : Closing(o) = {t}
    BY <1>5 DEF Closing
  <2>. QED
    BY <1>2, <1>5, <2>1
<1>. QED
  BY <1>3, <1>4, <1>5 DEF OneShutdown

----------------------------------------------------------------------------
(* The pipeline of a closed Obs stops.                                      *)

\* Between the flag and the stop somebody is at work.
StopUnderWay ==
  \A o \in running \cap closed : HasStop(o) => \E t \in Threads : At(t, "shutdown") /\ ob[t] = o

\* The pipeline of an Obs starts before the Obs can be closed.
LEMMA NextStopUnderWay == TypeOK /\ Owned /\ StopUnderWay /\ [Next]_vars => StopUnderWay'
<1>. SUFFICES ASSUME TypeOK, Owned, StopUnderWay, [Next]_vars PROVE StopUnderWay'
  OBVIOUS
<1>. /\ pc \in [Threads -> Labels] /\ ob \in [Threads -> Obs \cup {NoObs}] /\ Working
     /\ made \in Nat /\ published \subseteq Obs /\ def \in Obs \cup {NoObs} /\ closed \subseteq Obs
  BY LifecycleAssumption DEF TypeOK
<1>. conf \in [Obs -> Configs \cup {NoConfig}] /\ running \subseteq Obs
  BY DEF TypeOK
<1>. USE DEF At, StopUnderWay, HasStop, Owned, PerThread, InInit, Working
<1>. USE DEF threadVars, obsVars, closeVars
<1>1. ASSUME NEW t \in Threads, NEW c \in Configs, Start(t, c) PROVE StopUnderWay'
  BY <1>1 DEF Start, At, Goto
<1>2. ASSUME NEW t \in Threads, Look(t) PROVE StopUnderWay'
  BY <1>2 DEF Look, At, Goto
<1>3. ASSUME NEW t \in Threads, Decide(t) PROVE StopUnderWay'
  BY <1>3 DEF Decide, At, Goto, Forget
<1>4. ASSUME NEW t \in Threads, SetTracer(t) PROVE StopUnderWay'
  BY <1>4 DEF SetTracer, At, Goto
<1>5. ASSUME NEW t \in Threads, OwnTracer(t) PROVE StopUnderWay'
  BY <1>5 DEF OwnTracer, At, Goto
<1>6. ASSUME NEW t \in Threads, Telemetry(t) PROVE StopUnderWay'
  BY <1>6 DEF Telemetry, At, Goto
<1>7. ASSUME NEW t \in Threads, TelemetryMeter(t) PROVE StopUnderWay'
  BY <1>7 DEF TelemetryMeter, At, Goto
<1>8. ASSUME NEW t \in Threads, Swap(t) PROVE StopUnderWay'
  <2>1. CASE def = NoObs
    BY <1>8, <2>1 DEF Swap, At, Goto, Return, Forget
  <2>2. CASE def # NoObs
    BY <1>8, <2>2 DEF Swap, At, Goto, Return, Forget
  <2>. QED
    BY <1>8, <2>1, <2>2 DEF Swap, At, Goto, Return, Forget
<1>9. ASSUME NEW t \in Threads, NEW o \in Obs, CloseCall(t, o) PROVE StopUnderWay'
  BY <1>9 DEF CloseCall, At, Goto
<1>10. ASSUME NEW t \in Threads, CloseFlag(t) PROVE StopUnderWay'
  <2>1. CASE ob[t] \in closed
    BY <1>10, <2>1 DEF CloseFlag, At, Goto, Return, Forget
  <2>2. CASE ob[t] \notin closed
    BY <1>10, <2>2 DEF CloseFlag, At, Goto, Return, Forget
  <2>. QED
    BY <1>10, <2>1, <2>2 DEF CloseFlag, At, Goto, Return, Forget
<1>11. ASSUME NEW t \in Threads, Shutdown(t) PROVE StopUnderWay'
  BY <1>11 DEF Shutdown, At, Goto, Return, Forget
<1>12. ASSUME NEW t \in Threads, NEW o \in Obs, Handler(t, o) PROVE StopUnderWay'
  BY <1>12 DEF Handler, At, Goto
<1>13. ASSUME NEW t \in Threads, LookMeter(t) PROVE StopUnderWay'
  BY <1>13 DEF LookMeter, At, Goto
<1>14. ASSUME NEW t \in Threads, Claim(t) PROVE StopUnderWay'
  <2>1. CASE Return(t)
    BY <1>14, <2>1 DEF Claim, NotInstalled, At, Goto, Return, Forget, Building
  <2>2. CASE ~Return(t)
    BY <1>14, <2>2 DEF Claim, NotInstalled, At, Goto, Return, Forget, Building
  <2>. QED
    BY <1>14, <2>1, <2>2 DEF Claim, NotInstalled, At, Goto, Return, Forget, Building
<1>15. ASSUME NEW t \in Threads, SetMeter(t) PROVE StopUnderWay'
  BY <1>15 DEF SetMeter, At, Goto
<1>16. ASSUME NEW t \in Threads, OwnMeter(t) PROVE StopUnderWay'
  BY <1>16 DEF OwnMeter, At, Goto
<1>17. ASSUME NEW t \in Threads, Reset(t) PROVE StopUnderWay'
  BY <1>17 DEF Reset, At, Goto, Return, Forget
<1>18. ASSUME NEW t \in Threads, Mint(t) PROVE StopUnderWay'
  BY <1>18 DEF Mint, At, Goto
<1>19. ASSUME NEW t \in Threads, Minted(t) PROVE StopUnderWay'
  BY <1>19 DEF Minted, At, Goto, Return, Forget
<1>20. CASE AppTracer
  BY <1>20 DEF AppTracer
<1>21. CASE AppMeter
  BY <1>21 DEF AppMeter
<1>22. CASE UNCHANGED vars
  BY <1>22 DEF vars
<1>. QED
  BY <1>1, <1>2, <1>3, <1>4, <1>5, <1>6, <1>7, <1>8, <1>9, <1>10, <1>11, <1>12, <1>13, <1>14,
     <1>15, <1>16, <1>17, <1>18, <1>19, <1>20, <1>21, <1>22
  DEF Next, InitStep, CloseStep, MeterStep

\* When nobody is at work, the pipelines of closed Obs have stopped.
LEMMA StopUnderWaySuffices == StopUnderWay => PipelinesStopped
  BY DEF StopUnderWay, PipelinesStopped, Quiet, At

----------------------------------------------------------------------------
(* The instruments follow the provider MetricsHandler installed.            *)

\* The mutex is held exactly while an instrument is minted, from the global provider if
\* MetricsHandler installed it.
MintLocked ==
  /\ \A t \in Threads : At(t, "mint") <=> metricsMu = t
  /\ served => \A t \in Threads : At(t, "mint") => seen[t] = globalMeter

\* Nobody mints while MetricsHandler drops the cache, and what is minted next is of its provider.
LEMMA NextRebinds == TypeOK /\ MintLocked /\ HandlerRebinds /\ [Next]_vars => (MintLocked /\ HandlerRebinds)'
<1>. SUFFICES ASSUME TypeOK, MintLocked, HandlerRebinds, [Next]_vars PROVE (MintLocked /\ HandlerRebinds)'
  OBVIOUS
<1>. /\ pc \in [Threads -> Labels] /\ ob \in [Threads -> Obs \cup {NoObs}] /\ Working
     /\ seen \in [Threads -> Providers]
  BY DEF TypeOK
<1>. USE LifecycleAssumption DEF At, MintLocked, HandlerRebinds, Working
<1>. USE DEF threadVars, obsVars, meterVars, cacheVars
<1>1. ASSUME NEW t \in Threads, NEW c \in Configs, Start(t, c) PROVE (MintLocked /\ HandlerRebinds)'
  BY <1>1 DEF Start, At, Goto
<1>2. ASSUME NEW t \in Threads, Look(t) PROVE (MintLocked /\ HandlerRebinds)'
  BY <1>2 DEF Look, At, Goto
<1>3. ASSUME NEW t \in Threads, Decide(t) PROVE (MintLocked /\ HandlerRebinds)'
  BY <1>3 DEF Decide, At, Goto, Forget
<1>4. ASSUME NEW t \in Threads, SetTracer(t) PROVE (MintLocked /\ HandlerRebinds)'
  BY <1>4 DEF SetTracer, At, Goto
<1>5. ASSUME NEW t \in Threads, OwnTracer(t) PROVE (MintLocked /\ HandlerRebinds)'
  BY <1>5 DEF OwnTracer, At, Goto
<1>6. ASSUME NEW t \in Threads, Telemetry(t) PROVE (MintLocked /\ HandlerRebinds)'
  BY <1>6 DEF Telemetry, At, Goto
<1>7. ASSUME NEW t \in Threads, TelemetryMeter(t) PROVE (MintLocked /\ HandlerRebinds)'
  BY <1>7 DEF TelemetryMeter, At, Goto
<1>8. ASSUME NEW t \in Threads, Swap(t) PROVE (MintLocked /\ HandlerRebinds)'
  <2>1. CASE def = NoObs
    BY <1>8, <2>1 DEF Swap, At, Goto, Return, Forget
  <2>2. CASE def # NoObs
    BY <1>8, <2>2 DEF Swap, At, Goto, Return, Forget
  <2>. QED
    BY <1>8, <2>1, <2>2 DEF Swap, At, Goto, Return, Forget
<1>9. ASSUME NEW t \in Threads, NEW o \in Obs, CloseCall(t, o) PROVE (MintLocked /\ HandlerRebinds)'
  BY <1>9 DEF CloseCall, At, Goto
<1>10. ASSUME NEW t \in Threads, CloseFlag(t) PROVE (MintLocked /\ HandlerRebinds)'
  <2>1. CASE ob[t] \in closed
    BY <1>10, <2>1 DEF CloseFlag, At, Goto, Return, Forget
  <2>2. CASE ob[t] \notin closed
    BY <1>10, <2>2 DEF CloseFlag, At, Goto, Return, Forget
  <2>. QED
    BY <1>10, <2>1, <2>2 DEF CloseFlag, At, Goto, Return, Forget
<1>11. ASSUME NEW t \in Threads, Shutdown(t) PROVE (MintLocked /\ HandlerRebinds)'
  BY <1>11 DEF Shutdown, At, Goto, Return, Forget
<1>12. ASSUME NEW t \in Threads, NEW o \in Obs, Handler(t, o) PROVE (MintLocked /\ HandlerRebinds)'
  BY <1>12 DEF Handler, At, Goto
<1>13. ASSUME NEW t \in Threads, LookMeter(t) PROVE (MintLocked /\ HandlerRebinds)'
  BY <1>13 DEF LookMeter, At, Goto
<1>14. ASSUME NEW t \in Threads, Claim(t) PROVE (MintLocked /\ HandlerRebinds)'
  <2>1. CASE Return(t)
    BY <1>14, <2>1 DEF Claim, NotInstalled, At, Goto, Return, Forget, Building
  <2>2. CASE ~Return(t)
    BY <1>14, <2>2 DEF Claim, NotInstalled, At, Goto, Return, Forget, Building
  <2>. QED
    BY <1>14, <2>1, <2>2 DEF Claim, NotInstalled, At, Goto, Return, Forget, Building
<1>15. ASSUME NEW t \in Threads, SetMeter(t) PROVE (MintLocked /\ HandlerRebinds)'
  BY <1>15 DEF SetMeter, At, Goto
<1>16. ASSUME NEW t \in Threads, OwnMeter(t) PROVE (MintLocked /\ HandlerRebinds)'
  BY <1>16 DEF OwnMeter, At, Goto
<1>17. ASSUME NEW t \in Threads, Reset(t) PROVE (MintLocked /\ HandlerRebinds)'
  BY <1>17 DEF Reset, At, Goto, Return, Forget
<1>18. ASSUME NEW t \in Threads, Mint(t) PROVE (MintLocked /\ HandlerRebinds)'
  BY <1>18 DEF Mint, At, Goto
<1>19. ASSUME NEW t \in Threads, Minted(t) PROVE (MintLocked /\ HandlerRebinds)'
  BY <1>19 DEF Minted, At, Goto, Return, Forget
<1>20. CASE AppTracer
  BY <1>20 DEF AppTracer
<1>21. CASE AppMeter
  BY <1>21 DEF AppMeter
<1>22. CASE UNCHANGED vars
  BY <1>22 DEF vars
<1>. QED
  BY <1>1, <1>2, <1>3, <1>4, <1>5, <1>6, <1>7, <1>8, <1>9, <1>10, <1>11, <1>12, <1>13, <1>14,
     <1>15, <1>16, <1>17, <1>18, <1>19, <1>20, <1>21, <1>22
  DEF Next, InitStep, CloseStep, MeterStep

----------------------------------------------------------------------------
(* Spans, as long as no Inits overlap.                                      *)

\* A goroutine in Init after OwnTracer.
OwnsTracer(t) == Building(t) /\ pc[t] \in {"foreign", "claim", "setMeter", "ownMeter", "telemetry", "telemetryMeter"}

SoleBuilder == \A t, u \in Threads : Building(t) /\ Building(u) => t = u
TracerKnown ==
  globalTracer \in Obs =>
    /\ \A t \in Threads : At(t, "ownTracer") => ob[t] = globalTracer
    /\ (\A t \in Threads : ~At(t, "ownTracer")) => globalTracer = ownedTracer
SeenKnown ==
  \A t \in Threads :
    /\ At(t, "compare") /\ seen[t] \in Obs => seen[t] = ownedTracer
    /\ OwnsTracer(t) => ownedTracer = ob[t]
NoneAdopted == \A o \in Obs : tracer[o] \in Obs => tracer[o] = o

\* One goroutine builds at a time; the global tracer provider is the one boeng remembers, or
\* the application's, or is about to be remembered; and no Obs adopts that of another.
OwnSpans == ~overlapped => SoleBuilder /\ TracerKnown /\ SeenKnown /\ NoneAdopted

\* No Init adopts a provider boeng owns while it is the only Init.
LEMMA NextOwnSpans == TypeOK /\ Owned /\ OwnSpans /\ [Next]_vars => OwnSpans'
<1>. SUFFICES ASSUME TypeOK, Owned, OwnSpans, [Next]_vars PROVE OwnSpans'
  OBVIOUS
<1>. /\ pc \in [Threads -> Labels] /\ ob \in [Threads -> Obs \cup {NoObs}] /\ Working
     /\ made \in Nat /\ published \subseteq Obs /\ def \in Obs \cup {NoObs} /\ closed \subseteq Obs
  BY LifecycleAssumption DEF TypeOK
<1>. /\ seen \in [Threads -> Providers] /\ tracer \in [Obs -> Providers]
     /\ globalTracer \in Providers /\ ownedTracer \in Obs \cup {NoProvider}
  BY DEF TypeOK
<1>. USE LifecycleAssumption DEF At, Building, Owned, PerThread, InInit, Working
<1>. USE DEF threadVars, obsVars, tracerVars, history, OwnSpans, SoleBuilder, TracerKnown,
   SeenKnown, NoneAdopted, OwnsTracer
<1>1. ASSUME NEW t \in Threads, NEW c \in Configs, Start(t, c) PROVE OwnSpans'
  <2>. SUFFICES ASSUME ~overlapped' PROVE (SoleBuilder /\ TracerKnown /\ SeenKnown /\ NoneAdopted)'
    BY DEF OwnSpans
  <2>. SoleBuilder /\ TracerKnown /\ SeenKnown /\ NoneAdopted
    BY <1>1 DEF Start
  <2>1. (\A u \in Threads : ~Building(u)) /\ \A u \in Threads : Building(u)' => u = t
    BY ZenonT(90), <1>1 DEF Start, At, Goto
  <2>2. SoleBuilder'
    BY <1>1, <2>1 DEF Start, At, Goto
  <2>3. TracerKnown'
    BY <1>1, <2>1 DEF Start, At, Goto
  <2>4. SeenKnown'
    BY <1>1, <2>1 DEF Start, At, Goto
  <2>5. NoneAdopted'
    BY <1>1, <2>1 DEF Start, At, Goto
  <2>. QED
    BY <2>2, <2>3, <2>4, <2>5
<1>2. ASSUME NEW t \in Threads, Look(t) PROVE OwnSpans'
  BY <1>2 DEF Look, At, Goto
<1>3. ASSUME NEW t \in Threads, Decide(t) PROVE OwnSpans'
  <2>1. CASE pc'[t] = "setTracer"
    BY <1>3, <2>1 DEF Decide, At, Goto, Forget, Adoptable, Foreign
  <2>2. CASE pc'[t] = "swap"
    BY <1>3, <2>2 DEF Decide, At, Goto, Forget, Adoptable, Foreign
  <2>. QED
    BY <1>3, <2>1, <2>2 DEF Decide, At, Goto, Forget, Adoptable, Foreign
<1>4. ASSUME NEW t \in Threads, SetTracer(t) PROVE OwnSpans'
  BY <1>4 DEF SetTracer, At, Goto
<1>5. ASSUME NEW t \in Threads, OwnTracer(t) PROVE OwnSpans'
  <2>. SUFFICES ASSUME ~overlapped' PROVE (SoleBuilder /\ TracerKnown /\ SeenKnown /\ NoneAdopted)'
    BY DEF OwnSpans
  <2>. SoleBuilder /\ TracerKnown /\ SeenKnown /\ NoneAdopted
    BY <1>5 DEF OwnTracer
  <2>1. Building(t) /\ (\A u \in Threads : Building(u) => u = t) /\ \A u \in Threads : Building(u)' => u = t
    BY <1>5 DEF OwnTracer, At, Goto
  <2>2. SoleBuilder'
    BY <1>5, <2>1 DEF OwnTracer, At, Goto
  <2>3. TracerKnown'
    BY <1>5, <2>1 DEF OwnTracer, At, Goto
  <2>4. SeenKnown'
    BY <1>5, <2>1 DEF OwnTracer, At, Goto
  <2>5. NoneAdopted'
    BY <1>5, <2>1 DEF OwnTracer, At, Goto
  <2>. QED
    BY <2>2, <2>3, <2>4, <2>5
<1>6. ASSUME NEW t \in Threads, Telemetry(t) PROVE OwnSpans'
  BY <1>6 DEF Telemetry, At, Goto
<1>7. ASSUME NEW t \in Threads, TelemetryMeter(t) PROVE OwnSpans'
  BY <1>7 DEF TelemetryMeter, At, Goto
<1>8. ASSUME NEW t \in Threads, Swap(t) PROVE OwnSpans'
  <2>. SUFFICES ASSUME ~overlapped' PROVE (SoleBuilder /\ TracerKnown /\ SeenKnown /\ NoneAdopted)'
    BY DEF OwnSpans
  <2>. SoleBuilder /\ TracerKnown /\ SeenKnown /\ NoneAdopted
    BY <1>8 DEF Swap
  <2>1. /\ ob[t] \in Obs /\ \A u \in Threads : Building(u)' => Building(u) /\ u # t
        /\ \A u \in Threads : pc'[u] # pc[u] => u = t /\ pc'[u] \in {"idle", "close"} /\ pc[u] = "swap"
        /\ \A u \in Threads : ob'[u] # ob[u] => u = t
    BY <1>8 DEF Swap, At, Goto, Return, Forget
  <2>2. SoleBuilder'
    BY <1>8, <2>1 DEF Swap, At, Goto, Return, Forget
  <2>3. TracerKnown'
    BY <1>8, <2>1 DEF Swap, At, Goto, Return, Forget
  <2>4. SeenKnown'
    BY <1>8, <2>1 DEF Swap, At, Goto, Return, Forget
  <2>5. NoneAdopted'
    BY <1>8, <2>1 DEF Swap, At, Goto, Return, Forget
  <2>. QED
    BY <2>2, <2>3, <2>4, <2>5
<1>9. ASSUME NEW t \in Threads, NEW o \in Obs, CloseCall(t, o) PROVE OwnSpans'
  BY <1>9 DEF CloseCall, At, Goto
<1>10. ASSUME NEW t \in Threads, CloseFlag(t) PROVE OwnSpans'
  <2>. SUFFICES ASSUME ~overlapped' PROVE (SoleBuilder /\ TracerKnown /\ SeenKnown /\ NoneAdopted)'
    BY DEF OwnSpans
  <2>. SoleBuilder /\ TracerKnown /\ SeenKnown /\ NoneAdopted
    BY <1>10 DEF CloseFlag
  <2>1. /\ \A u \in Threads : Building(u)' => Building(u) /\ u # t
        /\ \A u \in Threads : pc'[u] # pc[u] => u = t /\ pc'[u] \in {"idle", "shutdown"} /\ pc[u] = "close"
        /\ \A u \in Threads : ob'[u] # ob[u] => u = t
    BY <1>10 DEF CloseFlag, At, Goto, Return, Forget
  <2>2. SoleBuilder'
    BY <1>10, <2>1 DEF CloseFlag, At, Goto, Return, Forget
  <2>3. TracerKnown'
    BY SMTT(30), <1>10, <2>1 DEF CloseFlag, At, Goto, Return, Forget
  <2>4. SeenKnown'
    BY <1>10, <2>1 DEF CloseFlag, At, Goto, Return, Forget
  <2>5. NoneAdopted'
    BY <1>10, <2>1 DEF CloseFlag, At, Goto, Return, Forget
  <2>. QED
    BY <2>2, <2>3, <2>4, <2>5
<1>11. ASSUME NEW t \in Threads, Shutdown(t) PROVE OwnSpans'
  BY <1>11 DEF Shutdown, At, Goto, Return, Forget
<1>12. ASSUME NEW t \in Threads, NEW o \in Obs, Handler(t, o) PROVE OwnSpans'
  BY <1>12 DEF Handler, At, Goto
<1>13. ASSUME NEW t \in Threads, LookMeter(t) PROVE OwnSpans'
  BY <1>13 DEF LookMeter, At, Goto
<1>14. ASSUME NEW t \in Threads, Claim(t) PROVE OwnSpans'
  <2>1. CASE Return(t)
    BY <1>14, <2>1 DEF Claim, NotInstalled, At, Goto, Return, Forget
  <2>2. CASE ~Return(t)
    BY <1>14, <2>2 DEF Claim, NotInstalled, At, Goto, Return, Forget
  <2>. QED
    BY <1>14, <2>1, <2>2 DEF Claim, NotInstalled, At, Goto, Return, Forget
<1>15. ASSUME NEW t \in Threads, SetMeter(t) PROVE OwnSpans'
  BY <1>15 DEF SetMeter, At, Goto
<1>16. ASSUME NEW t \in Threads, OwnMeter(t) PROVE OwnSpans'
  BY <1>16 DEF OwnMeter, At, Goto
<1>17. ASSUME NEW t \in Threads, Reset(t) PROVE OwnSpans'
  BY <1>17 DEF Reset, At, Goto, Return, Forget
<1>18. ASSUME NEW t \in Threads, Mint(t) PROVE OwnSpans'
  BY <1>18 DEF Mint, At, Goto
<1>19. ASSUME NEW t \in Threads, Minted(t) PROVE OwnSpans'
  BY <1>19 DEF Minted, At, Goto, Return, Forget
<1>20. CASE AppTracer
  BY <1>20 DEF AppTracer
<1>21. CASE AppMeter
  BY <1>21 DEF AppMeter
<1>22. CASE UNCHANGED vars
  BY <1>22 DEF vars
<1>. QED
  BY <1>1, <1>2, <1>3, <1>4, <1>5, <1>6, <1>7, <1>8, <1>9, <1>10, <1>11, <1>12, <1>13, <1>14,
     <1>15, <1>16, <1>17, <1>18, <1>19, <1>20, <1>21, <1>22
  DEF Next, InitStep, CloseStep, MeterStep

\* An open Obs that adopted nothing of boeng opens its spans on its own open provider.
LEMMA OwnSpansSuffices == TypeOK /\ Owned /\ OneShutdown /\ OwnSpans => SpansLive
  BY DEF TypeOK, Owned, OneShutdown, OwnSpans, NoneAdopted, SpansLive

----------------------------------------------------------------------------
(* The inductive invariant, and the theorems.                               *)

IInv ==
  /\ TypeOK /\ Owned /\ NoneForgotten /\ ClosesForUser /\ DefaultServes
  /\ OneShutdown /\ StopUnderWay /\ MintLocked /\ HandlerRebinds /\ OwnSpans

\* It holds before the first Init.
LEMMA InitIInv == Init => IInv
<1>1. Init => NoneForgotten /\ ClosesForUser /\ DefaultServes /\ OneShutdown /\ StopUnderWay
  BY LifecycleAssumption DEF Init, NoneForgotten, ClosesForUser, DefaultServes, OneShutdown,
     StopUnderWay, At
<1>2. Init => MintLocked /\ HandlerRebinds
  BY LifecycleAssumption DEF Init, MintLocked, HandlerRebinds, At
<1>3. Init => OwnSpans
  BY LifecycleAssumption DEF Init, OwnSpans, SoleBuilder, TracerKnown, SeenKnown, NoneAdopted,
     OwnsTracer, Building, At
<1>. QED
  BY InitTypeOK, InitOwned, <1>1, <1>2, <1>3 DEF IInv

\* Every step keeps it.
LEMMA NextIInv == IInv /\ [Next]_vars => IInv'
<1>. SUFFICES ASSUME IInv, [Next]_vars PROVE IInv'
  OBVIOUS
<1>1. TypeOK' /\ Owned' /\ NoneForgotten' /\ (ClosesForUser /\ DefaultServes)' /\ OneShutdown'
  BY Zenon, NextTypeOK, NextOwned, NextForgotten, NextServes, NextOneShutdown DEF IInv
<1>2. StopUnderWay' /\ (MintLocked /\ HandlerRebinds)' /\ OwnSpans'
  BY Zenon, NextStopUnderWay, NextRebinds, NextOwnSpans DEF IInv
<1>. QED
  BY <1>1, <1>2 DEF IInv

\* It holds in every state of every behaviour.
LEMMA Invariant == Spec => []IInv
<1>. QED
  BY InitIInv, NextIInv, PTL DEF Spec

\* However many goroutines call Close, and Inits among them, the provider of an Obs is shut down
\* by exactly one of them.
THEOREM ShutsDownOnce == Spec => []ShutDownOnce
<1>1. IInv => ShutDownOnce
  BY OneShutdownSuffices, Zenon DEF IInv
<1>. QED
  BY <1>1, Invariant, PTL

\* However many Inits overlap, every Obs that was the default and is not any more is closed or
\* about to be closed by the Init that replaced it.
THEOREM ForgetsNone == Spec => []NoneForgotten
<1>1. IInv => NoneForgotten
  BY Zenon DEF IInv
<1>. QED
  BY <1>1, Invariant, PTL

\* However Inits, Closes and operations interleave, the default is open unless the application
\* closed it.
THEOREM ServesDefault == Spec => []DefaultServes
<1>1. IInv => DefaultServes
  BY Zenon DEF IInv
<1>. QED
  BY <1>1, Invariant, PTL

\* When no call is under way, every closed Obs whose logger can stop has a stopped pipeline.
THEOREM StopsPipelines == Spec => []PipelinesStopped
<1>1. IInv => PipelinesStopped
  BY StopUnderWaySuffices, Zenon DEF IInv
<1>. QED
  BY <1>1, Invariant, PTL

\* Once MetricsHandler returned, no operation records through an instrument of an earlier
\* provider, whatever was being minted when it installed its own.
THEOREM Rebinds == Spec => []HandlerRebinds
<1>1. IInv => HandlerRebinds
  BY Zenon DEF IInv
<1>. QED
  BY <1>1, Invariant, PTL

\* As long as Inits do not overlap, an open Obs never opens spans on a provider that was shut
\* down, however many Obs came and went before it.
THEOREM SpansStayLive == Spec => []SpansLive
<1>1. IInv => SpansLive
  BY OwnSpansSuffices, Zenon DEF IInv
<1>. QED
  BY <1>1, Invariant, PTL
============================================================================
