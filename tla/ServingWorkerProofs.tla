------------------------ MODULE ServingWorkerProofs ------------------------
(***************************************************************************)
(* For every service and any number of failures, sessions and commands: a  *)
(* process that ends without an error was told to stop and its server was  *)
(* fine, and every client it opened is closed once (the first part).  And  *)
(* for any curves, models, answers and orders of the outputs: what is      *)
(* stored is what the model found in the curve (the second part, with the  *)
(* lemmas on the operators of Inference before it).                        *)
(***************************************************************************)
EXTENDS ServingWorker, FiniteSetTheorems, TLAPS

(* Where run may stand with what. *)
ProcessInv ==
  /\ service \in Kinds
  /\ pc \in {"start", "ready", "run", "returned", "stop", "closing", "read", "exited"}
  /\ step \in 1 .. Len(Steps[service])
  /\ exit \in {"none", "nil", "error", "killed"}
  /\ exit = "none" <=> pc # "exited"

(* The server begins at the end of the start, reports before it is gone,   *)
(* and reports an error before it cancels the run.                         *)
ServerInv ==
  /\ serveErrors \in {"empty", "nil", "error"}
  /\ serveErrors = "nil" => server = "stopped"
  /\ serveErrors = "error" => server \in {"failed", "stopped"}
  /\ server = "failed" => serveErrors = "error"
  /\ server \in {"none", "running"} => serveErrors = "empty"
  /\ pc = "start" => server = "none"

(* Whoever cancelled the run can be told by the end of it. *)
CauseInv ==
  /\ cancelled /\ pc \in {"start", "ready", "run", "returned", "stop"} =>
       signalled \/ serveErrors = "error"
  /\ pc \in {"returned", "stop"} /\ runnerErr = "nil" => cancelled
  /\ pc \in {"closing", "read"} /\ runnerErr = "nil" => signalled \/ serveErrors = "error"
  /\ pc = "returned" => runnerErr \in {"nil", "error", "yielded"}
  /\ pc \in {"stop", "closing", "read"} => runnerErr \in {"nil", "error"}

(* The variable says whether the client of the session is open. *)
ClientsInv ==
  /\ open \subseteq {"pool", "producer", "consumer"}
  /\ pc # "exited" => (consumer = "set" <=> "consumer" \in open)
  /\ pc = "start" /\ (\E i \in 1 .. step - 1 : Steps[service][i] = "session") => consumer = "set"
  /\ pc \in {"ready", "run"} => consumer = "set"

IInv == ProcessInv /\ ServerInv /\ CauseInv /\ ClientsInv
          /\ CleanExitOnlyOnSignal /\ EveryClientClosedOnce

-----------------------------------------------------------------------------
(* Every service opens a session, and after it listens, as the last step.  *)
LEMMA SessionBeforeEnd ==
  ASSUME ServicesAssumption, NEW kind \in Kinds
  PROVE  /\ Len(Steps[kind]) \in Nat
         /\ \E i \in 1 .. Len(Steps[kind]) - 1 : Steps[kind][i] = "session"
         /\ \A i \in 1 .. Len(Steps[kind]) - 1 : Steps[kind][i] # "listen"
<1>1. kind \in {"asyncWorker", "classifierWorker", "resultWriter", "orchestrator"}
  BY DEF ServicesAssumption, Steps
<1>2. CASE kind \in {"asyncWorker", "classifierWorker"}
  <2>1. Steps[kind] = AsyncWorkerSteps
    BY <1>2 DEF Steps, AsyncWorkerSteps, ClassifierWorkerSteps
  <2>2. /\ Len(AsyncWorkerSteps) = 9 /\ AsyncWorkerSteps[8] = "session"
        /\ \A i \in 1 .. 8 : AsyncWorkerSteps[i] # "listen"
    BY DEF AsyncWorkerSteps
  <2> QED
    BY <2>1, <2>2
<1>3. CASE kind = "resultWriter"
  <2>1. Steps[kind] = ResultWriterSteps
    BY <1>3 DEF Steps
  <2>2. /\ Len(ResultWriterSteps) = 5 /\ ResultWriterSteps[4] = "session"
        /\ \A i \in 1 .. 4 : ResultWriterSteps[i] # "listen"
    BY DEF ResultWriterSteps
  <2> QED
    BY <2>1, <2>2
<1>4. CASE kind = "orchestrator"
  <2>1. Steps[kind] = OrchestratorSteps
    BY <1>4 DEF Steps
  <2>2. /\ Len(OrchestratorSteps) = 3 /\ OrchestratorSteps[1] = "session"
        /\ \A i \in 1 .. 2 : OrchestratorSteps[i] # "listen"
    BY DEF OrchestratorSteps
  <2> QED
    BY <2>1, <2>2
<1> QED
  BY <1>1, <1>2, <1>3, <1>4

(* What a worker does besides leaves its process alone. *)
Alone == UNCHANGED process

LEMMA StepsOfProcess ==
  Next => \/ Start \/ Fail \/ SetReady \/ SessionEnds \/ Stop \/ Shutdown \/ Exit
          \/ ServeCancelsRun \/ ServeCloses \/ ServeFails \/ Signal \/ RunReturns
          \/ Alone
<1>1. Handle \/ Store \/ Reload \/ Done => Alone
  BY DEF Handle, Prepare, Refuse, Answer, Publish, Store, Reload, Done, Alone, vars, serviceVars
<1>2. Proceed \/ GateRefuses \/ Process \/ Goroutine \/ Outside \/ RunnerReturns =>
        \/ Start \/ Fail \/ SetReady \/ SessionEnds \/ Stop \/ Shutdown \/ Exit
        \/ ServeCancelsRun \/ ServeCloses \/ ServeFails \/ Signal \/ RunReturns
  BY DEF Proceed, GateRefuses, Process, StartFails, Main, Goroutine, Server, Outside, RunnerReturns
<1> QED
  BY <1>1, <1>2 DEF Next

LEMMA InitInv == ServicesAssumption /\ Init => IInv
<1> SUFFICES ASSUME ServicesAssumption, Init PROVE IInv
  OBVIOUS
<1>1. Len(Steps[service]) \in Nat /\ 1 \in 1 .. Len(Steps[service])
  BY SessionBeforeEnd DEF Init, InitService
<1> QED
  BY <1>1 DEF Init, InitService, IInv, ProcessInv, ServerInv, CauseInv, ClientsInv,
              CleanExitOnlyOnSignal, EveryClientClosedOnce

-----------------------------------------------------------------------------
LEMMA StartInv == ServicesAssumption /\ IInv /\ Start => IInv'
<1> SUFFICES ASSUME ServicesAssumption, IInv, Start PROVE IInv'
  OBVIOUS
<1>1. PICK last \in 1 .. Len(Steps[service]) - 1 : Steps[service][last] = "session"
  BY SessionBeforeEnd DEF IInv, ProcessInv
<1>2. /\ Len(Steps[service]) \in Nat /\ step \in 1 .. Len(Steps[service])
      /\ \A i \in 1 .. Len(Steps[service]) - 1 : Steps[service][i] # "listen"
  BY SessionBeforeEnd DEF IInv, ProcessInv
<1>3. /\ pc = "start" /\ service' = service
      /\ UNCHANGED <<runnerErr, shutdownErr, exit, signalled, cancelled, serveErrors, closedTwice>>
      /\ open' = open \cup Opens
      /\ consumer' = IF Step = "session" THEN "set" ELSE consumer
      /\ server' = IF Step = "listen" THEN "running" ELSE server
      /\ \/ step < Len(Steps[service]) /\ step' = step + 1 /\ pc' = "start"
         \/ step = Len(Steps[service]) /\ step' = step /\ pc' = "ready"
  BY <1>2 DEF Start, errors, contexts
<1>4. ProcessInv'
  BY <1>2, <1>3 DEF IInv, ProcessInv
<1>5. /\ Opens \subseteq {"pool", "producer", "consumer"}
      /\ "consumer" \in Opens <=> Step = "session"
  <2>1. CASE Step = "database"
    BY <2>1 DEF Opens
  <2>2. CASE Step = "producer"
    BY <2>2 DEF Opens
  <2>3. CASE Step = "session"
    BY <2>3 DEF Opens
  <2>4. CASE Step \notin {"database", "producer", "session"}
    BY <2>4 DEF Opens
  <2> QED
    BY <2>1, <2>2, <2>3, <2>4
<1>6. ClientsInv'
  <2>1. consumer' = "set" <=> "consumer" \in open'
    BY <1>3, <1>5 DEF IInv, ClientsInv
  <2>2. \A i \in 1 .. step : Steps[service][i] = "session" => consumer' = "set"
    BY <1>2, <1>3 DEF IInv, ClientsInv, Step
  <2> QED
    BY <1>1, <1>2, <1>3, <1>5, <2>1, <2>2 DEF IInv, ClientsInv
<1>7. ServerInv'
  BY <1>2, <1>3 DEF IInv, ServerInv, Step
<1>8. CauseInv'
  BY <1>3 DEF IInv, CauseInv
<1>9. exit' \notin {"nil", "error"} /\ closedTwice' = FALSE
  BY <1>3 DEF IInv, ProcessInv, EveryClientClosedOnce
<1> QED
  BY <1>4, <1>6, <1>7, <1>8, <1>9 DEF IInv, CleanExitOnlyOnSignal, EveryClientClosedOnce

(* The deferred calls close what is open, and nothing else. *)
LEMMA DeferredIsOpen == ClientsInv /\ pc # "exited" => Deferred = open
  BY DEF ClientsInv, Deferred

LEMMA FailInv == IInv /\ Fail => IInv'
<1> SUFFICES ASSUME IInv, Fail PROVE IInv'
  OBVIOUS
<1>1. Deferred = open /\ pc = "start"
  BY DeferredIsOpen DEF IInv, Fail
<1>2. open' = {} /\ closedTwice' = FALSE
  BY <1>1 DEF Fail, Close, IInv, EveryClientClosedOnce
<1> QED
  BY <1>1, <1>2 DEF Fail, IInv, ProcessInv, ServerInv, CauseInv, ClientsInv, position, contexts,
                    management, CleanExitOnlyOnSignal, EveryClientClosedOnce

LEMMA ExitInv == IInv /\ Exit => IInv'
<1> SUFFICES ASSUME IInv, Exit PROVE IInv'
  OBVIOUS
<1>1. Deferred = open /\ pc = "read" /\ pc' = "exited"
  BY DeferredIsOpen DEF IInv, Exit
<1>2. open' = {} /\ closedTwice' = FALSE
  BY <1>1 DEF Exit, Close, IInv, EveryClientClosedOnce
<1>3. /\ exit' = IF "error" \in {runnerErr, serveErrors, shutdownErr} THEN "error" ELSE "nil"
      /\ serveErrors # "empty"
      /\ UNCHANGED <<service, step, runnerErr, signalled, cancelled, server, serveErrors, consumer>>
  BY DEF Exit, position, contexts, management
<1>4. CleanExitOnlyOnSignal'
  BY <1>1, <1>3 DEF IInv, ServerInv, CauseInv, CleanExitOnlyOnSignal
<1>5. ProcessInv'
  BY <1>1, <1>3 DEF IInv, ProcessInv
<1> QED
  BY <1>1, <1>2, <1>3, <1>4, <1>5
     DEF IInv, ServerInv, CauseInv, ClientsInv, EveryClientClosedOnce

LEMMA SessionsInv == IInv /\ (SetReady \/ RunReturns \/ SessionEnds) => IInv'
<1> SUFFICES ASSUME IInv PROVE SetReady \/ RunReturns \/ SessionEnds => IInv'
  OBVIOUS
<1> USE DEF IInv, ProcessInv, ServerInv, CauseInv, ClientsInv, CleanExitOnlyOnSignal,
            EveryClientClosedOnce, position, errors, contexts, management, clients
<1>1. SetReady => IInv'
  BY DEF SetReady
<1>2. ASSUME RunReturns PROVE IInv'
  <2>1. pc = "run" /\ pc' = "returned" /\ "consumer" \in open /\ ~closedTwice
    BY <1>2 DEF RunReturns
  <2>2. ~closedTwice' /\ open' \subseteq open
    BY <1>2, <2>1 DEF RunReturns, CloseConsumer, Close
  <2>3. consumer' = "set" <=> "consumer" \in open'
    BY <1>2, <2>1 DEF RunReturns, CloseConsumer, Close
  <2>4. /\ runnerErr' = "nil" => cancelled
        /\ UNCHANGED <<service, step, shutdownErr, exit, signalled, cancelled, server, serveErrors>>
    BY <1>2 DEF RunReturns
  <2>5. ProcessInv' /\ ServerInv'
    BY <2>1, <2>4
  <2>6. CauseInv' /\ CleanExitOnlyOnSignal'
    BY <1>2, <2>1, <2>4 DEF RunReturns
  <2>7. ClientsInv'
    BY <2>1, <2>2, <2>3
  <2>8. EveryClientClosedOnce'
    BY <2>1, <2>2, <2>4
  <2> QED
    BY <2>5, <2>6, <2>7, <2>8
<1>3. ASSUME SessionEnds PROVE IInv'
  <2>1. /\ pc = "returned" /\ UNCHANGED <<service, step, shutdownErr, exit>>
        /\ UNCHANGED <<signalled, cancelled, server, serveErrors, closedTwice>>
    BY <1>3 DEF SessionEnds
  <2>2. \/ /\ ~cancelled /\ pc' = "run" /\ runnerErr' = "nil"
           /\ consumer' = "set" /\ open' = open \cup {"consumer"}
        \/ pc' = "stop" /\ runnerErr' = "error" /\ UNCHANGED <<consumer, open>>
        \/ pc' = "stop" /\ runnerErr' = "nil" /\ cancelled /\ UNCHANGED <<consumer, open>>
        \/ pc' = "stop" /\ runnerErr' = runnerErr /\ runnerErr # "yielded" /\ UNCHANGED <<consumer, open>>
    BY <1>3 DEF SessionEnds
  <2>3. runnerErr \in {"nil", "error", "yielded"}
    BY <2>1
  <2>4. ProcessInv' /\ ServerInv'
    BY <2>1, <2>2
  <2>5. CauseInv'
    BY <2>1, <2>2, <2>3
  <2>6. ClientsInv'
    BY <2>1, <2>2
  <2> QED
    BY <2>1, <2>4, <2>5, <2>6
<1> QED
  BY <1>1, <1>2, <1>3

LEMMA OthersInv ==
  IInv /\ (Stop \/ Shutdown \/ ServeCancelsRun \/ ServeCloses \/ ServeFails \/ Signal) => IInv'
<1> SUFFICES ASSUME IInv
             PROVE  Stop \/ Shutdown \/ ServeCancelsRun \/ ServeCloses \/ ServeFails \/ Signal => IInv'
  OBVIOUS
<1> USE DEF IInv, ProcessInv, ServerInv, CauseInv, ClientsInv, CleanExitOnlyOnSignal,
            EveryClientClosedOnce, position, errors, contexts, management, clients
<1>1. Stop => IInv'
  BY DEF Stop
<1>2. Shutdown => IInv'
  BY DEF Shutdown
<1>3. ServeCancelsRun => IInv'
  BY DEF ServeCancelsRun
<1>4. ServeCloses => IInv'
  BY DEF ServeCloses
<1>5. ServeFails => IInv'
  BY DEF ServeFails
<1>6. Signal => IInv'
  BY DEF Signal
<1> QED
  BY <1>1, <1>2, <1>3, <1>4, <1>5, <1>6

LEMMA StepInv == ServicesAssumption /\ IInv /\ [Next]_vars => IInv'
<1>1. IInv /\ Alone => IInv'
  BY DEF Alone, process, position, errors, contexts, management, clients, IInv, ProcessInv,
         ServerInv, CauseInv, ClientsInv, CleanExitOnlyOnSignal, EveryClientClosedOnce
<1>2. UNCHANGED vars => Alone
  BY DEF vars, serviceVars, Alone
<1> QED
  BY <1>1, <1>2, StepsOfProcess, StartInv, FailInv, ExitInv, SessionsInv, OthersInv

-----------------------------------------------------------------------------
THEOREM Invariant == Spec => []IInv
  BY InitInv, StepInv, ServicesAssumption, PTL DEF Spec

(* A process that ends without an error was told to stop, its sessions     *)
(* ended without one, and its management server was closed and not lost.   *)
THEOREM CleanExit == Spec => []CleanExitOnlyOnSignal
<1>1. IInv => CleanExitOnlyOnSignal
  BY DEF IInv
<1> QED
  BY <1>1, Invariant, PTL

(* However many sessions there were, and wherever the start or a session   *)
(* failed, run leaves no client open and closes none twice.                *)
THEOREM ClosedOnce == Spec => []EveryClientClosedOnce
<1>1. IInv => EveryClientClosedOnce
  BY DEF IInv
<1> QED
  BY <1>1, Invariant, PTL

-----------------------------------------------------------------------------
(*            Recursive functions: they exist and meet their equation      *)

(* A non-empty set of naturals has a least element. *)
LEMMA LeastNatural ==
  ASSUME NEW S \in SUBSET Nat, S # {}
  PROVE  \E n \in S : \A m \in S : n <= m
<1> DEFINE Below == {ss \in Nat \X Nat : ss[1] < ss[2]}
<1>1. IsWellFoundedOn(Below, Nat)
  BY NatLessThanWellFounded, Zenon DEF OpToRel
<1> HIDE DEF Below
<1>2. PICK n \in S : \A m \in S : <<m, n>> \notin Below
  BY <1>1, WFMin, Zenon
<1>3. \A m \in S : ~(m < n)
  BY <1>2 DEF Below
<1> QED
  BY <1>3

(* f starts at base and goes on as advance says. *)
IsRun(f, D, n, base, advance) ==
  f \in [0 .. n -> D] /\ f[0] = base /\ \A i \in 1 .. n : f[i] = advance[i][f[i - 1]]

(* Whatever it starts at and goes on with, there is one. *)
LEMMA RunsExist ==
  ASSUME NEW D, NEW n \in Nat, NEW base \in D, NEW advance \in [1 .. n -> [D -> D]]
  PROVE  \E f : IsRun(f, D, n, base, advance)
<1> DEFINE Good(m) == \E f : IsRun(f, D, m, base, advance)
           Bad == {m \in 0 .. n : ~Good(m)}
<1> SUFFICES ASSUME ~Good(n) PROVE FALSE
  OBVIOUS
<1>1. Bad \in SUBSET Nat /\ n \in Bad
  OBVIOUS
<1>2. PICK m \in Bad : \A x \in Bad : m <= x
  <2> HIDE DEF Bad
  <2> QED BY <1>1, LeastNatural
<1>3. m # 0
  <2> DEFINE b == [i \in 0 .. 0 |-> base]
  <2>1. IsRun(b, D, 0, base, advance)
    BY DEF IsRun
  <2> HIDE DEF b
  <2>2. Good(0)
    BY <2>1
  <2> HIDE DEF Good
  <2> QED BY <2>2
<1>4. Good(m - 1) /\ m - 1 \in Nat /\ m \in 1 .. n
  <2> HIDE DEF Good
  <2>1. m \in 1 .. n /\ ~(m <= m - 1) /\ m - 1 \in 0 .. n
    BY <1>3
  <2> QED BY <1>2, <2>1
<1>5. PICK g : IsRun(g, D, m - 1, base, advance)
  BY <1>4
<1> DEFINE f == [i \in 0 .. m |-> IF i = m THEN advance[m][g[m - 1]] ELSE g[i]]
<1>6. f \in [0 .. m -> D] /\ f[0] = base
  BY <1>4, <1>5 DEF IsRun
<1>7. ASSUME NEW i \in 1 .. m PROVE f[i] = advance[i][f[i - 1]]
  BY <1>4, <1>5 DEF IsRun
<1> HIDE DEF f
<1>8. Good(m)
  BY <1>6, <1>7 DEF IsRun
<1> QED BY <1>2, <1>8

-----------------------------------------------------------------------------
(*                                The body                                 *)

(* Where the data of a tensor end. *)
LEMMA EndFacts ==
  ASSUME NEW header, Len(header) \in Nat, \A k \in 1 .. Len(header) : header[k].size \in Nat
  PROVE  /\ End(header, 0) = 0
         /\ \A k \in 1 .. Len(header) : End(header, k) = End(header, k - 1) + header[k].size
         /\ \A k \in 0 .. Len(header) : End(header, k) \in Nat
<1> DEFINE n == Len(header)
           advance == [k \in 1 .. n |-> [x \in Nat |-> x + header[k].size]]
<1>1. advance \in [1 .. n -> [Nat -> Nat]] /\ n \in Nat /\ 0 \in Nat
  OBVIOUS
<1>2. PICK f : IsRun(f, Nat, n, 0, advance)
  <2> HIDE DEF advance, n
  <2> QED BY ONLY <1>1, RunsExist
<1>3. \A k \in 1 .. n : f[k] = f[k - 1] + header[k].size /\ f[k - 1] \in Nat
  <2> SUFFICES ASSUME NEW k \in 1 .. n
               PROVE  f[k] = f[k - 1] + header[k].size /\ f[k - 1] \in Nat
    OBVIOUS
  <2>1. f[k - 1] \in Nat
    BY <1>2 DEF IsRun
  <2>2. f[k] = advance[k][f[k - 1]]
    BY <1>2 DEF IsRun
  <2> QED BY <2>1, <2>2
<1> DEFINE e == CHOOSE g : g = [k \in 0 .. n |-> IF k = 0 THEN 0 ELSE g[k - 1] + header[k].size]
<1>4. f = [k \in 0 .. n |-> IF k = 0 THEN 0 ELSE f[k - 1] + header[k].size]
  <2> HIDE DEF advance
  <2> QED BY <1>2, <1>3 DEF IsRun
<1>5. e = [k \in 0 .. n |-> IF k = 0 THEN 0 ELSE e[k - 1] + header[k].size]
  BY <1>4
<1>6. \A i : End(header, i) = e[i]
  BY DEF End
<1> HIDE DEF e
<1>7. \A k \in 0 .. n : e[k] = IF k = 0 THEN 0 ELSE e[k - 1] + header[k].size
  BY <1>5
<1>8. \A k \in 0 .. n : e[k] \in Nat
  <2> DEFINE Bad == {k \in 0 .. n : e[k] \notin Nat}
  <2> SUFFICES ASSUME NEW k \in Bad PROVE FALSE
    OBVIOUS
  <2>1. Bad \in SUBSET Nat /\ Bad # {}
    OBVIOUS
  <2>2. PICK m \in Bad : \A x \in Bad : m <= x
    <3> HIDE DEF Bad
    <3> QED BY <2>1, LeastNatural
  <2>3. m \in 1 .. n /\ m - 1 \in 0 .. n /\ ~(m <= m - 1)
    BY <1>7
  <2>4. e[m - 1] \in Nat
    BY <2>2, <2>3
  <2>5. header[m].size \in Nat /\ e[m] = e[m - 1] + header[m].size
    BY <1>7, <2>3
  <2> QED BY <2>4, <2>5
<1>9. End(header, 0) = 0
  <2>1. End(header, 0) = e[0]
    BY <1>6
  <2> QED BY <2>1, <1>7
<1>10. ASSUME NEW k \in 1 .. n PROVE End(header, k) = End(header, k - 1) + header[k].size
  <2>1. End(header, k) = e[k] /\ End(header, k - 1) = e[k - 1]
    BY <1>6
  <2> QED BY <2>1, <1>7
<1>11. ASSUME NEW k \in 0 .. n PROVE End(header, k) \in Nat
  BY <1>6, <1>8
<1> QED BY <1>9, <1>10, <1>11

(* u is s and after it t. *)
Continues(u, s, t) ==
  /\ Len(u) = Len(s) + Len(t)
  /\ \A j \in 1 .. Len(s) : u[j] = s[j]
  /\ \A j \in 1 .. Len(t) : u[Len(s) + j] = t[j]

(* One sequence and after it another. *)
LEMMA Concatenation ==
  ASSUME NEW V, NEW s \in Seq(V), NEW t \in Seq(V)
  PROVE  s \o t \in Seq(V) /\ Continues(s \o t, s, t)
<1>1. /\ s \o t \in Seq(V) /\ Len(s) \in Nat /\ Len(t) \in Nat
      /\ Len(s \o t) = Len(s) + Len(t)
  OBVIOUS
<1>2. ASSUME NEW j \in 1 .. Len(s) PROVE (s \o t)[j] = s[j]
  BY <1>1
<1>3. ASSUME NEW j \in 1 .. Len(t) PROVE (s \o t)[Len(s) + j] = t[j]
  <2>1. Len(s) + j \in Len(s) + 1 .. Len(s) + Len(t) /\ (Len(s) + j) - Len(s) = j
    BY <1>1
  <2> QED BY <1>1, <2>1
<1> QED BY <1>1, <1>2, <1>3 DEF Continues

(* e holds where each of the data ends, the 0-th at 0. *)
Ends(e, data, n) ==
  e \in [0 .. n -> Nat] /\ e[0] = 0 /\ \A k \in 1 .. n : e[k] = e[k - 1] + Len(data[k])

(* The data lie in the body one after the other. *)
Filled(body, data, e, n) ==
  /\ Len(body) = e[n]
  /\ \A i \in 1 .. n : /\ e[i] <= e[n]
                       /\ \A j \in 1 .. Len(data[i]) : body[e[i - 1] + j] = data[i][j]

(* FlattenSeq puts the data one after the other. *)
LEMMA FlattenFacts ==
  ASSUME NEW n \in Nat \ {0}, NEW V, NEW data \in [1 .. n -> Seq(V)], Len(data) = n,
         NEW e, Ends(e, data, n)
  PROVE  FlattenSeq(data) \in Seq(V) /\ Filled(FlattenSeq(data), data, e, n)
<1> USE DEF Ends
<1> DEFINE advance == [k \in 1 .. n |-> [x \in Seq(V) |-> IF k = 1 THEN data[1] ELSE x \o data[k]]]
<1>1. advance \in [1 .. n -> [Seq(V) -> Seq(V)]] /\ n \in Nat /\ << >> \in Seq(V)
  <2>1. ASSUME NEW k \in 1 .. n, NEW x \in Seq(V)
        PROVE  (IF k = 1 THEN data[1] ELSE x \o data[k]) \in Seq(V)
    <3>1. data[1] \in Seq(V) /\ data[k] \in Seq(V)
      OBVIOUS
    <3> QED BY <3>1
  <2> QED BY <2>1
<1>2. PICK h : IsRun(h, Seq(V), n, << >>, advance)
  <2> HIDE DEF advance
  <2> QED BY ONLY <1>1, RunsExist
<1> DEFINE w == [i \in 1 .. n |-> h[i]]
<1>3. w = [i \in 1 .. n |-> IF i = 1 THEN data[i] ELSE w[i - 1] \o data[i]]
  <2> SUFFICES ASSUME NEW i \in 1 .. n
               PROVE  h[i] = IF i = 1 THEN data[i] ELSE w[i - 1] \o data[i]
    OBVIOUS
  <2>1. h[i] = advance[i][h[i - 1]] /\ h[i - 1] \in Seq(V)
    <3>1. i - 1 \in 0 .. n
      OBVIOUS
    <3> HIDE DEF advance
    <3> QED BY <1>2, <3>1, Zenon DEF IsRun
  <2>2. i # 1 => w[i - 1] = h[i - 1]
    OBVIOUS
  <2>3. advance[i][h[i - 1]] = IF i = 1 THEN data[1] ELSE h[i - 1] \o data[i]
    BY <2>1
  <2> QED BY <2>1, <2>2, <2>3
<1> DEFINE f == CHOOSE g : g = [i \in 1 .. n |-> IF i = 1 THEN data[i] ELSE g[i - 1] \o data[i]]
<1>4. f = [i \in 1 .. n |-> IF i = 1 THEN data[i] ELSE f[i - 1] \o data[i]]
  <2> HIDE DEF w
  <2> QED BY <1>3
<1>5. FlattenSeq(data) = f[n]
  BY DEF FlattenSeq
<1> HIDE DEF f
<1>6. \A i \in 1 .. n : f[i] = IF i = 1 THEN data[i] ELSE f[i - 1] \o data[i]
  BY <1>4
<1> DEFINE Good(m) ==
             /\ f[m] \in Seq(V)
             /\ Len(f[m]) = e[m]
             /\ \A i \in 1 .. m : /\ e[i] <= e[m]
                                  /\ \A j \in 1 .. Len(data[i]) : f[m][e[i - 1] + j] = data[i][j]
           Bad == {m \in 1 .. n : ~Good(m)}
<1>7. Good(1)
  <2>1. f[1] = data[1] /\ data[1] \in Seq(V)
    BY <1>6
  <2>2. Len(data[1]) \in Nat
    BY <2>1
  <2>3. e[1] = Len(data[1])
    <3>1. 1 \in 1 .. n /\ 1 - 1 = 0
      OBVIOUS
    <3>2. e[1] = e[1 - 1] + Len(data[1])
      BY <3>1
    <3> QED BY <2>2, <3>1, <3>2
  <2>4. ASSUME NEW j \in 1 .. Len(data[1]) PROVE f[1][e[0] + j] = data[1][j]
    <3>1. e[0] + j = j
      BY <2>2
    <3> QED BY <2>1, <3>1
  <2>5. \A i \in 1 .. 1 : i = 1 /\ i - 1 = 0
    OBVIOUS
  <2> QED BY <2>1, <2>2, <2>3, <2>4, <2>5
<1>8. ASSUME NEW m \in 2 .. n, Good(m - 1) PROVE Good(m)
  <2>1. /\ m \in 1 .. n /\ m - 1 \in 1 .. n /\ m # 1
        /\ m \in 0 .. n /\ m - 1 \in 0 .. n
        /\ \A i \in 1 .. m : /\ i \in 1 .. n /\ i \in 0 .. n /\ i - 1 \in 0 .. n
                             /\ i = m \/ i \in 1 .. m - 1
    OBVIOUS
  <2>2. f[m] = f[m - 1] \o data[m]
    BY <1>6, <2>1
  <2>3. data[m] \in Seq(V) /\ f[m - 1] \in Seq(V) /\ Len(f[m - 1]) = e[m - 1]
    BY <1>8, <2>1
  <2>4. /\ f[m] \in Seq(V) /\ Len(data[m]) \in Nat
        /\ Len(f[m]) = e[m - 1] + Len(data[m])
        /\ \A j \in 1 .. e[m - 1] : f[m][j] = f[m - 1][j]
        /\ \A j \in 1 .. Len(data[m]) : f[m][e[m - 1] + j] = data[m][j]
    <3>1. Len(data[m]) \in Nat
      BY <2>3
    <3>2. f[m] \in Seq(V) /\ Continues(f[m], f[m - 1], data[m])
      BY ONLY <2>2, <2>3, Concatenation
    <3> QED BY ONLY <2>3, <3>1, <3>2, Zenon DEF Continues
  <2>5. /\ e[m] = e[m - 1] + Len(data[m])
        /\ \A i \in 0 .. n : e[i] \in Nat
    BY <2>1
  <2>6. ASSUME NEW i \in 1 .. m, NEW j \in 1 .. Len(data[i])
        PROVE  f[m][e[i - 1] + j] = data[i][j]
    <3>1. CASE i = m
      BY <2>4, <3>1
    <3>2. CASE i \in 1 .. m - 1
      <4>1. f[m - 1][e[i - 1] + j] = data[i][j] /\ e[i] <= e[m - 1]
        BY <1>8, <3>2
      <4>2. e[i] = e[i - 1] + Len(data[i]) /\ e[i] \in Nat /\ e[i - 1] \in Nat /\ e[m - 1] \in Nat
        <5>1. i \in 1 .. n /\ i \in 0 .. n /\ i - 1 \in 0 .. n /\ m - 1 \in 0 .. n
          BY <2>1
        <5> QED BY <2>5, <5>1
      <4>3. data[i] \in Seq(V)
        BY <2>1
      <4>4. Len(data[i]) \in Nat
        BY <4>3
      <4>5. e[i - 1] + j \in 1 .. e[m - 1]
        BY ONLY <4>1, <4>2, <4>4, j \in 1 .. Len(data[i])
      <4> QED BY <2>4, <4>1, <4>5
    <3> QED BY <2>1, <3>1, <3>2
  <2>7. ASSUME NEW i \in 1 .. m PROVE e[i] <= e[m]
    <3>1. e[i] \in Nat /\ e[m] \in Nat /\ e[m - 1] \in Nat
      <4>1. i \in 0 .. n /\ m \in 0 .. n /\ m - 1 \in 0 .. n
        BY <2>1
      <4> QED BY <2>5, <4>1
    <3>2. CASE i = m
      BY <3>1, <3>2
    <3>3. CASE i \in 1 .. m - 1
      <4>1. e[i] <= e[m - 1]
        BY <1>8, <3>3
      <4>2. e[m] = e[m - 1] + Len(data[m]) /\ Len(data[m]) \in Nat
        BY <2>4, <2>5
      <4> QED BY ONLY <3>1, <4>1, <4>2
    <3> QED BY <2>1, <3>2, <3>3
  <2>8. Len(f[m]) = e[m]
    BY <2>4, <2>5
  <2> QED BY <2>4, <2>6, <2>7, <2>8
<1>9. Good(n)
  <2> HIDE DEF Good
  <2> SUFFICES ASSUME ~Good(n) PROVE FALSE
    OBVIOUS
  <2>1. n \in 1 .. n /\ 1 .. n \subseteq Nat
    OBVIOUS
  <2>2. Bad \in SUBSET Nat /\ Bad # {}
    BY <2>1
  <2>3. PICK m \in Bad : \A x \in Bad : m <= x
    <3> HIDE DEF Bad
    <3> QED BY <2>2, LeastNatural
  <2>4. m \in 1 .. n /\ ~Good(m)
    OBVIOUS
  <2>5. m \in 2 .. n /\ m - 1 \in 1 .. n /\ ~(m <= m - 1)
    BY <1>7, <2>4
  <2>6. Good(m - 1)
    BY <2>3, <2>5
  <2> QED BY <1>8, <2>4, <2>5, <2>6
<1> QED BY <1>5, <1>9 DEF Filled

(* Where one sequence lies in another, SubSeq finds it. *)
LEMMA SubSequence ==
  ASSUME NEW V, NEW s \in Seq(V), NEW t \in Seq(V), NEW a \in Nat, a + Len(t) <= Len(s),
         \A j \in 1 .. Len(t) : s[a + j] = t[j]
  PROVE  SubSeq(s, a + 1, a + Len(t)) = t
<1>1. Len(t) \in Nat /\ Len(s) \in Nat /\ t = [j \in 1 .. Len(t) |-> t[j]]
  OBVIOUS
<1>2. PICK m \in Int, n \in Int : m = a + 1 /\ n = a + Len(t)
  BY <1>1
<1>3. SubSeq(s, m, n) = [j \in 1 .. n - m + 1 |-> s[m + j - 1]]
  BY ONLY s \in Seq(V), m \in Int, n \in Int
<1>4. n - m + 1 = Len(t)
  BY <1>1, <1>2
<1>5. ASSUME NEW j \in Int PROVE m + j - 1 = a + j
  BY <1>2
<1>6. SubSeq(s, m, n) = [j \in 1 .. Len(t) |-> t[j]]
  <2>1. PICK k \in Nat : k = Len(t)
    BY <1>1
  <2>2. \A j \in 1 .. k : s[m + j - 1] = t[j]
    <3>1. \A j \in 1 .. k : j \in Int /\ s[a + j] = t[j]
      BY <2>1
    <3> QED BY ONLY <1>5, <3>1
  <2>3. [j \in 1 .. k |-> s[m + j - 1]] = [j \in 1 .. k |-> t[j]]
    BY ONLY <2>2
  <2> QED BY ONLY <1>3, <1>4, <2>1, <2>3
<1> QED BY ONLY <1>1, <1>2, <1>6, Zenon

(* The message lists n tensors with these data. *)
Frames(message, data, n) ==
  /\ DOMAIN message.header = 1 .. n /\ Len(message.header) = n
  /\ \A i \in 1 .. n : message.header[i].size = Len(data[i])
  /\ message.body = FlattenSeq(data)

(* It is split into these data, and nothing is left over. *)
SplitsInto(message, data, n) ==
  /\ End(message.header, 0) = 0
  /\ \A i \in 1 .. n : End(message.header, i) = End(message.header, i - 1) + Len(data[i])
  /\ End(message.header, n) = Len(message.body)
  /\ \A i \in 1 .. n : Split(message)[i].data = data[i]

(* Whoever splits a message finds what was framed. *)
LEMMA SplitFacts ==
  ASSUME NEW n \in Nat \ {0}, NEW V, NEW data \in [1 .. n -> Seq(V)], NEW message,
         Frames(message, data, n)
  PROVE  message.body \in Seq(V) /\ SplitsInto(message, data, n)
<1> USE DEF Frames
<1> DEFINE header == message.header
           e == [k \in 0 .. n |-> End(header, k)]
<1>1. \A k \in 1 .. n : Len(data[k]) \in Nat /\ data[k] \in Seq(V)
  OBVIOUS
<1>2. /\ End(header, 0) = 0
      /\ \A k \in 1 .. n : End(header, k) = End(header, k - 1) + header[k].size
      /\ \A k \in 0 .. n : End(header, k) \in Nat
  BY <1>1, EndFacts
<1>3. Ends(e, data, n)
  <2>1. e \in [0 .. n -> Nat] /\ e[0] = 0
    BY <1>2
  <2>2. ASSUME NEW k \in 1 .. n PROVE e[k] = e[k - 1] + Len(data[k])
    <3>1. k \in 0 .. n /\ k - 1 \in 0 .. n
      OBVIOUS
    <3>2. e[k] = End(header, k) /\ e[k - 1] = End(header, k - 1)
      BY <3>1
    <3> QED BY <1>2, <3>2
  <2> QED BY <2>1, <2>2 DEF Ends
<1>4. Len(data) = n
  OBVIOUS
<1>5. /\ message.body \in Seq(V)
      /\ Filled(message.body, data, e, n)
  <2> HIDE DEF e
  <2> QED BY ONLY <1>3, <1>4, FlattenFacts, n \in Nat \ {0}, data \in [1 .. n -> Seq(V)],
             message.body = FlattenSeq(data)
<1>6. ASSUME NEW i \in 1 .. n PROVE Split(message)[i].data = data[i]
  <2>1. Split(message)[i].data = SubSeq(message.body, e[i - 1] + 1, e[i])
    <3>1. i \in 0 .. n /\ i - 1 \in 0 .. n
      OBVIOUS
    <3> QED BY <3>1 DEF Split
  <2>2. /\ e[i] = e[i - 1] + Len(data[i]) /\ e[i - 1] \in Nat /\ e[i] <= Len(message.body)
        /\ \A j \in 1 .. Len(data[i]) : message.body[e[i - 1] + j] = data[i][j]
    <3>1. i - 1 \in 0 .. n
      OBVIOUS
    <3> HIDE DEF e
    <3> QED BY <1>3, <1>5, <3>1 DEF Ends, Filled
  <2> DEFINE body == message.body
             t == data[i]
             a == e[i - 1]
  <2>3. body \in Seq(V) /\ t \in Seq(V) /\ a \in Nat /\ a + Len(t) <= Len(body)
    BY <1>1, <1>5, <2>2
  <2> HIDE DEF e, body, t, a
  <2>4. \A j \in 1 .. Len(t) : body[a + j] = t[j]
    BY <2>2 DEF body, t, a
  <2>5. SubSeq(body, a + 1, a + Len(t)) = t
    BY ONLY <2>3, <2>4, SubSequence
  <2> QED BY <2>1, <2>2, <2>5 DEF body, t, a
<1>7. /\ End(message.header, n) = Len(message.body)
      /\ \A i \in 1 .. n : End(message.header, i) = End(message.header, i - 1) + Len(data[i])
  <2>1. e[n] = End(header, n)
    OBVIOUS
  <2>2. Len(message.body) = e[n]
    <3> HIDE DEF e
    <3> QED BY <1>5 DEF Filled
  <2> HIDE DEF e
  <2> QED BY <1>2, <2>1, <2>2
<1> HIDE DEF e
<1> QED BY <1>2, <1>5, <1>6, <1>7 DEF SplitsInto

-----------------------------------------------------------------------------
(*                              The greatest class                         *)

(* The loop of firstMaximumIndex finds the greatest, and the first of them.*)
LEMMA FirstMaximumFacts ==
  ASSUME NEW n \in Nat \ {0}, NEW v \in [1 .. n -> Int], Len(v) = n
  PROVE  /\ FirstMaximumIndex(v) \in 1 .. n
         /\ \A j \in 1 .. n : v[j] <= v[FirstMaximumIndex(v)]
         /\ \A j \in 1 .. FirstMaximumIndex(v) - 1 : v[j] < v[FirstMaximumIndex(v)]
<1> DEFINE D == 1 .. n
           advance == [i \in 1 .. n |-> [x \in D |-> IF i = 1 THEN 1 ELSE IF v[i] > v[x] THEN i ELSE x]]
<1>1. advance \in [1 .. n -> [D -> D]] /\ n \in Nat /\ 1 \in D
  OBVIOUS
<1>2. PICK h : IsRun(h, D, n, 1, advance)
  <2> HIDE DEF advance, D
  <2> QED BY ONLY <1>1, RunsExist
<1> DEFINE w == [i \in 1 .. n |-> h[i]]
<1>3. w = [i \in 1 .. n |-> IF i = 1 THEN 1 ELSE IF v[i] > v[w[i - 1]] THEN i ELSE w[i - 1]]
  <2> SUFFICES ASSUME NEW i \in 1 .. n
               PROVE  h[i] = IF i = 1 THEN 1 ELSE IF v[i] > v[w[i - 1]] THEN i ELSE w[i - 1]
    OBVIOUS
  <2>1. h[i] = advance[i][h[i - 1]] /\ h[i - 1] \in D
    <3>1. i - 1 \in 0 .. n
      OBVIOUS
    <3> HIDE DEF advance, D
    <3> QED BY <1>2, <3>1, Zenon DEF IsRun
  <2>2. i # 1 => w[i - 1] = h[i - 1]
    OBVIOUS
  <2> QED BY <2>1, <2>2
<1> DEFINE f == CHOOSE g : g = [i \in 1 .. n |-> IF i = 1 THEN 1
                                                ELSE IF v[i] > v[g[i - 1]] THEN i ELSE g[i - 1]]
<1>4. f = [i \in 1 .. n |-> IF i = 1 THEN 1 ELSE IF v[i] > v[f[i - 1]] THEN i ELSE f[i - 1]]
  <2> HIDE DEF w
  <2> QED BY <1>3
<1>5. FirstMaximumIndex(v) = f[n]
  BY DEF FirstMaximumIndex
<1> HIDE DEF f
<1>6. \A i \in 1 .. n : f[i] = IF i = 1 THEN 1 ELSE IF v[i] > v[f[i - 1]] THEN i ELSE f[i - 1]
  BY <1>4
<1> DEFINE Good(m) == /\ f[m] \in 1 .. m
                      /\ \A j \in 1 .. m : v[j] <= v[f[m]]
                      /\ \A j \in 1 .. f[m] - 1 : v[j] < v[f[m]]
           Bad == {m \in 1 .. n : ~Good(m)}
<1>7. Good(1)
  BY <1>6
<1>8. ASSUME NEW m \in 2 .. n, Good(m - 1) PROVE Good(m)
  <2>1. m \in 1 .. n /\ f[m] = IF v[m] > v[f[m - 1]] THEN m ELSE f[m - 1]
    BY <1>6
  <2>2. /\ f[m - 1] \in 1 .. m - 1 /\ f[m - 1] \in 1 .. n /\ v[f[m - 1]] \in Int
        /\ \A j \in 1 .. m : v[j] \in Int /\ (j = m \/ j \in 1 .. m - 1)
    BY <1>8
  <2>3. CASE v[m] > v[f[m - 1]]
    BY <1>8, <2>1, <2>2, <2>3
  <2>4. CASE ~(v[m] > v[f[m - 1]])
    BY <1>8, <2>1, <2>2, <2>4
  <2> QED BY <2>3, <2>4
<1>9. Good(n)
  <2> HIDE DEF Good
  <2> SUFFICES ASSUME ~Good(n) PROVE FALSE
    OBVIOUS
  <2>1. n \in 1 .. n /\ 1 .. n \subseteq Nat
    OBVIOUS
  <2>2. Bad \in SUBSET Nat /\ Bad # {}
    BY <2>1
  <2>3. PICK m \in Bad : \A x \in Bad : m <= x
    <3> HIDE DEF Bad
    <3> QED BY <2>2, LeastNatural
  <2>4. m \in 1 .. n /\ ~Good(m)
    OBVIOUS
  <2>5. m \in 2 .. n /\ m - 1 \in 1 .. n /\ ~(m <= m - 1)
    BY <1>7, <2>4
  <2>6. Good(m - 1)
    BY <2>3, <2>5
  <2> QED BY <1>8, <2>4, <2>5, <2>6
<1> QED BY <1>5, <1>9

-----------------------------------------------------------------------------
(*                            The order of the epochs                      *)

(* The order exists: each epoch goes to the place that has as many epochs  *)
(* up to it as there are before or at the epoch itself.                    *)
LEMMA OrderFacts ==
  ASSUME NEW n \in Nat, NEW epochs, DOMAIN epochs = 1 .. n, Len(epochs) = n,
         \A i \in 1 .. n : epochs[i].time \in Int
  PROVE  /\ Order(epochs) \in Bijection(1 .. n, 1 .. n)
         /\ \A i \in 2 .. n :
              epochs[Order(epochs)[i - 1]].time <= epochs[Order(epochs)[i]].time
<1> DEFINE time(i) == epochs[i].time
           Before(j, k) == time(j) < time(k) \/ (time(j) = time(k) /\ j <= k)
           Low(k) == {j \in 1 .. n : Before(j, k)}
           rank == [k \in 1 .. n |-> Cardinality(Low(k))]
<1>1. \A i \in 1 .. n : time(i) \in Int
  OBVIOUS
<1> HIDE DEF time
<1>2. /\ \A j \in 1 .. n : Before(j, j)
      /\ \A j, k \in 1 .. n : Before(j, k) \/ Before(k, j)
      /\ \A j, k \in 1 .. n : Before(j, k) /\ Before(k, j) => j = k
      /\ \A i, j, k \in 1 .. n : Before(i, j) /\ Before(j, k) => Before(i, k)
  BY <1>1
<1>3. \A j, k \in 1 .. n : Before(j, k) => time(j) <= time(k)
  BY <1>1
<1> HIDE DEF Before
<1>4. IsFiniteSet(1 .. n) /\ Cardinality(1 .. n) = n
  BY FS_Interval
<1>5. ASSUME NEW k \in 1 .. n PROVE IsFiniteSet(Low(k)) /\ Cardinality(Low(k)) \in 1 .. n
  <2>1. Low(k) \in SUBSET (1 .. n) /\ k \in Low(k)
    BY <1>2
  <2> HIDE DEF Low
  <2>2. IsFiniteSet(Low(k)) /\ Cardinality(Low(k)) <= n
    BY ONLY <1>4, <2>1, FS_Subset
  <2>3. Cardinality(Low(k)) \in Nat /\ Cardinality(Low(k)) # 0
    BY <2>1, <2>2, FS_CardinalityType, FS_EmptySet
  <2> QED BY <2>2, <2>3
<1>6. ASSUME NEW j \in 1 .. n, NEW k \in 1 .. n, Before(j, k), j # k
      PROVE  Cardinality(Low(j)) < Cardinality(Low(k))
  <2>1. Low(j) \in SUBSET Low(k)
    BY <1>2, <1>6
  <2>2. k \in Low(k) /\ k \notin Low(j)
    BY <1>2, <1>6
  <2> HIDE DEF Low
  <2>3. /\ Cardinality(Low(j)) <= Cardinality(Low(k))
        /\ Cardinality(Low(k)) = Cardinality(Low(j)) => Low(k) = Low(j)
    BY <1>5, <2>1, FS_Subset
  <2> QED BY <1>5, <2>2, <2>3
<1> HIDE DEF Low
<1>7. rank \in [1 .. n -> 1 .. n]
  BY <1>5
<1>8. \A j, k \in 1 .. n : rank[j] <= rank[k] => Before(j, k)
  <2> SUFFICES ASSUME NEW j \in 1 .. n, NEW k \in 1 .. n, rank[j] <= rank[k], ~Before(j, k)
               PROVE  FALSE
    OBVIOUS
  <2>1. Before(k, j) /\ j # k
    BY <1>2
  <2>2. rank[k] < rank[j] /\ rank[k] \in 1 .. n /\ rank[j] \in 1 .. n
    BY <1>5, <1>6, <2>1
  <2> QED BY <2>2
<1> HIDE DEF rank
<1>9. rank \in Injection(1 .. n, 1 .. n)
  <2>1. ASSUME NEW j \in 1 .. n, NEW k \in 1 .. n, rank[j] = rank[k] PROVE j = k
    <3>1. rank[j] \in 1 .. n
      BY <1>7
    <3>2. Before(j, k) /\ Before(k, j)
      BY <1>8, <2>1, <3>1
    <3> QED BY <1>2, <3>2
  <2> QED BY <1>7, <2>1 DEF Injection, IsInjective
<1>10. rank \in Surjection(1 .. n, 1 .. n)
  BY <1>4, <1>9, FS_Injection
<1> DEFINE order == [i \in 1 .. n |-> CHOOSE k \in 1 .. n : rank[k] = i]
<1>11. \A i \in 1 .. n : order[i] \in 1 .. n /\ rank[order[i]] = i
  BY <1>10 DEF Surjection
<1> HIDE DEF order
<1>12. order \in [1 .. n -> 1 .. n]
  <2>1. order = [i \in 1 .. n |-> order[i]]
    BY DEF order
  <2> QED BY <1>11, <2>1
<1>13. order \in Bijection(1 .. n, 1 .. n)
  <2>1. IsInjective(order)
    BY <1>11, <1>12 DEF IsInjective
  <2>2. order \in Injection(1 .. n, 1 .. n)
    BY <1>12, <2>1 DEF Injection
  <2>3. order \in Surjection(1 .. n, 1 .. n)
    BY <1>4, <2>2, FS_Injection
  <2> QED BY <2>2, <2>3 DEF Bijection
<1>14. ASSUME NEW i \in 2 .. n PROVE epochs[order[i - 1]].time <= epochs[order[i]].time
  <2>1. i \in 1 .. n /\ i - 1 \in 1 .. n /\ i - 1 <= i
    OBVIOUS
  <2>2. rank[order[i - 1]] <= rank[order[i]] /\ order[i] \in 1 .. n /\ order[i - 1] \in 1 .. n
    BY <1>11, <2>1
  <2>3. time(order[i - 1]) <= time(order[i])
    BY <1>3, <1>8, <2>2
  <2> QED BY <2>3 DEF time
<1>15. \E o \in Bijection(1 .. n, 1 .. n) :
         \A i \in 2 .. n : epochs[o[i - 1]].time <= epochs[o[i]].time
  BY <1>13, <1>14
<1> QED BY <1>15 DEF Order

(* The copy that is sorted holds the epochs it was made of, each whole. *)
LEMMA SortedFacts ==
  ASSUME NEW n \in Nat, NEW epochs \in [1 .. n -> Epochs], Len(epochs) = n
  PROVE  /\ Sorted(epochs) \in [1 .. n -> Epochs] /\ Len(Sorted(epochs)) = n
         /\ {Sorted(epochs)[i] : i \in 1 .. n} = ToSet(epochs)
         /\ Prepares(epochs) =>
              \A i \in 2 .. n : Sorted(epochs)[i - 1].time < Sorted(epochs)[i].time
<1> DEFINE order == Order(epochs)
<1>1. \A i \in 1 .. n : epochs[i].time \in Int
  BY DEF Epochs
<1>2. /\ order \in Bijection(1 .. n, 1 .. n)
      /\ \A i \in 2 .. n : epochs[order[i - 1]].time <= epochs[order[i]].time
  BY <1>1, OrderFacts
<1>3. order \in [1 .. n -> 1 .. n] /\ \A k \in 1 .. n : \E i \in 1 .. n : order[i] = k
  BY <1>2 DEF Bijection, Injection, Surjection
<1>4. Sorted(epochs) = [i \in 1 .. n |-> epochs[order[i]]]
  BY DEF Sorted
<1> HIDE DEF order
<1>5. Sorted(epochs) \in [1 .. n -> Epochs] /\ Len(Sorted(epochs)) = n
  BY <1>3, <1>4
<1>6. {Sorted(epochs)[i] : i \in 1 .. n} = ToSet(epochs)
  <2>1. \A i \in 1 .. n : Sorted(epochs)[i] = epochs[order[i]]
    BY <1>4
  <2>2. ToSet(epochs) = {epochs[i] : i \in 1 .. n}
    BY DEF ToSet
  <2>3. ASSUME NEW i \in 1 .. n PROVE Sorted(epochs)[i] \in {epochs[k] : k \in 1 .. n}
    <3>1. order[i] \in 1 .. n
      BY <1>3
    <3> QED BY <2>1, <3>1
  <2>4. ASSUME NEW k \in 1 .. n PROVE epochs[k] \in {Sorted(epochs)[i] : i \in 1 .. n}
    <3>1. PICK i \in 1 .. n : order[i] = k
      BY <1>3
    <3>2. Sorted(epochs)[i] = epochs[k]
      BY <2>1, <3>1
    <3> QED BY ONLY <3>2, i \in 1 .. n
  <2> QED BY ONLY <2>2, <2>3, <2>4
<1>7. ASSUME Prepares(epochs), NEW i \in 2 .. n
      PROVE  Sorted(epochs)[i - 1].time < Sorted(epochs)[i].time
  <2>1. i \in 1 .. n /\ i - 1 \in 1 .. n
    OBVIOUS
  <2>2. Sorted(epochs)[i - 1].time # Sorted(epochs)[i].time
    BY <1>7 DEF Prepares
  <2>3. Sorted(epochs)[i - 1] = epochs[order[i - 1]] /\ Sorted(epochs)[i] = epochs[order[i]]
    BY <1>4, <2>1
  <2>4. order[i] \in 1 .. n /\ order[i - 1] \in 1 .. n
    BY <1>3, <2>1
  <2> QED BY <1>1, <1>2, <2>2, <2>3, <2>4
<1> QED BY <1>5, <1>6, <1>7

-----------------------------------------------------------------------------
(*                                 The names                               *)

Distinct(names) == \A i, j \in DOMAIN names : names[i] = names[j] => i = j

(* What is filed under distinct names and read under them is the same. *)
LEMMA NamesKeep ==
  ASSUME NEW n \in Nat, NEW names, DOMAIN names = 1 .. n, Distinct(names),
         NEW V, NEW v \in [1 .. n -> V]
  PROVE  Positioned(names, Named(names, v)) = v
<1>1. ASSUME NEW i \in 1 .. n PROVE Named(names, v)[names[i]] = v[i]
  <2>1. names[i] \in {names[k] : k \in DOMAIN names}
    OBVIOUS
  <2>2. (CHOOSE k \in DOMAIN names : names[k] = names[i]) = i
    BY DEF Distinct
  <2> QED BY <2>1, <2>2 DEF Named
<1> QED BY <1>1 DEF Positioned

(* The lists of the coarse classes agree. *)
LEMMA CoarseNames ==
  /\ DOMAIN CoarseFields = 1 .. 7 /\ Distinct(CoarseFields)
  /\ DOMAIN ModelCoarseOrder = 1 .. 7 /\ Distinct(ModelCoarseOrder)
  /\ CoarseFieldsRead = CoarseFields /\ CoarseClassByProbabilityIndex = ModelCoarseOrder
  BY DEF CoarseFields, ModelCoarseOrder, CoarseFieldsRead, CoarseClassByProbabilityIndex, Distinct

(* So do those of the conditional probabilities, *)
LEMMA FineNames ==
  /\ DOMAIN FineFields = 1 .. 10 /\ Distinct(FineFields)
  /\ DOMAIN ModelFineOrder = 1 .. 10
  /\ FineFieldsRead = FineFields
<1>1. DOMAIN FineFields = 1 .. 10 /\ DOMAIN ModelFineOrder = 1 .. 10 /\ FineFieldsRead = FineFields
  BY DEF FineFields, ModelFineOrder, FineFieldsRead
<1>2. Distinct(FineFields)
  BY DEF FineFields, Distinct
<1> QED BY <1>1, <1>2

(* and those of the leaf classes. *)
LEMMA LeafNames ==
  /\ DOMAIN LeafFields = 1 .. 12 /\ Distinct(LeafFields)
  /\ DOMAIN ModelLeafOrder = 1 .. 12
  /\ LeafFieldsRead = LeafFields /\ LeafClassByProbabilityIndex = ModelLeafOrder
<1>1. /\ DOMAIN LeafFields = 1 .. 12 /\ DOMAIN ModelLeafOrder = 1 .. 12
      /\ LeafFieldsRead = LeafFields
  BY DEF LeafFields, ModelLeafOrder, LeafFieldsRead
<1>2. LeafClassByProbabilityIndex = ModelLeafOrder
  BY DEF LeafClassByProbabilityIndex, ModelLeafOrder
<1>3. Distinct(LeafFields)
  BY DEF LeafFields, Distinct
<1> QED BY <1>1, <1>2, <1>3

(* The class of the first of the greatest probabilities. *)
LEMMA GreatestIsFirst ==
  ASSUME NEW n \in Nat \ {0}, NEW order, DOMAIN order = 1 .. n,
         NEW found, NEW v \in [1 .. n -> Int], v = Positioned(order, found)
  PROVE  FirstMaximumIndex(v) \in 1 .. n /\ order[FirstMaximumIndex(v)] = Greatest(order, found)
<1>1. v = [i \in 1 .. n |-> found[order[i]]]
  BY DEF Positioned
<1>2. \A i \in 1 .. n : v[i] = found[order[i]]
  BY <1>1
<1>3. v \in [1 .. n -> Int] /\ Len(v) = n
  BY <1>1, <1>2
<1> DEFINE m == FirstMaximumIndex(v)
<1>4. /\ m \in 1 .. n
      /\ \A j \in 1 .. n : v[j] <= v[m]
      /\ \A j \in 1 .. m - 1 : v[j] < v[m]
  BY <1>3, FirstMaximumFacts
<1> HIDE DEF m
<1> DEFINE Best(i) == /\ \A j \in 1 .. n : found[order[j]] <= found[order[i]]
                      /\ \A j \in 1 .. i - 1 : found[order[j]] < found[order[i]]
<1>5. Best(m)
  <2>1. \A j \in 1 .. m - 1 : j \in 1 .. n
    BY <1>4
  <2> QED BY <1>2, <1>4, <2>1
<1>6. ASSUME NEW i \in 1 .. n, Best(i) PROVE i = m
  <2>1. found[order[i]] \in Int /\ found[order[m]] \in Int
    BY <1>2, <1>4
  <2>2. found[order[m]] <= found[order[i]] /\ found[order[i]] <= found[order[m]]
    BY <1>4, <1>5, <1>6
  <2>3. ~(m < i)
    <3> SUFFICES ASSUME m < i PROVE FALSE
      OBVIOUS
    <3>1. m \in 1 .. i - 1
      BY <1>4
    <3> QED BY <1>6, <2>1, <2>2, <3>1
  <2>4. ~(i < m)
    <3> SUFFICES ASSUME i < m PROVE FALSE
      OBVIOUS
    <3>1. i \in 1 .. m - 1
      BY <1>4
    <3> QED BY <1>5, <2>1, <2>2, <3>1
  <2> QED BY <1>4, <2>3, <2>4
<1>7. (CHOOSE i \in 1 .. n : Best(i)) = m
  <2> HIDE DEF Best
  <2> QED BY <1>4, <1>5, <1>6
<1>8. Greatest(order, found) = order[CHOOSE i \in 1 .. n : Best(i)]
  BY DEF Greatest
<1> QED BY <1>4, <1>7, <1>8 DEF m

-----------------------------------------------------------------------------
(*                                The request                              *)

Modes == {"COMPUTE_CURRENT", "REUSE_PREVIOUS", "COMPUTE_BOOTSTRAP"}

(* The curve of n epochs is in the request, sorted. *)
ShowsSorted(request, epochs, n) ==
  /\ InputOf(request, "TIME_MJD") = [i \in 1 .. n |-> Sorted(epochs)[i].time]
  /\ InputOf(request, "MAGNITUDE") = [i \in 1 .. n |-> Sorted(epochs)[i].magnitude]
  /\ InputOf(request, "MAGNITUDE_ERROR") = [i \in 1 .. n |-> Sorted(epochs)[i].error]

(* Coarse probabilities to reuse, or none. *)
Reusable(reused) == reused = NoCoarse \/ reused \in [1 .. 7 -> Int]

(* The model reads in the request the sorted epochs and what is reused. *)
LEMMA RequestFacts ==
  ASSUME NEW n \in Nat, NEW epochs \in [1 .. n -> Epochs], Len(epochs) = n,
         NEW mode \in Modes, NEW reused, Reusable(reused),
         NEW entrypoint, NEW request,
         request = RequestFor(entrypoint, Tensors(epochs, mode, reused))
  PROVE  /\ ShowsSorted(request, epochs, n)
         /\ reused # NoCoarse => InputOf(request, "REUSED_COARSE_PROBS") = reused
<1> DEFINE s == Sorted(epochs)
           tensors == Tensors(epochs, mode, reused)
           time == [i \in 1 .. n |-> s[i].time]
           magnitude == [i \in 1 .. n |-> s[i].magnitude]
           error == [i \in 1 .. n |-> s[i].error]
           code == <<CoarseModeCode[mode]>>
           probs == IF reused = NoCoarse THEN [i \in 1 .. 7 |-> 0] ELSE reused
           data == [i \in 1 .. 5 |-> tensors[i].data]
<1>1. s \in [1 .. n -> Epochs] /\ DOMAIN s = 1 .. n
  BY SortedFacts
<1>2. /\ time \in Seq(Int) /\ magnitude \in Seq(Int) /\ error \in Seq(Int)
      /\ code \in Seq(Int) /\ probs \in Seq(Int)
  <2> HIDE DEF s
  <2>1. \A i \in 1 .. n : s[i].time \in Int /\ s[i].magnitude \in Int /\ s[i].error \in Int
    BY <1>1 DEF Epochs
  <2>2. CoarseModeCode[mode] \in Int
    BY DEF CoarseModeCode, Modes
  <2>3. probs \in Seq(Int)
    <3>1. probs \in [1 .. 7 -> Int]
      BY DEF Reusable
    <3> HIDE DEF probs
    <3>2. \A k \in Nat : probs \in [1 .. k -> Int] => probs \in Seq(Int)
      OBVIOUS
    <3> QED BY <3>1, <3>2
  <2>4. time \in Seq(Int)
    BY <2>1
  <2>5. magnitude \in Seq(Int)
    BY <2>1
  <2>6. error \in Seq(Int)
    BY <2>1
  <2>7. code \in Seq(Int)
    BY <2>2
  <2> QED BY <2>3, <2>4, <2>5, <2>6, <2>7
<1>3. /\ DOMAIN tensors = 1 .. 5
      /\ tensors = << Vector("TIME_MJD", "FP64", time), Vector("MAGNITUDE", "FP32", magnitude),
                      Vector("MAGNITUDE_ERROR", "FP32", error), Vector("COARSE_MODE", "INT32", code),
                      Vector("REUSED_COARSE_PROBS", "FP32", probs) >>
  BY <1>1 DEF Tensors
<1> HIDE DEF s, tensors, time, magnitude, error, code, probs
<1>4. /\ data[1] = time /\ tensors[1].name = "TIME_MJD"
      /\ data[2] = magnitude /\ tensors[2].name = "MAGNITUDE"
      /\ data[3] = error /\ tensors[3].name = "MAGNITUDE_ERROR"
      /\ data[4] = code /\ tensors[4].name = "COARSE_MODE"
      /\ data[5] = probs /\ tensors[5].name = "REUSED_COARSE_PROBS"
  <2>1. /\ tensors[1] = Vector("TIME_MJD", "FP64", time)
        /\ tensors[2] = Vector("MAGNITUDE", "FP32", magnitude)
        /\ tensors[3] = Vector("MAGNITUDE_ERROR", "FP32", error)
        /\ tensors[4] = Vector("COARSE_MODE", "INT32", code)
        /\ tensors[5] = Vector("REUSED_COARSE_PROBS", "FP32", probs)
    BY ONLY <1>3
  <2>2. \A i \in 1 .. 5 : data[i] = tensors[i].data
    OBVIOUS
  <2>3. \A name, type, d : Vector(name, type, d).name = name /\ Vector(name, type, d).data = d
    BY DEF Vector
  <2> HIDE DEF data
  <2> QED BY ONLY <2>1, <2>2, <2>3
<1>5. data \in [1 .. 5 -> Seq(Int)]
  <2>1. \A i \in 1 .. 5 : i \in {1, 2, 3, 4, 5}
    OBVIOUS
  <2>2. \A i \in 1 .. 5 : data[i] \in Seq(Int)
    <3> HIDE DEF data
    <3> QED BY ONLY <1>2, <1>4, <2>1
  <2>3. data = [i \in 1 .. 5 |-> data[i]]
    OBVIOUS
  <2> HIDE DEF data
  <2> QED BY ONLY <2>2, <2>3
<1>6. /\ Frames(request, data, 5)
      /\ \A i \in 1 .. 5 : request.header[i].name = tensors[i].name
  <2>1. request = RequestFor(entrypoint, tensors) /\ DOMAIN tensors = 1 .. 5
    BY <1>3 DEF tensors
  <2>2. /\ request.header = [i \in 1 .. 5 |-> Header(tensors[i])]
        /\ request.body = FlattenSeq([i \in 1 .. 5 |-> tensors[i].data])
    BY ONLY <2>1 DEF RequestFor, Encoded
  <2>3. \A i \in 1 .. 5 : /\ request.header[i].name = tensors[i].name
                          /\ request.header[i].size = Len(data[i])
    BY <2>2 DEF Header
  <2>4. DOMAIN request.header = 1 .. 5 /\ Len(request.header) = 5
    BY <2>2
  <2> QED BY <2>2, <2>3, <2>4 DEF Frames
<1> HIDE DEF data
<1>7. \A i \in 1 .. 5 : Split(request)[i].data = data[i]
  <2>1. SplitsInto(request, data, 5)
    BY ONLY 5 \in Nat \ {0}, <1>5, <1>6, SplitFacts
  <2> QED BY <2>1 DEF SplitsInto
<1>8. ASSUME NEW i \in 1 .. 5 PROVE InputOf(request, tensors[i].name) = data[i]
  <2>1. \A j \in 1 .. 5 : tensors[j].name = tensors[i].name => j = i
    BY <1>4
  <2>2. (CHOOSE j \in DOMAIN request.header : request.header[j].name = tensors[i].name) = i
    BY <1>6, <2>1 DEF Frames
  <2> QED BY <1>7, <2>2 DEF InputOf
<1>9. /\ InputOf(request, "TIME_MJD") = time /\ InputOf(request, "MAGNITUDE") = magnitude
      /\ InputOf(request, "MAGNITUDE_ERROR") = error
      /\ InputOf(request, "REUSED_COARSE_PROBS") = probs
  BY <1>4, <1>8
<1> QED BY <1>9 DEF ShowsSorted, time, magnitude, error, probs, s

(* What the model sees of a curve that was prepared. *)
LEMMA SeesCurve ==
  ASSUME NEW n \in Nat, NEW epochs \in [1 .. n -> Epochs], Len(epochs) = n, Prepares(epochs),
         NEW answer, ShowsSorted(answer.request, epochs, n)
  PROVE  ModelSawCurve(answer, epochs)
<1> DEFINE s == Sorted(epochs)
           time == [i \in 1 .. n |-> s[i].time]
           magnitude == [i \in 1 .. n |-> s[i].magnitude]
           error == [i \in 1 .. n |-> s[i].error]
<1>1. /\ s \in [1 .. n -> Epochs] /\ {s[i] : i \in 1 .. n} = ToSet(epochs)
      /\ \A i \in 2 .. n : s[i - 1].time < s[i].time
  BY SortedFacts
<1> HIDE DEF s
<1>2. Len(time) = n /\ DOMAIN time = 1 .. n
  OBVIOUS
<1>3. ASSUME NEW i \in 2 .. n PROVE time[i - 1] < time[i]
  <2>1. i \in 1 .. n /\ i - 1 \in 1 .. n
    OBVIOUS
  <2> QED BY <1>1, <2>1
<1>4. ASSUME NEW i \in 1 .. n
      PROVE  [time |-> time[i], magnitude |-> magnitude[i], error |-> error[i]] = s[i]
  BY <1>1 DEF Epochs
<1>5. {[time |-> time[i], magnitude |-> magnitude[i], error |-> error[i]] : i \in 1 .. n}
        = ToSet(epochs)
  <2> DEFINE epoch(i) == [time |-> time[i], magnitude |-> magnitude[i], error |-> error[i]]
  <2>1. \A i \in 1 .. n : epoch(i) = s[i]
    BY <1>4
  <2> HIDE DEF time, magnitude, error, epoch
  <2>2. {epoch(i) : i \in 1 .. n} = {s[i] : i \in 1 .. n}
    <3>1. \A x \in {epoch(i) : i \in 1 .. n} : x \in {s[i] : i \in 1 .. n}
      BY <2>1
    <3>2. \A x \in {s[i] : i \in 1 .. n} : x \in {epoch(i) : i \in 1 .. n}
      BY <2>1
    <3> QED BY <3>1, <3>2
  <2> QED BY <1>1, <2>2 DEF epoch
<1>6. /\ InputOf(answer.request, "TIME_MJD") = time
      /\ InputOf(answer.request, "MAGNITUDE") = magnitude
      /\ InputOf(answer.request, "MAGNITUDE_ERROR") = error
  BY DEF ShowsSorted, s
<1> HIDE DEF time, magnitude, error
<1> QED BY <1>2, <1>3, <1>5, <1>6 DEF ModelSawCurve

-----------------------------------------------------------------------------
(*                               The response                              *)

(* What a response to this answer may hold. *)
ValuesOf(answer, coarse) ==
  {coarse[i] : i \in 1 .. 7} \cup {answer.fine[ModelFineOrder[i]] : i \in 1 .. 10}
    \cup {answer.leaf[ModelLeafOrder[i]] : i \in 1 .. 12} \cup {0, 1, NotAProbability}

(* Every output is a sequence of such values. *)
LEMMA OutputTypes ==
  ASSUME NEW answer, NEW coarse, coarse = [i \in 1 .. 7 |-> coarse[i]], NEW name
  PROVE  OutputData(answer, coarse, name) \in Seq(ValuesOf(answer, coarse))
<1> DEFINE V == ValuesOf(answer, coarse)
           fine == Positioned(ModelFineOrder, answer.fine)
           leaf == Positioned(ModelLeafOrder, answer.leaf)
<1>1. /\ \A i \in 1 .. 7 : coarse[i] \in V
      /\ \A i \in 1 .. 10 : answer.fine[ModelFineOrder[i]] \in V
      /\ \A i \in 1 .. 12 : answer.leaf[ModelLeafOrder[i]] \in V
      /\ 0 \in V /\ 1 \in V
  BY DEF ValuesOf
<1> HIDE DEF V
<1>2. fine = [i \in 1 .. 10 |-> answer.fine[ModelFineOrder[i]]]
  BY FineNames DEF Positioned
<1>3. leaf = [i \in 1 .. 12 |-> answer.leaf[ModelLeafOrder[i]]]
  BY LeafNames DEF Positioned
<1> HIDE DEF fine, leaf
<1>4. coarse \in [1 .. 7 -> V] /\ fine \in [1 .. 10 -> V] /\ leaf \in [1 .. 12 -> V]
  BY <1>1, <1>2, <1>3
<1>5. \A k \in Nat : \A f \in [1 .. k -> V] : f \in Seq(V)
  OBVIOUS
<1>6. coarse \in Seq(V) /\ fine \in Seq(V) /\ leaf \in Seq(V)
  BY <1>4, <1>5
<1>7. <<0>> \in Seq(V) /\ <<1>> \in Seq(V) /\ <<IF answer.executed THEN 1 ELSE 0>> \in Seq(V)
  BY <1>1
<1>8. \/ OutputData(answer, coarse, name) = coarse
      \/ OutputData(answer, coarse, name) = fine
      \/ OutputData(answer, coarse, name) = leaf
      \/ OutputData(answer, coarse, name) = <<IF answer.executed THEN 1 ELSE 0>>
      \/ OutputData(answer, coarse, name) = <<0>>
  BY DEF OutputData, fine, leaf
<1> QED BY <1>6, <1>7, <1>8 DEF V

(* The data of the outputs a header names. *)
DataOf(answer, coarse, header, n) ==
  [i \in 1 .. n |-> OutputData(answer, coarse, header[i].name)]

(* A response frames the outputs in whatever order. *)
LEMMA ResponseFacts ==
  ASSUME NEW n \in Nat \ {0}, DOMAIN triton.outputs = 1 .. n,
         NEW answer, NEW coarse, coarse = [i \in 1 .. 7 |-> coarse[i]],
         NEW order, NEW response, response = ResponseOf(answer, coarse, order)
  PROVE  LET data == DataOf(answer, coarse, response.header, n)
         IN  /\ data \in [1 .. n -> Seq(ValuesOf(answer, coarse))]
             /\ response.body \in Seq(ValuesOf(answer, coarse))
             /\ Frames(response, data, n)
             /\ SplitsInto(response, data, n)
<1> DEFINE V == ValuesOf(answer, coarse)
           data == DataOf(answer, coarse, response.header, n)
           outputs == [i \in 1 .. n |-> triton.outputs[order[i]]]
           d(i) == OutputData(answer, coarse, outputs[i].name)
<1>1. /\ response.header = [i \in 1 .. n |->
                              [name |-> outputs[i].name, type |-> outputs[i].type,
                               shape |-> outputs[i].dims, size |-> Len(d(i))]]
      /\ response.body = FlattenSeq([i \in 1 .. n |-> d(i)])
  BY DEF ResponseOf
<1> HIDE DEF outputs
<1>2. \A i \in 1 .. n : /\ response.header[i].name = outputs[i].name
                        /\ response.header[i].size = Len(d(i))
  BY <1>1
<1>3. DOMAIN response.header = 1 .. n /\ Len(response.header) = n
  BY <1>1
<1>4. \A i \in 1 .. n : data[i] = d(i)
  BY <1>2 DEF DataOf
<1>5. data = [i \in 1 .. n |-> d(i)]
  BY <1>2 DEF DataOf
<1>6. \A i \in 1 .. n : d(i) \in Seq(V)
  BY OutputTypes
<1> HIDE DEF d, data, V
<1>7. data \in [1 .. n -> Seq(V)]
  BY <1>5, <1>6
<1>8. Frames(response, data, n)
  BY <1>1, <1>2, <1>3, <1>4, <1>5 DEF Frames
<1>9. response.body \in Seq(V) /\ SplitsInto(response, data, n)
  BY ONLY n \in Nat \ {0}, <1>7, <1>8, SplitFacts
<1> QED BY <1>7, <1>8, <1>9 DEF data, V

Names == {CoarseProbs, FineProbs, LeafProbs, Executed}

(* Four outputs that have all four names have each once. *)
LEMMA FourNames ==
  ASSUME NEW header, {header[i].name : i \in 1 .. 4} = Names
  PROVE  \A i, j \in 1 .. 4 : header[i].name = header[j].name => i = j
<1> DEFINE a == header[1].name
           b == header[2].name
           c == header[3].name
           d == header[4].name
<1>1. {a, b, c, d} = Names
  <2>1. \A i \in 1 .. 4 : i = 1 \/ i = 2 \/ i = 3 \/ i = 4
    OBVIOUS
  <2> QED BY <2>1
<1>2. /\ \E x \in {a, b, c, d} : x = "COARSE_PROBS"
      /\ \E x \in {a, b, c, d} : x = "FINE_CONDITIONAL_PROBS"
      /\ \E x \in {a, b, c, d} : x = "LEAF_PROBS"
      /\ \E x \in {a, b, c, d} : x = "XGBOOST_EXECUTED"
  <2> HIDE DEF a, b, c, d
  <2> QED BY <1>1 DEF Names, CoarseProbs, FineProbs, LeafProbs, Executed
<1> HIDE DEF a, b, c, d
<1>3. a # b /\ a # c /\ a # d /\ b # c /\ b # d /\ c # d
  BY <1>2
<1> SUFFICES ASSUME NEW i \in 1 .. 4, NEW j \in 1 .. 4, header[i].name = header[j].name, i # j
             PROVE  FALSE
  OBVIOUS
<1>4. /\ i = 1 => header[i].name = a
      /\ i = 2 => header[i].name = b
      /\ i = 3 => header[i].name = c
      /\ i = 4 => header[i].name = d
      /\ j = 1 => header[j].name = a
      /\ j = 2 => header[j].name = b
      /\ j = 3 => header[j].name = c
      /\ j = 4 => header[j].name = d
  BY DEF a, b, c, d
<1>5. (i = 1 \/ i = 2 \/ i = 3 \/ i = 4) /\ (j = 1 \/ j = 2 \/ j = 3 \/ j = 4)
  OBVIOUS
<1> QED BY <1>3, <1>4, <1>5

(* What begins a sequence begins each prefix that is not empty. *)
LEMMA FirstOfPrefix ==
  ASSUME NEW V, NEW s \in Seq(V), NEW k \in 1 .. Len(s)
  PROVE  1 \in DOMAIN SubSeq(s, 1, k) /\ SubSeq(s, 1, k)[1] = s[1]
<1>1. SubSeq(s, 1, k) = [j \in 1 .. k - 1 + 1 |-> s[1 + j - 1]]
  OBVIOUS
<1>2. 1 \in 1 .. k - 1 + 1 /\ 1 + 1 - 1 = 1
  OBVIOUS
<1> QED BY <1>1, <1>2

(* The classifier takes the response. *)
Accepts(response, entrypoint, mode) ==
  DecodesResponse(response) /\ MapsOutput(response, entrypoint, mode)

(* A value that is none is found out. *)
LEMMA NoneIsRefused ==
  ASSUME NEW response, NEW entrypoint, NEW mode, Accepts(response, entrypoint, mode),
         DOMAIN response.header = 1 .. Len(response.header),
         NEW V, response.body \in Seq(V), response.header[1].size \in Nat,
         End(response.header, 0) = 0, End(response.header, 1) = response.header[1].size
  PROVE  response.body[1] # NotAProbability
<1> DEFINE header == response.header
           name == header[1].name
           first == Split(response)[1].data
<1>1. /\ Len(header) = 4 /\ DOMAIN header = 1 .. 4
      /\ {header[i].name : i \in 1 .. 4} = Names
      /\ header[1].type = OutputType[name]
      /\ \A output \in {CoarseProbs, FineProbs, LeafProbs} :
           \A i \in DOMAIN OutputOf(response, output) : OutputOf(response, output)[i] \in 0 .. One
  <2>1. Len(header) = 4 /\ {header[i].name : i \in DOMAIN header} = DOMAIN OutputType
    BY DEF Accepts, MapsOutput
  <2>2. DOMAIN header = 1 .. 4
    BY <2>1
  <2>3. DOMAIN OutputType = Names
    BY DEF OutputType, Names, CoarseProbs, FineProbs, LeafProbs, Executed
  <2>4. header[1].type = OutputType[name]
    BY <2>2 DEF Accepts, MapsOutput
  <2>5. \A output \in {CoarseProbs, FineProbs, LeafProbs} :
           \A i \in DOMAIN OutputOf(response, output) : OutputOf(response, output)[i] \in 0 .. One
    BY DEF Accepts, MapsOutput
  <2> QED BY <2>1, <2>2, <2>3, <2>4, <2>5
<1>2. header[1].size > 0 /\ End(header, 1) <= Len(response.body) /\ TensorHolds(Split(response)[1])
  BY <1>1 DEF Accepts, DecodesResponse
<1>3. first = SubSeq(response.body, 1, header[1].size)
  <2>1. 0 + 1 = 1 /\ 1 - 1 = 0
    OBVIOUS
  <2>2. first = SubSeq(response.body, End(header, 0) + 1, End(header, 1))
    BY <1>1, <2>1 DEF Split
  <2> QED BY <2>1, <2>2
<1>4. 1 \in DOMAIN first /\ first[1] = response.body[1]
  <2>1. header[1].size \in 1 .. Len(response.body)
    BY <1>2
  <2> QED BY <1>3, <2>1, FirstOfPrefix
<1>5. OutputOf(response, name) = first
  <2>1. \A i \in 1 .. 4 : header[i].name = name => i = 1
    BY <1>1, FourNames
  <2>2. (CHOOSE i \in DOMAIN header : header[i].name = name) = 1
    BY <1>1, <2>1
  <2> QED BY <2>2 DEF OutputOf
<1>6. name \in Names
  BY <1>1
<1>7. CASE name \in {CoarseProbs, FineProbs, LeafProbs}
  <2>1. first[1] \in 0 .. One
    BY <1>1, <1>4, <1>5, <1>7
  <2> QED BY <1>4, <2>1 DEF One, NotAProbability
<1>8. CASE name = Executed
  <2>1. Split(response)[1].type = "BOOL"
    BY <1>1, <1>8 DEF Split, OutputType, Executed
  <2>2. first[1] \in {0, 1}
    BY <1>2, <1>4, <2>1 DEF TensorHolds
  <2> QED BY <1>4, <2>2 DEF NotAProbability
<1> QED BY <1>6, <1>7, <1>8 DEF Names

(* The header of a response lists every output. *)
LEMMA HeaderLength ==
  ASSUME NEW n \in Nat, DOMAIN triton.outputs = 1 .. n, NEW answer, NEW coarse, NEW order
  PROVE  LET header == ResponseOf(answer, coarse, order).header
         IN  DOMAIN header = 1 .. n /\ Len(header) = n
<1> DEFINE outputs == [i \in 1 .. n |-> triton.outputs[order[i]]]
           d(i) == OutputData(answer, coarse, outputs[i].name)
           s == ResponseOf(answer, coarse, order)
<1>1. s.header = [i \in 1 .. n |->
                    [name |-> outputs[i].name, type |-> outputs[i].type,
                     shape |-> outputs[i].dims, size |-> Len(d(i))]]
  BY DEF ResponseOf
<1> HIDE DEF s, outputs, d
<1>2. DOMAIN s.header = 1 .. n /\ Len(s.header) = n
  BY <1>1
<1> QED BY <1>2 DEF s

(* Header and body of a response the model gives in some order. *)
Untouched(r, answer, coarse) ==
  \E o : /\ r.header = ResponseOf(answer, coarse, o).header
         /\ r.body = ResponseOf(answer, coarse, o).body

(* A response that was spoilt is refused, unless its header and body are   *)
(* those of an answer.                                                     *)
LEMMA SpoiltIsRefused ==
  ASSUME NEW n \in Nat, DOMAIN triton.outputs = 1 .. n,
         NEW answer, NEW coarse, coarse = [i \in 1 .. 7 |-> coarse[i]], NEW order,
         NEW r, r = ResponseOf(answer, coarse, order) \/ r \in Spoilt(answer, coarse, order),
         NEW entrypoint, NEW mode, Accepts(r, entrypoint, mode)
  PROVE  n = 4 /\ Untouched(r, answer, coarse)
<1> DEFINE s == ResponseOf(answer, coarse, order)
           V == ValuesOf(answer, coarse)
           data == DataOf(answer, coarse, s.header, n)
<1>1. \/ r = s
      \/ r = [s EXCEPT !.body = SubSeq(@, 1, Len(@) - 1)]
      \/ r = [s EXCEPT !.body = Append(@, 0)]
      \/ r = [s EXCEPT !.body = [@ EXCEPT ![1] = NotAProbability]]
      \/ r = [s EXCEPT !.version = "another"]
      \/ r = ResponseOf(answer, coarse, [order EXCEPT ![1] = order[2]])
  BY DEF Spoilt
<1>2. CASE r = ResponseOf(answer, coarse, [order EXCEPT ![1] = order[2]])
  <2>1. Len(r.header) = 4
    BY DEF Accepts, MapsOutput
  <2>2. Len(r.header) = n
    BY <1>2, HeaderLength
  <2> QED BY <1>2, <2>1, <2>2 DEF Untouched
<1>3. s = [model |-> s.model, version |-> s.version, header |-> s.header, body |-> s.body]
      /\ DOMAIN s.header = 1 .. n /\ Len(s.header) = n
  BY HeaderLength DEF ResponseOf
<1>4. CASE r = s \/ r = [s EXCEPT !.version = "another"]
  <2>1. r.header = s.header /\ r.body = s.body
    <3> HIDE DEF s
    <3> QED BY <1>3, <1>4
  <2>2. Len(r.header) = 4
    BY DEF Accepts, MapsOutput
  <2> QED BY <1>3, <2>1, <2>2 DEF Untouched
<1>5. ASSUME NEW body, r = [s EXCEPT !.body = body],
             \/ body = SubSeq(s.body, 1, Len(s.body) - 1)
             \/ body = Append(s.body, 0)
             \/ body = [s.body EXCEPT ![1] = NotAProbability]
      PROVE  FALSE
  <2>1. r.header = s.header /\ r.body = body
    <3> HIDE DEF s
    <3> QED BY <1>3, <1>5
  <2>2. n = 4
    <3>1. Len(r.header) = 4
      BY DEF Accepts, MapsOutput
    <3> QED BY <1>3, <2>1, <3>1
  <2>3. /\ s.body \in Seq(V) /\ SplitsInto(s, data, n) /\ Frames(s, data, n)
        /\ data \in [1 .. n -> Seq(V)]
    <3>1. n \in Nat \ {0}
      BY <2>2
    <3> QED BY <3>1, ResponseFacts
  <2> HIDE DEF s, data, V
  <2>4. /\ End(s.header, 0) = 0
        /\ End(s.header, 1) = End(s.header, 0) + Len(data[1])
        /\ End(s.header, n) = Len(s.body)
        /\ s.header[1].size = Len(data[1]) /\ Len(data[1]) \in Nat
    <3>1. 1 \in 1 .. n /\ 1 - 1 = 0
      BY <2>2
    <3> QED BY <2>3, <3>1 DEF SplitsInto, Frames
  <2>5. /\ r.header[1].size > 0 /\ End(r.header, 1) <= Len(r.body)
        /\ End(r.header, n) = Len(r.body)
    <3>1. DOMAIN r.header = 1 .. 4 /\ Len(r.header) = 4 /\ n = 4
      BY <1>3, <2>1, <2>2
    <3> QED BY <3>1 DEF Accepts, DecodesResponse
  <2>6. Len(body) = Len(s.body) /\ Len(s.body) \in Nat /\ Len(s.body) > 0
    BY <2>1, <2>3, <2>4, <2>5
  <2>7. CASE body = SubSeq(s.body, 1, Len(s.body) - 1)
    <3>1. Len(body) = Len(s.body) - 1
      BY <2>3, <2>6, <2>7
    <3> QED BY <2>6, <3>1
  <2>8. CASE body = Append(s.body, 0)
    <3>1. Len(body) = Len(s.body) + 1
      BY <2>3, <2>8
    <3> QED BY <2>6, <3>1
  <2>9. CASE body = [s.body EXCEPT ![1] = NotAProbability]
    <3>1. 1 \in DOMAIN s.body /\ body[1] = NotAProbability
      BY <2>3, <2>6, <2>9
    <3>2. NotAProbability \in V
      BY DEF V, ValuesOf
    <3>3. body \in Seq(V)
      BY <2>3, <2>6, <2>9, <3>2
    <3>4. r.header[1].size \in Nat /\ End(r.header, 0) = 0 /\ End(r.header, 1) = r.header[1].size
      BY <2>1, <2>4
    <3>5. r.body[1] # NotAProbability
      BY <1>3, <2>1, <3>3, <3>4, NoneIsRefused
    <3> QED BY <2>1, <3>1, <3>5
  <2> QED BY <1>5, <2>7, <2>8, <2>9
<1> QED BY <1>1, <1>2, <1>4, <1>5

(* What the classifier takes from a response is what the model put there. *)
LEMMA AcceptedFacts ==
  ASSUME NEW n \in Nat, DOMAIN triton.outputs = 1 .. n,
         NEW answer, NEW coarse, coarse = [i \in 1 .. 7 |-> coarse[i]], NEW order,
         NEW r, r = ResponseOf(answer, coarse, order) \/ r \in Spoilt(answer, coarse, order),
         NEW entrypoint, NEW mode, Accepts(r, entrypoint, mode)
  PROVE  \A name \in Names : OutputOf(r, name) = OutputData(answer, coarse, name)
<1>1. n = 4 /\ Untouched(r, answer, coarse)
  BY SpoiltIsRefused
<1>2. PICK o : /\ r.header = ResponseOf(answer, coarse, o).header
               /\ r.body = ResponseOf(answer, coarse, o).body
  BY <1>1 DEF Untouched
<1> DEFINE s == ResponseOf(answer, coarse, o)
           data == DataOf(answer, coarse, s.header, n)
<1>3. SplitsInto(s, data, n) /\ DOMAIN s.header = 1 .. n
  <2>1. n \in Nat \ {0}
    BY <1>1
  <2>2. SplitsInto(s, data, n)
    BY <2>1, ResponseFacts
  <2> QED BY <2>2, HeaderLength
<1>4. Split(r) = Split(s)
  BY <1>2 DEF Split
<1> HIDE DEF s
<1>5. ASSUME NEW i \in 1 .. n PROVE Split(r)[i].data = OutputData(answer, coarse, s.header[i].name)
  BY <1>3, <1>4 DEF SplitsInto, DataOf
<1>6. {s.header[i].name : i \in 1 .. n} = Names
  <2>1. {r.header[i].name : i \in DOMAIN r.header} = DOMAIN OutputType
    BY DEF Accepts, MapsOutput
  <2>2. DOMAIN OutputType = Names
    BY DEF OutputType, Names, CoarseProbs, FineProbs, LeafProbs, Executed
  <2> QED BY <1>2, <1>3, <2>1, <2>2 DEF s
<1> SUFFICES ASSUME NEW name \in Names PROVE OutputOf(r, name) = OutputData(answer, coarse, name)
  OBVIOUS
<1> DEFINE i == CHOOSE i \in 1 .. n : s.header[i].name = name
<1>7. i \in 1 .. n /\ s.header[i].name = name
  BY <1>6
<1>8. OutputOf(r, name) = Split(r)[i].data
  BY <1>2, <1>3 DEF OutputOf, s
<1> HIDE DEF i
<1> QED BY <1>5, <1>7, <1>8

(* If the response is taken, it holds what was found in the model's order. *)
Faithful(r, answer, mode, entrypoint) ==
  Accepts(r, entrypoint, mode) =>
    /\ OutputOf(r, CoarseProbs) = Positioned(ModelCoarseOrder, answer.coarse)
    /\ OutputOf(r, FineProbs) = Positioned(ModelFineOrder, answer.fine)
    /\ OutputOf(r, LeafProbs) = Positioned(ModelLeafOrder, answer.leaf)
    /\ OutputOf(r, Executed) = <<IF answer.executed THEN 1 ELSE 0>>

(* The class numbers of the message are those the table knows. *)
LEMMA ClassNumbers ==
  /\ \A i \in 1 .. 7 : CoarseClassId[ModelCoarseOrder[i]] \in {10, 20, 30, 40, 50, 60, 70}
  /\ \A i \in 1 .. 12 :
       LeafClassId[ModelLeafOrder[i]] \in
         {30, 70, 1001, 1002, 2001, 2002, 4001, 4002, 5001, 5002, 6001, 6002}
<1>1. \A i \in 1 .. 7 : CoarseClassId[ModelCoarseOrder[i]] \in {10, 20, 30, 40, 50, 60, 70}
  <2> SUFFICES ASSUME NEW i \in 1 .. 7
               PROVE  CoarseClassId[ModelCoarseOrder[i]] \in {10, 20, 30, 40, 50, 60, 70}
    OBVIOUS
  <2>1. i \in {1, 2, 3, 4, 5, 6, 7}
    OBVIOUS
  <2> QED BY <2>1 DEF CoarseClassId, ModelCoarseOrder
<1>2. ASSUME NEW i \in 1 .. 12
      PROVE  LeafClassId[ModelLeafOrder[i]] \in
               {30, 70, 1001, 1002, 2001, 2002, 4001, 4002, 5001, 5002, 6001, 6002}
  <2>1. i \in {1, 2, 3, 4, 5, 6, 7, 8, 9, 10, 11, 12}
    OBVIOUS
  <2> QED BY <2>1 DEF LeafClassId, ModelLeafOrder
<1> QED BY <1>1, <1>2

(* Through the message and into the table. *)
LEMMA RowFacts ==
  ASSUME NEW k, NEW r, NEW answer, NEW mode, NEW entrypoint,
         Accepts(r, entrypoint, mode), Faithful(r, answer, mode, entrypoint), answer.executed \in BOOLEAN
  PROVE  LET row == RowFor([command |-> k, message |-> MessageFor(RunFor(r))])
         IN  StoredAsFound(row, answer) /\ DecodesResult(row) /\ TableTakes(row)
<1> DEFINE run == RunFor(r)
           message == MessageFor(run)
           row == RowFor([command |-> k, message |-> message])
           coarse == Positioned(ModelCoarseOrder, answer.coarse)
           fine == Positioned(ModelFineOrder, answer.fine)
           leaf == Positioned(ModelLeafOrder, answer.leaf)
<1>1. /\ OutputOf(r, CoarseProbs) = coarse
      /\ OutputOf(r, FineProbs) = fine
      /\ OutputOf(r, LeafProbs) = leaf
      /\ OutputOf(r, Executed) = <<IF answer.executed THEN 1 ELSE 0>>
  BY DEF Faithful
<1>2. coarse = [i \in 1 .. 7 |-> coarse[i]] /\ DOMAIN coarse = 1 .. 7 /\ Len(coarse) = 7
  BY CoarseNames DEF Positioned
<1>3. fine = [i \in 1 .. 10 |-> fine[i]] /\ DOMAIN fine = 1 .. 10 /\ Len(fine) = 10
  BY FineNames DEF Positioned
<1>4. leaf = [i \in 1 .. 12 |-> leaf[i]] /\ DOMAIN leaf = 1 .. 12 /\ Len(leaf) = 12
  BY LeafNames DEF Positioned
<1>5. coarse \in [1 .. 7 -> Int] /\ fine \in [1 .. 10 -> Int] /\ leaf \in [1 .. 12 -> Int]
  <2> HIDE DEF coarse, fine, leaf
  <2>1. \A name \in {CoarseProbs, FineProbs, LeafProbs} :
           \A i \in DOMAIN OutputOf(r, name) : OutputOf(r, name)[i] \in 0 .. One
    BY DEF Accepts, MapsOutput
  <2>2. 0 .. One \subseteq Int
    BY DEF One
  <2>3. \A i \in 1 .. 7 : coarse[i] \in Int
    BY <1>1, <1>2, <2>1, <2>2
  <2>4. \A i \in 1 .. 10 : fine[i] \in Int
    BY <1>1, <1>3, <2>1, <2>2
  <2>5. \A i \in 1 .. 12 : leaf[i] \in Int
    BY <1>1, <1>4, <2>1, <2>2
  <2> QED BY <1>2, <1>3, <1>4, <2>3, <2>4, <2>5
<1>6. /\ FirstMaximumIndex(coarse) \in 1 .. 7
      /\ ModelCoarseOrder[FirstMaximumIndex(coarse)] = Greatest(ModelCoarseOrder, answer.coarse)
  <2> HIDE DEF coarse
  <2> DEFINE order == ModelCoarseOrder
             found == answer.coarse
  <2>0. PICK n \in Nat \ {0} : n = 7
    OBVIOUS
  <2>1. coarse \in [1 .. n -> Int] /\ DOMAIN order = 1 .. n
    BY <1>5, <2>0, CoarseNames
  <2>2. coarse = Positioned(order, found)
    BY DEF coarse
  <2> HIDE DEF order, found
  <2>3. FirstMaximumIndex(coarse) \in 1 .. n /\ order[FirstMaximumIndex(coarse)] = Greatest(order, found)
    BY ONLY n \in Nat \ {0}, <2>1, <2>2, GreatestIsFirst
  <2> QED BY <2>0, <2>3 DEF order, found
<1>7. /\ FirstMaximumIndex(leaf) \in 1 .. 12
      /\ ModelLeafOrder[FirstMaximumIndex(leaf)] = Greatest(ModelLeafOrder, answer.leaf)
  <2> HIDE DEF leaf
  <2> DEFINE order == ModelLeafOrder
             found == answer.leaf
  <2>0. PICK n \in Nat \ {0} : n = 12
    OBVIOUS
  <2>1. leaf \in [1 .. n -> Int] /\ DOMAIN order = 1 .. n
    BY <1>5, <2>0, LeafNames
  <2>2. leaf = Positioned(order, found)
    BY DEF leaf
  <2> HIDE DEF order, found
  <2>3. FirstMaximumIndex(leaf) \in 1 .. n /\ order[FirstMaximumIndex(leaf)] = Greatest(order, found)
    BY ONLY n \in Nat \ {0}, <2>1, <2>2, GreatestIsFirst
  <2> QED BY <2>0, <2>3 DEF order, found
<1> HIDE DEF coarse, fine, leaf
<1>8. /\ run.coarse = coarse /\ run.fine = fine /\ run.leaf = leaf
      /\ run.executed = (<<IF answer.executed THEN 1 ELSE 0>>[1] = 1)
      /\ run.coarseClass = ModelCoarseOrder[FirstMaximumIndex(coarse)]
      /\ run.leafClass = ModelLeafOrder[FirstMaximumIndex(leaf)]
  BY <1>1, CoarseNames, LeafNames DEF RunFor, PredictedCoarse, PredictedLeaf
<1> HIDE DEF run
<1>9. /\ message.coarse = Named(CoarseFields, coarse) /\ message.fine = Named(FineFields, fine)
      /\ message.leaf = Named(LeafFields, leaf) /\ message.executed = run.executed
      /\ message.coarseClass = CoarseClassId[run.coarseClass]
      /\ message.leafClass = LeafClassId[run.leafClass]
  BY <1>8 DEF MessageFor
<1> HIDE DEF message
<1>10. /\ row.coarse = Positioned(CoarseFields, message.coarse)
       /\ row.fine = Positioned(FineFields, message.fine)
       /\ row.leaf = Positioned(LeafFields, message.leaf)
       /\ row.executed = message.executed
       /\ row.coarseClass = message.coarseClass /\ row.leafClass = message.leafClass
  BY CoarseNames, FineNames, LeafNames DEF RowFor
<1> HIDE DEF row
<1>11. row.coarse = coarse /\ row.fine = fine /\ row.leaf = leaf
  <2>1. Positioned(CoarseFields, Named(CoarseFields, coarse)) = coarse
    BY ONLY 7 \in Nat, <1>5, CoarseNames, NamesKeep
  <2>2. Positioned(FineFields, Named(FineFields, fine)) = fine
    BY ONLY 10 \in Nat, <1>5, FineNames, NamesKeep
  <2>3. Positioned(LeafFields, Named(LeafFields, leaf)) = leaf
    BY ONLY 12 \in Nat, <1>5, LeafNames, NamesKeep
  <2> QED BY <1>9, <1>10, <2>1, <2>2, <2>3
<1>12. row.executed = answer.executed
  <2>1. run.executed = answer.executed
    BY <1>8
  <2> QED BY <2>1, <1>9, <1>10
<1>13. StoredAsFound(row, answer)
  BY <1>6, <1>7, <1>8, <1>9, <1>10, <1>11, <1>12 DEF StoredAsFound, coarse, fine, leaf
<1>14. DecodesResult(row)
  BY <1>8, <1>9, <1>10, <1>11, CoarseNames, LeafNames DEF DecodesResult, PredictedCoarse, PredictedLeaf
<1>15. TableTakes(row)
  BY <1>2, <1>3, <1>4, <1>6, <1>7, <1>8, <1>9, <1>10, <1>11, ClassNumbers DEF TableTakes
<1> QED BY <1>13, <1>14, <1>15 DEF row, message, run

Listed(s) == s \in Seq(ToSet(s))

(* An older row that computed them has these coarse probabilities. *)
InOlderRow(coarse, k, stored) ==
  \E i \in DOMAIN stored :
    stored[i].command < k /\ stored[i].executed /\ stored[i].coarse = coarse

(* A result is the model's answer to its command, and has a row to be.     *)
ResultHolds(result, asked, stored) ==
  LET row == RowFor(result)
      answer == asked[result.command]
  IN  /\ result.command \in Commands
      /\ ModelSawCurve(answer, Curves[result.command])
      /\ StoredAsFound(row, answer)
      /\ answer.mode = "REUSE_PREVIOUS" => InOlderRow(row.coarse, result.command, stored)
      /\ DecodesResult(row) /\ TableTakes(row)

(* A request shows the model the curve of its command, and the coarse      *)
(* probabilities of a row where it has to reuse them.                      *)
RequestHolds(request, k, mode, stored) ==
  /\ ModelSawCurve([request |-> request], Curves[k])
  /\ mode = "REUSE_PREVIOUS" =>
       LET coarse == InputOf(request, "REUSED_COARSE_PROBS")
       IN  coarse \in [1 .. 7 -> 0 .. One] /\ InOlderRow(coarse, k, stored)

(* A response, if it is taken, is the answer to the command.               *)
ResponseHolds(response, k, mode, answer, entrypoint, stored) ==
  /\ ModelSawCurve(answer, Curves[k])
  /\ answer.mode = mode /\ answer.executed \in BOOLEAN
  /\ mode = "REUSE_PREVIOUS" =>
       InOlderRow(Positioned(ModelCoarseOrder, answer.coarse), k, stored)
  /\ Faithful(response, answer, mode, entrypoint)

JobHolds(j, asked, found, entrypoint, stored) ==
  /\ j.command \in Commands
  /\ \A i \in DOMAIN found : found[i].command # j.command
  /\ j.pc = "ask" => RequestHolds(j.request, j.command, j.mode, stored)
  /\ j.pc = "decode" =>
       ResponseHolds(j.response, j.command, j.mode, asked[j.command], entrypoint, stored)

WorkInv ==
  /\ triton \in Models
  /\ DOMAIN answers = Commands
  /\ Listed(results) /\ Listed(rows)
  /\ Len(rows) <= Len(results)
  /\ \A i \in DOMAIN rows : rows[i] = RowFor(results[i])
  /\ \A i \in DOMAIN results : ResultHolds(results[i], answers, rows)
  /\ job # NoJob => JobHolds(job, answers, results, Entrypoint, rows)

-----------------------------------------------------------------------------
(* A sequence that grows by one element. *)
LEMMA AppendFacts ==
  ASSUME NEW s, Listed(s), NEW x
  PROVE  /\ Listed(Append(s, x))
         /\ Len(s) \in Nat /\ DOMAIN s = 1 .. Len(s)
         /\ Len(Append(s, x)) = Len(s) + 1 /\ DOMAIN Append(s, x) = 1 .. Len(s) + 1
         /\ \A i \in 1 .. Len(s) : Append(s, x)[i] = s[i]
         /\ Append(s, x)[Len(s) + 1] = x
<1> DEFINE V == ToSet(s) \cup {x}
           t == Append(s, x)
<1>1. s \in Seq(V) /\ x \in V
  BY DEF Listed
<1> HIDE DEF V
<1>2. /\ t \in Seq(V) /\ Len(s) \in Nat /\ DOMAIN s = 1 .. Len(s)
      /\ Len(t) = Len(s) + 1 /\ DOMAIN t = 1 .. Len(s) + 1
      /\ \A i \in 1 .. Len(s) : t[i] = s[i]
      /\ t[Len(s) + 1] = x
  BY <1>1
<1> HIDE DEF t
<1>3. t \in [1 .. Len(t) -> ToSet(t)]
  BY <1>2 DEF ToSet
<1>4. \A k \in Nat : \A f \in [1 .. k -> ToSet(t)] : f \in Seq(ToSet(t))
  OBVIOUS
<1>5. Listed(t)
  <2>1. Len(t) \in Nat
    BY <1>2
  <2> QED BY <1>3, <1>4, <2>1 DEF Listed
<1> QED BY <1>2, <1>5 DEF t

(* A row that was stored stays. *)
LEMMA RowsStay ==
  ASSUME NEW s, Listed(s), NEW x, NEW coarse, NEW k, InOlderRow(coarse, k, s)
  PROVE  InOlderRow(coarse, k, Append(s, x))
<1>1. PICK i \in DOMAIN s : s[i].command < k /\ s[i].executed /\ s[i].coarse = coarse
  BY DEF InOlderRow
<1>2. i \in DOMAIN Append(s, x) /\ Append(s, x)[i] = s[i]
  BY AppendFacts
<1> QED BY <1>1, <1>2 DEF InOlderRow

(* Among the rows of older commands there is a newest. *)
LEMMA LatestIsSource ==
  ASSUME Len(Curves) \in Nat, \A i \in DOMAIN rows : rows[i].command \in Commands,
         NEW k, Sources(k) # {}
  PROVE  LatestSource(k) \in Sources(k)
<1> DEFINE n == Len(Curves)
           S == {n - rows[i].command : i \in Sources(k)}
<1>1. \A i \in Sources(k) : rows[i].command \in 1 .. n
  BY DEF Sources, Commands
<1>2. S \in SUBSET Nat /\ S # {}
  BY <1>1
<1>3. PICK m \in S : \A x \in S : m <= x
  BY <1>2, LeastNatural
<1>4. PICK i \in Sources(k) : m = n - rows[i].command
  OBVIOUS
<1>5. ASSUME NEW j \in Sources(k) PROVE rows[j].command <= rows[i].command
  <2>1. m <= n - rows[j].command
    BY <1>3
  <2> QED BY <1>1, <1>4, <2>1
<1> QED BY <1>5 DEF LatestSource

-----------------------------------------------------------------------------
(* The process, the model and failed attempts leave the work as it is. *)
LEMMA QuietInv ==
  ASSUME WorkInv, manifest' = manifest, triton' \in Models, UNCHANGED <<results, rows, answers>>,
         job' = job \/ job' = NoJob
  PROVE  WorkInv'
<1>1. Entrypoint' = Entrypoint
  BY DEF Entrypoint
<1>2. job' # NoJob => JobHolds(job', answers', results', Entrypoint', rows')
  BY <1>1 DEF WorkInv
<1> QED BY <1>2 DEF WorkInv

(* A result that is stored makes the row its message promises. *)
LEMMA StoreInv ==
  ASSUME WorkInv, Store
  PROVE  WorkInv'
<1> DEFINE row == RowFor(results[Len(rows) + 1])
<1>1. /\ Len(rows) < Len(results) /\ rows' = Append(rows, row)
      /\ UNCHANGED <<manifest, triton, job, results, answers>>
  BY DEF Store, model
<1>2. /\ Listed(rows) /\ Listed(results)
      /\ \A i \in DOMAIN rows : rows[i] = RowFor(results[i])
  BY DEF WorkInv
<1>3. /\ Listed(rows') /\ Len(rows) \in Nat
      /\ Len(rows') = Len(rows) + 1 /\ DOMAIN rows' = 1 .. Len(rows) + 1
      /\ DOMAIN rows = 1 .. Len(rows)
      /\ \A i \in 1 .. Len(rows) : rows'[i] = rows[i]
      /\ rows'[Len(rows) + 1] = row
  BY <1>1, <1>2, AppendFacts
<1>4. Len(results) \in Nat
  BY <1>2, AppendFacts
<1>5. ASSUME NEW i \in DOMAIN rows' PROVE rows'[i] = RowFor(results[i])
  <2>1. i \in 1 .. Len(rows) \/ i = Len(rows) + 1
    BY <1>3
  <2> QED BY <1>2, <1>3, <2>1
<1>6. \A coarse, k : InOlderRow(coarse, k, rows) => InOlderRow(coarse, k, rows')
  BY <1>1, <1>2, RowsStay
<1>7. ASSUME NEW i \in DOMAIN results PROVE ResultHolds(results[i], answers, rows')
  <2>1. ResultHolds(results[i], answers, rows)
    BY DEF WorkInv
  <2> QED BY <1>6, <2>1 DEF ResultHolds
<1>8. ASSUME job # NoJob PROVE JobHolds(job, answers, results, Entrypoint, rows')
  <2>1. JobHolds(job, answers, results, Entrypoint, rows)
    BY <1>8 DEF WorkInv
  <2>2. ASSUME job.pc = "ask" PROVE RequestHolds(job.request, job.command, job.mode, rows')
    BY <1>6, <2>1, <2>2 DEF JobHolds, RequestHolds
  <2>3. ASSUME job.pc = "decode"
        PROVE  ResponseHolds(job.response, job.command, job.mode, answers[job.command], Entrypoint, rows')
    BY <1>6, <2>1, <2>3 DEF JobHolds, ResponseHolds
  <2> QED BY <2>1, <2>2, <2>3 DEF JobHolds
<1>9. Entrypoint' = Entrypoint
  BY <1>1 DEF Entrypoint
<1>10. Len(rows') <= Len(results)
  BY <1>1, <1>3, <1>4
<1>11. triton' \in Models /\ DOMAIN answers' = Commands
  BY <1>1 DEF WorkInv
<1> QED BY <1>1, <1>2, <1>3, <1>5, <1>7, <1>8, <1>9, <1>10, <1>11 DEF WorkInv

(* A response that is taken becomes a result that holds. *)
LEMMA PublishInv ==
  ASSUME WorkInv, Publish
  PROVE  WorkInv'
<1> DEFINE result == [command |-> job.command, message |-> MessageFor(RunFor(job.response))]
           k == job.command
<1>1. /\ job # NoJob /\ job.pc = "decode" /\ job' = NoJob
      /\ UNCHANGED <<manifest, triton, rows, answers>>
  BY DEF Publish, model
<1>2. CASE results' = results
  <2>1. triton' \in Models
    BY <1>1 DEF WorkInv
  <2> QED BY <1>1, <1>2, <2>1, QuietInv
<1>3. CASE results' = Append(results, result) /\ Accepts(job.response, Entrypoint, job.mode)
  <2>1. /\ Listed(results) /\ Listed(rows) /\ JobHolds(job, answers, results, Entrypoint, rows)
        /\ \A i \in DOMAIN rows : rows[i] = RowFor(results[i])
        /\ Len(rows) <= Len(results)
    BY <1>1 DEF WorkInv
  <2>2. /\ Listed(results') /\ Len(results) \in Nat
        /\ Len(results') = Len(results) + 1 /\ DOMAIN results' = 1 .. Len(results) + 1
        /\ DOMAIN results = 1 .. Len(results)
        /\ \A i \in 1 .. Len(results) : results'[i] = results[i]
        /\ results'[Len(results) + 1] = result
    BY <1>3, <2>1, AppendFacts
  <2>3. Len(rows) \in Nat /\ DOMAIN rows = 1 .. Len(rows)
    BY <2>1, AppendFacts
  <2>4. /\ k \in Commands
        /\ ResponseHolds(job.response, k, job.mode, answers[k], Entrypoint, rows)
    BY <1>1, <2>1 DEF JobHolds
  <2>5. ResultHolds(result, answers, rows)
    <3> DEFINE row == RowFor(result)
    <3>1. answers[k].executed \in BOOLEAN /\ Faithful(job.response, answers[k], job.mode, Entrypoint)
      BY <2>4 DEF ResponseHolds
    <3>2. StoredAsFound(row, answers[k]) /\ DecodesResult(row) /\ TableTakes(row)
      BY <1>3, <3>1, RowFacts
    <3>3. row.coarse = Positioned(ModelCoarseOrder, answers[k].coarse)
      <4> HIDE DEF row
      <4> QED BY <3>2 DEF StoredAsFound
    <3>4. answers[k].mode = "REUSE_PREVIOUS" => InOlderRow(row.coarse, k, rows)
      BY <2>4, <3>3 DEF ResponseHolds
    <3>5. ModelSawCurve(answers[k], Curves[k])
      BY <2>4 DEF ResponseHolds
    <3>6. result.command = k
      OBVIOUS
    <3> HIDE DEF row
    <3>7. row = RowFor(result)
      BY DEF row
    <3> HIDE DEF result
    <3> QED BY <2>4, <3>2, <3>4, <3>5, <3>6, <3>7 DEF ResultHolds
  <2> HIDE DEF result
  <2>6. ASSUME NEW i \in DOMAIN results' PROVE ResultHolds(results'[i], answers, rows)
    <3>1. CASE i \in 1 .. Len(results)
      BY <2>2, <3>1 DEF WorkInv
    <3>2. CASE i = Len(results) + 1
      BY <2>2, <2>5, <3>2
    <3> QED BY <2>2, <3>1, <3>2
  <2>7. ASSUME NEW i \in DOMAIN rows PROVE rows[i] = RowFor(results'[i])
    <3>1. i \in 1 .. Len(results)
      BY <2>1, <2>2, <2>3
    <3> QED BY <2>1, <2>2, <3>1
  <2>8. Len(rows) <= Len(results')
    BY <2>1, <2>2, <2>3
  <2>9. triton' \in Models /\ DOMAIN answers' = Commands
    BY <1>1 DEF WorkInv
  <2> QED BY <1>1, <2>1, <2>2, <2>6, <2>7, <2>8, <2>9 DEF WorkInv
<1> QED BY <1>2, <1>3 DEF Publish, Accepts

(* What is stored is read again as it was. *)
LEMMA ReusedFacts ==
  ASSUME WorkInv, NEW k \in Commands, ModeOf(k) = "REUSE_PREVIOUS",
         InputHolds("REUSE_PREVIOUS", ReusedCoarse(k))
  PROVE  /\ ReusedCoarse(k) \in [1 .. 7 -> 0 .. One]
         /\ InOlderRow(ReusedCoarse(k), k, rows)
<1> DEFINE i == LatestSource(k)
           coarse == ReusedCoarse(k)
<1>1. /\ Listed(rows) /\ Listed(results) /\ Len(rows) <= Len(results)
      /\ \A j \in DOMAIN rows : rows[j] = RowFor(results[j])
      /\ \A j \in DOMAIN results : ResultHolds(results[j], answers, rows)
  BY DEF WorkInv
<1>2. /\ DOMAIN rows = 1 .. Len(rows) /\ Len(rows) \in Nat
      /\ DOMAIN results = 1 .. Len(results) /\ Len(results) \in Nat
  BY <1>1, AppendFacts
<1>3. ASSUME NEW j \in DOMAIN rows
      PROVE  rows[j].command \in Commands
  <2>1. j \in DOMAIN results
    BY <1>1, <1>2
  <2>2. results[j].command \in Commands
    BY <1>1, <2>1 DEF ResultHolds
  <2>3. RowFor(results[j]).command = results[j].command
    BY DEF RowFor
  <2> QED BY <1>1, <2>2, <2>3
<1>4. Sources(k) # {}
  BY DEF ModeOf
<1>5. Len(Curves) \in Nat
  BY ServingAssumption
<1>6. i \in Sources(k)
  BY <1>3, <1>4, <1>5, LatestIsSource
<1>7. i \in DOMAIN rows /\ rows[i].command < k /\ rows[i].executed
  BY <1>6 DEF Sources
<1> HIDE DEF i
<1>8. coarse = rows[i].coarse
  BY DEF ReusedCoarse, i
<1>9. InOlderRow(coarse, k, rows)
  BY <1>7, <1>8 DEF InOlderRow
<1>10. coarse = [j \in 1 .. 7 |-> coarse[j]] /\ DOMAIN coarse = 1 .. 7
  <2>1. rows[i].coarse = Positioned(CoarseFieldsRead, results[i].message.coarse)
    <3>1. rows[i] = RowFor(results[i])
      BY <1>1, <1>7
    <3> QED BY <3>1 DEF RowFor
  <2>2. DOMAIN CoarseFieldsRead = 1 .. 7
    BY CoarseNames
  <2> QED BY <1>8, <2>1, <2>2 DEF Positioned
<1> HIDE DEF coarse
<1>11. \A j \in DOMAIN coarse : coarse[j] \in 0 .. One
  BY DEF InputHolds, coarse
<1>12. coarse \in [1 .. 7 -> 0 .. One]
  BY <1>10, <1>11
<1> QED BY <1>9, <1>12 DEF coarse

(* A curve is a sequence of epochs. *)
LEMMA CurveFacts ==
  ASSUME NEW k \in Commands
  PROVE  /\ Len(Curves[k]) \in Nat
         /\ Curves[k] \in [1 .. Len(Curves[k]) -> Epochs]
<1>1. Curves[k] \in Seq(Epochs)
  BY ServingAssumption DEF Commands
<1> QED BY <1>1

(* A request that is sent shows the model the curve of its command. *)
LEMMA PrepareInv ==
  ASSUME WorkInv, Prepare
  PROVE  WorkInv'
<1>1. PICK k \in Commands :
        /\ Prepares(Curves[k]) /\ ~Published(k)
        /\ InputHolds(ModeOf(k), ReusedCoarse(k))
        /\ job' = [pc |-> "ask", command |-> k, mode |-> ModeOf(k),
                   request |-> RequestFor(Entrypoint, Tensors(Curves[k], ModeOf(k), ReusedCoarse(k)))]
  BY DEF Prepare
<1>2. UNCHANGED <<manifest, triton, results, rows, answers>>
  BY DEF Prepare, model
<1> DEFINE mode == ModeOf(k)
           reused == ReusedCoarse(k)
           epochs == Curves[k]
           request == RequestFor(Entrypoint, Tensors(epochs, mode, reused))
<1>3. mode \in Modes
  BY DEF ModeOf, Modes
<1>4. mode = "REUSE_PREVIOUS" => reused \in [1 .. 7 -> 0 .. One] /\ InOlderRow(reused, k, rows)
  <2> SUFFICES ASSUME mode = "REUSE_PREVIOUS"
               PROVE  reused \in [1 .. 7 -> 0 .. One] /\ InOlderRow(reused, k, rows)
    OBVIOUS
  <2>1. InputHolds("REUSE_PREVIOUS", ReusedCoarse(k))
    BY <1>1
  <2> QED BY <2>1, ReusedFacts
<1>5. mode # "REUSE_PREVIOUS" => reused = NoCoarse
  BY DEF ReusedCoarse
<1>6. Len(epochs) \in Nat /\ epochs \in [1 .. Len(epochs) -> Epochs] /\ Prepares(epochs)
  BY <1>1, CurveFacts
<1> HIDE DEF mode, reused, epochs
<1>7. Reusable(reused)
  <2>1. 0 .. One \subseteq Int
    BY DEF One
  <2> QED BY <1>4, <1>5, <2>1 DEF Reusable
<1> HIDE DEF request
<1>8. /\ reused # NoCoarse => InputOf(request, "REUSED_COARSE_PROBS") = reused
      /\ ModelSawCurve([request |-> request], epochs)
  <2> DEFINE answer == [request |-> request]
  <2>1. PICK n \in Nat : n = Len(epochs)
    BY <1>6
  <2>2. epochs \in [1 .. n -> Epochs] /\ Len(epochs) = n
    BY <1>6, <2>1
  <2>3. request = RequestFor(Entrypoint, Tensors(epochs, mode, reused))
    BY DEF request
  <2>4. /\ ShowsSorted(request, epochs, n)
        /\ reused # NoCoarse => InputOf(request, "REUSED_COARSE_PROBS") = reused
    BY ONLY n \in Nat, <1>3, <1>7, <2>2, <2>3, RequestFacts
  <2>5. ShowsSorted(answer.request, epochs, n)
    BY <2>4
  <2> HIDE DEF answer
  <2>6. ModelSawCurve(answer, epochs)
    BY ONLY n \in Nat, <1>6, <2>2, <2>5, SeesCurve
  <2> QED BY <2>4, <2>6 DEF answer
<1>9. mode = "REUSE_PREVIOUS" => reused # NoCoarse
  <2>1. mode = "REUSE_PREVIOUS" => Len(reused) = 7
    BY <1>1 DEF InputHolds, mode, reused
  <2>2. Len(NoCoarse) = 0
    BY DEF NoCoarse
  <2> QED BY <2>1, <2>2
<1>10. RequestHolds(request, k, mode, rows)
  <2>1. mode = "REUSE_PREVIOUS" => InputOf(request, "REUSED_COARSE_PROBS") = reused
    BY <1>8, <1>9
  <2> QED BY <1>4, <1>8, <2>1 DEF RequestHolds, epochs
<1>11. job' = [pc |-> "ask", command |-> k, mode |-> mode, request |-> request]
  BY <1>1 DEF request, mode, reused, epochs
<1>12. JobHolds(job', answers, results, Entrypoint, rows)
  <2>1. \A i \in DOMAIN results : results[i].command # k
    BY <1>1 DEF Published
  <2>2. job'.pc = "ask" /\ job'.command = k /\ job'.mode = mode /\ job'.request = request
    BY <1>11
  <2>3. job'.pc # "decode"
    BY <2>2
  <2> HIDE DEF mode
  <2> QED BY <1>10, <2>1, <2>2, <2>3 DEF JobHolds
<1>13. Entrypoint' = Entrypoint
  BY <1>2 DEF Entrypoint
<1> QED BY <1>2, <1>12, <1>13 DEF WorkInv

(* A response, spoilt or not, can be taken only as the answer it is. *)
LEMMA AnswerInv ==
  ASSUME WorkInv, Answer
  PROVE  WorkInv'
<1> DEFINE k == job.command
           request == job.request
           mode == job.mode
           reused == mode = "REUSE_PREVIOUS"
           CoarseOf(found) == IF reused THEN InputOf(request, "REUSED_COARSE_PROBS")
                              ELSE Positioned(ModelCoarseOrder, found.coarse)
           AnswerOf(found) == [mode |-> mode, request |-> request,
                               coarse |-> Named(ModelCoarseOrder, CoarseOf(found)),
                               fine |-> found.fine, leaf |-> found.leaf, executed |-> ~reused]
           Decode(r) == [pc |-> "decode", command |-> k, mode |-> mode, response |-> r]
<1>1. PICK found \in Answers[k], order \in Orders :
        /\ answers' = [answers EXCEPT ![k] = AnswerOf(found)]
        /\ \E r : /\ job' = Decode(r)
                  /\ \/ r = ResponseOf(AnswerOf(found), CoarseOf(found), order)
                     \/ r \in Spoilt(AnswerOf(found), CoarseOf(found), order)
  BY DEF Answer
<1> DEFINE coarse == CoarseOf(found)
           answer == AnswerOf(found)
<1>2. PICK r : /\ job' = Decode(r)
               /\ r = ResponseOf(answer, coarse, order) \/ r \in Spoilt(answer, coarse, order)
  BY <1>1
<1>3. job # NoJob /\ job.pc = "ask" /\ UNCHANGED <<manifest, triton, results, rows>>
  BY DEF Answer, model
<1>4. /\ k \in Commands /\ \A i \in DOMAIN results : results[i].command # k
      /\ RequestHolds(request, k, mode, rows)
  BY <1>3 DEF WorkInv, JobHolds
<1>5. coarse = [i \in 1 .. 7 |-> coarse[i]] /\ DOMAIN coarse = 1 .. 7
  <2>1. CASE reused
    <3>1. coarse \in [1 .. 7 -> 0 .. One]
      BY <1>4, <2>1 DEF RequestHolds
    <3> HIDE DEF coarse
    <3> QED BY <3>1
  <2>2. CASE ~reused
    BY <2>2, CoarseNames DEF Positioned
  <2> QED BY <2>1, <2>2
<1>6. /\ answer.mode = mode /\ answer.request = request
      /\ answer.coarse = Named(ModelCoarseOrder, coarse)
      /\ answer.executed = ~reused
  OBVIOUS
<1>7. reused => InOlderRow(coarse, k, rows)
  BY <1>4 DEF RequestHolds
<1> HIDE DEF coarse, answer, CoarseOf, AnswerOf
<1>8. Positioned(ModelCoarseOrder, answer.coarse) = coarse
  <2> DEFINE V == {coarse[i] : i \in 1 .. 7}
  <2>1. coarse \in [1 .. 7 -> V]
    BY <1>5
  <2>2. Positioned(ModelCoarseOrder, Named(ModelCoarseOrder, coarse)) = coarse
    BY ONLY 7 \in Nat, <2>1, CoarseNames, NamesKeep
  <2> QED BY <1>6, <2>2
<1>9. Faithful(r, answer, mode, Entrypoint)
  <2> SUFFICES ASSUME Accepts(r, Entrypoint, mode)
               PROVE  /\ OutputOf(r, CoarseProbs) = Positioned(ModelCoarseOrder, answer.coarse)
                      /\ OutputOf(r, FineProbs) = Positioned(ModelFineOrder, answer.fine)
                      /\ OutputOf(r, LeafProbs) = Positioned(ModelLeafOrder, answer.leaf)
                      /\ OutputOf(r, Executed) = <<IF answer.executed THEN 1 ELSE 0>>
    BY DEF Faithful
  <2>1. PICK n \in Nat : DOMAIN triton.outputs = 1 .. n
    BY ServingAssumption DEF WorkInv
  <2>2. \A name \in Names : OutputOf(r, name) = OutputData(answer, coarse, name)
    BY <1>2, <1>5, <2>1, AcceptedFacts
  <2>3. /\ OutputOf(r, CoarseProbs) = OutputData(answer, coarse, CoarseProbs)
        /\ OutputOf(r, FineProbs) = OutputData(answer, coarse, FineProbs)
        /\ OutputOf(r, LeafProbs) = OutputData(answer, coarse, LeafProbs)
        /\ OutputOf(r, Executed) = OutputData(answer, coarse, Executed)
    BY <2>2 DEF Names
  <2>4. /\ OutputData(answer, coarse, CoarseProbs) = coarse
        /\ OutputData(answer, coarse, FineProbs) = Positioned(ModelFineOrder, answer.fine)
        /\ OutputData(answer, coarse, LeafProbs) = Positioned(ModelLeafOrder, answer.leaf)
        /\ OutputData(answer, coarse, Executed) = <<IF answer.executed THEN 1 ELSE 0>>
    BY DEF OutputData, CoarseProbs, FineProbs, LeafProbs, Executed
  <2> QED BY <1>8, <2>3, <2>4
<1>10. ModelSawCurve(answer, Curves[k])
  <2>1. ModelSawCurve([request |-> request], Curves[k])
    BY <1>4 DEF RequestHolds
  <2>2. [request |-> request].request = answer.request
    BY <1>6
  <2> QED BY <2>1, <2>2 DEF ModelSawCurve
<1>11. ResponseHolds(r, k, mode, answer, Entrypoint, rows)
  BY <1>6, <1>7, <1>8, <1>9, <1>10 DEF ResponseHolds
<1>12. answers' = [answers EXCEPT ![k] = answer]
  BY <1>1 DEF answer
<1>13. /\ DOMAIN answers' = Commands /\ answers'[k] = answer
       /\ \A c \in Commands : c # k => answers'[c] = answers[c]
  BY <1>4, <1>12 DEF WorkInv
<1>14. JobHolds(job', answers', results, Entrypoint, rows)
  <2>1. /\ job'.pc = "decode" /\ job'.pc # "ask" /\ job'.command = k /\ job'.mode = mode
        /\ job'.response = r
    BY <1>2
  <2> HIDE DEF k, mode
  <2> QED BY <1>4, <1>11, <1>13, <2>1 DEF JobHolds
<1>15. ASSUME NEW i \in DOMAIN results PROVE ResultHolds(results[i], answers', rows)
  <2>1. ResultHolds(results[i], answers, rows)
    BY DEF WorkInv
  <2>2. answers'[results[i].command] = answers[results[i].command]
    BY <1>4, <1>13, <2>1 DEF ResultHolds
  <2> QED BY <2>1, <2>2 DEF ResultHolds
<1>16. Entrypoint' = Entrypoint
  BY <1>3 DEF Entrypoint
<1> HIDE DEF k
<1> QED BY <1>3, <1>13, <1>14, <1>15, <1>16 DEF WorkInv

-----------------------------------------------------------------------------
(* At the start nothing is in hand. *)
LEMMA WorkInit == Init => WorkInv
<1> SUFFICES ASSUME Init PROVE WorkInv
  OBVIOUS
<1>1. Listed(<< >>)
  BY DEF Listed
<1> QED BY <1>1 DEF Init, WorkInv

(* Every step keeps the work as it has to be. *)
LEMMA WorkStep == WorkInv /\ [Next]_vars => WorkInv'
<1> SUFFICES ASSUME WorkInv, [Next]_vars PROVE WorkInv'
  OBVIOUS
<1> DEFINE Quiet == /\ manifest' = manifest /\ triton' \in Models
                    /\ UNCHANGED <<results, rows, answers>>
                    /\ job' = job \/ job' = NoJob
<1>1. triton \in Models
  BY DEF WorkInv
<1>2. CASE Proceed \/ GateRefuses \/ Process \/ Goroutine \/ Outside \/ RunnerReturns \/ Refuse
             \/ Reload \/ Done \/ UNCHANGED vars
  <2>1. Quiet
    BY <1>1, <1>2 DEF Proceed, GateRefuses, Process, Goroutine, Outside, RunnerReturns, Refuse,
                      Reload, Done, vars, model, work
  <2> QED BY <2>1, QuietInv
<1> QED BY <1>2, PrepareInv, AnswerInv, PublishInv, StoreInv DEF Next, Handle

(* Every stored run is the model's answer to the curve of its own command, *)
(* under the model's own names, and no result is refused: whatever curves, *)
(* models, manifests, answers and orders there are, however often a model  *)
(* is replaced or a response is spoilt.                                    *)
THEOREM StoredCorrect == Spec => []StoredIsTheModelsAnswer
<1>1. WorkInv => StoredIsTheModelsAnswer
  <2> SUFFICES ASSUME WorkInv PROVE StoredIsTheModelsAnswer
    OBVIOUS
  <2>1. /\ Listed(rows) /\ Listed(results) /\ Len(rows) <= Len(results)
        /\ \A i \in DOMAIN rows : rows[i] = RowFor(results[i])
        /\ \A i \in DOMAIN results : ResultHolds(results[i], answers, rows)
    BY DEF WorkInv
  <2>2. /\ DOMAIN rows = 1 .. Len(rows) /\ Len(rows) \in Nat
        /\ DOMAIN results = 1 .. Len(results) /\ Len(results) \in Nat
    BY <2>1, AppendFacts
  <2>3. ASSUME NEW i \in DOMAIN rows
        PROVE  LET answer == answers[rows[i].command]
               IN  /\ ModelSawCurve(answer, Curves[rows[i].command])
                   /\ StoredAsFound(rows[i], answer)
                   /\ ReusesStored(rows[i], answer)
    <3>1. i \in DOMAIN results
      BY <2>1, <2>2
    <3>2. rows[i] = RowFor(results[i]) /\ ResultHolds(results[i], answers, rows)
      BY <2>1, <3>1
    <3>3. rows[i].command = results[i].command
      BY <3>2 DEF RowFor
    <3> QED BY <3>2, <3>3 DEF ResultHolds, ReusesStored, InOlderRow
  <2>4. ASSUME NEW i \in DOMAIN results
        PROVE  DecodesResult(RowFor(results[i])) /\ TableTakes(RowFor(results[i]))
    BY <2>1 DEF ResultHolds
  <2> QED BY <2>3, <2>4 DEF StoredIsTheModelsAnswer
<1> QED BY <1>1, WorkInit, WorkStep, PTL DEF Spec
=============================================================================
