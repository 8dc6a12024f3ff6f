-------------------------- MODULE ExecutorIPCProofs --------------------------
(* Theorems about ExecutorIPC and Startup, for every value of their constants. *)
EXTENDS ExecutorIPC, TLAPS

(* A call that has not connected has left no trace. *)
FreshInv ==
    \A c \in Calls : client[c] \in {"idle", "locked"} =>
        /\ handler[c] = "none" /\ leader[c] = "none" /\ wire[c] = <<>>
        /\ result[c] = "none" /\ ~open[c]

(* A connection is open while its call waits, and an agent's call holds the lock meanwhile. *)
LockInv ==
    \A c \in Calls :
        /\ open[c] => client[c] = "waiting"
        /\ client[c] \in {"locked", "waiting"} /\ kind[c] # "verify" => c \in lock

(* Which process and watchdog there are at each point of the handler. *)
ProcessInv ==
    \A c \in Calls :
        /\ handler[c] \in {"none", "request", "spawning"} => leader[c] = "none"
        /\ leader[c] = "none" => children[c] = "none"
        /\ leader[c] = "killed" => children[c] # "obedient"
        /\ watcher[c] # "none" => handler[c] \in {"spawning", "running", "exceeded"}
        /\ watcher[c] = "killing" => leader[c] # "none"
        /\ handler[c] = "spawning" /\ kind[c] = "verify" /\ c \notin blind => watcher[c] # "none"
        /\ handler[c] = "running" /\ leader[c] = "running" /\ c \notin blind => watcher[c] # "none"
        /\ handler[c] = "closing" /\ kind[c] = "verify" => leader[c] # "running"
        /\ handler[c] = "over" => leader[c] # "running"

(* What a success on its way, or in the bridge, says about the process. *)
Backed(c, m) ==
    /\ m = "passed" => kind[c] = "verify" /\ leader[c] = "exited" /\ outcome[c]
    /\ m = "result" => outcome[c] /\ (kind[c] # "stream" => leader[c] = "exited")

WireInv ==
    \A c \in Calls :
        /\ \A i \in 1..Len(wire[c]) : Backed(c, wire[c][i])
        /\ result[c] = "passed" => Backed(c, "passed")
        /\ result[c] = "done" => Backed(c, "result")

(* Before the answer there is at most the result on the wire. *)
LengthInv ==
    \A c \in Calls :
        /\ Len(wire[c]) = 0 \/ Len(wire[c]) = 1 \/ Len(wire[c]) = 2
        /\ handler[c] \in {"none", "request", "spawning"} => wire[c] = <<>>
        /\ handler[c] \in {"running", "exceeded"} =>
              Len(wire[c]) = 0 \/ (Len(wire[c]) = 1 /\ wire[c][1] = "result")

(* What the executor has found out when nothing has changed since. *)
FoundInv ==
    changes = 0 =>
        /\ phase \in {"control", "required", "forbidden", "classify"} => found.direct = around.direct
        /\ phase \in {"required", "forbidden", "classify"} => found.control = around.control
        /\ phase = "classify" => found.forbidden = around.forbidden
        /\ phase \in {"base", "settings", "exec settings"} /\ around.proxy =>
              /\ ~around.direct
              /\ around.control = "denied" /\ around.forbidden = "denied"
        /\ phase \in {"settings", "exec settings"} => ~around.writable
        /\ phase = "exec settings" /\ ~around.skip => around.login /\ around.denies

(* TypeOK, with the wire a sequence. *)
Types ==
    /\ kind \in [Calls -> Kinds] /\ client \in [Calls -> Clients]
    /\ result \in [Calls -> Results] /\ lock \in {{}} \cup {{c} : c \in Calls}
    /\ open \in [Calls -> BOOLEAN] /\ served \in [Calls -> BOOLEAN]
    /\ outcome \in [Calls -> BOOLEAN]
    /\ wire \in [Calls -> Seq(Messages)]
    /\ handler \in [Calls -> Handlers] /\ watcher \in [Calls -> Watchers]
    /\ children \in [Calls -> Broods] /\ leader \in [Calls -> Leaders]
    /\ blind \subseteq Calls /\ crashes \in 0..MaxCrashes

(* The inductive invariant. *)
Inv ==
    /\ StartupTypeOK /\ Types
    /\ FreshInv /\ LockInv /\ ProcessInv
    /\ WireInv /\ LengthInv
    /\ FoundInv
-----------------------------------------------------------------------------
(* Types. *)

(* A sequence of at most two messages is one of TypeOK's. *)
LEMMA TypesImply == StartupTypeOK /\ Types /\ LengthInv => TypeOK
<1> SUFFICES ASSUME StartupTypeOK, Types, LengthInv PROVE TypeOK
  OBVIOUS
<1>1. ASSUME NEW c \in Calls PROVE wire[c] \in UNION {[1..n -> Messages] : n \in 0..2}
  <2>1. wire[c] \in Seq(Messages)
    BY DEF Types
  <2>2. Len(wire[c]) = 0 \/ Len(wire[c]) = 1 \/ Len(wire[c]) = 2
    BY DEF LengthInv
  <2>3. Len(wire[c]) \in 0..2
    BY <2>2
  <2>4. wire[c] \in [1..Len(wire[c]) -> Messages]
    BY <2>1
  <2>5. QED BY <2>3, <2>4
<1>2. QED BY <1>1 DEF Types, TypeOK

(* Nothing has happened yet. *)
LEMMA InitInv == Init => Inv
<1> SUFFICES ASSUME Init PROVE Inv
  OBVIOUS
<1> USE ExecutorIPCAssumption, StartupAssumption
<1>1. StartupTypeOK
  BY DEF Init, StartupInit, FirstPhase, StartupTypeOK, Phases, Nothing, Surroundings, Via
<1>2. Types
  BY DEF Init, Types, Kinds, Clients, Results, Handlers, Watchers, Broods, Leaders, Messages
<1>3. FreshInv /\ LockInv /\ ProcessInv
  BY DEF Init, FreshInv, LockInv, ProcessInv
<1>4. WireInv /\ LengthInv
  BY DEF Init, WireInv, LengthInv, Backed
<1>5. FoundInv
  BY DEF Init, StartupInit, FirstPhase, FoundInv
<1>6. QED BY <1>1, <1>2, <1>3, <1>4, <1>5 DEF Inv

(* The coroutine of a call returns. *)
LEMMA ReturnEffect ==
    ASSUME Types, NEW c \in Calls, NEW r \in Results, Return(c, r)
    PROVE  /\ client' \in [Calls -> Clients] /\ result' \in [Calls -> Results]
           /\ open' \in [Calls -> BOOLEAN] /\ wire' \in [Calls -> Seq(Messages)]
           /\ lock' \in {{}} \cup {{d} : d \in Calls} /\ lock' = lock \ {c}
           /\ client'[c] = "over" /\ result'[c] = r /\ ~open'[c] /\ wire'[c] = <<>>
           /\ \A d \in Calls \ {c} : /\ client'[d] = client[d] /\ result'[d] = result[d]
                                     /\ open'[d] = open[d] /\ wire'[d] = wire[d]
<1> USE DEF Return, At, Types
<1>1. client' \in [Calls -> Clients] /\ result' \in [Calls -> Results] /\ open' \in [Calls -> BOOLEAN]
  BY DEF Clients
<1>2. wire' \in [Calls -> Seq(Messages)]
  <2>1. <<>> \in Seq(Messages)
    OBVIOUS
  <2>2. QED BY <2>1
<1>3. lock' \in {{}} \cup {{d} : d \in Calls}
  OBVIOUS
<1>4. QED BY <1>1, <1>2, <1>3

(* A message is sent, if the bridge still has its end open. *)
LEMMA SendEffect ==
    ASSUME Types, NEW c \in Calls, NEW m \in Messages, Send(c, m)
    PROVE  /\ wire' \in [Calls -> Seq(Messages)]
           /\ \A d \in Calls \ {c} : wire'[d] = wire[d]
           /\ Len(wire[c]) \in Nat /\ Len(wire'[c]) \in Nat
           /\ Len(wire'[c]) = Len(wire[c]) \/ Len(wire'[c]) = Len(wire[c]) + 1
           /\ \A i \in 1..Len(wire'[c]) :
                 (i \in 1..Len(wire[c]) /\ wire'[c][i] = wire[c][i]) \/ wire'[c][i] = m
<1>1. wire[c] \in Seq(Messages) /\ Len(wire[c]) \in Nat
  BY DEF Types
<1>2. CASE open[c]
  <2>1. wire' = [wire EXCEPT ![c] = Append(wire[c], m)]
    BY <1>2 DEF Send, At
  <2>2. Append(wire[c], m) \in Seq(Messages) /\ Len(Append(wire[c], m)) = Len(wire[c]) + 1
    BY <1>1
  <2>3. \A i \in 1..(Len(wire[c]) + 1) :
           (i \in 1..Len(wire[c]) /\ Append(wire[c], m)[i] = wire[c][i]) \/ Append(wire[c], m)[i] = m
    BY <1>1
  <2>4. QED BY <2>1, <2>2, <2>3 DEF Types
<1>3. CASE ~open[c]
  BY <1>1, <1>3 DEF Send, Types
<1>4. QED BY <1>2, <1>3

(* After kill_process_group the leader is gone, and what it has killed has no obedient child. *)
LEMMA KillEffect ==
    ASSUME Types, NEW c \in Calls, KillGroup(c)
    PROVE  /\ leader' \in [Calls -> Leaders] /\ children' \in [Calls -> Broods]
           /\ \A d \in Calls \ {c} : leader'[d] = leader[d] /\ children'[d] = children[d]
           /\ \/ leader[c] # "running" /\ leader'[c] = leader[c] /\ children'[c] = children[c]
              \/ leader[c] = "running" /\ leader'[c] = "killed" /\ children'[c] # "obedient"
<1>1. CASE leader[c] # "running"
  BY <1>1 DEF KillGroup, Types
<1>2. CASE leader[c] = "running"
  <2> PICK b \in BOOLEAN : children' = IF ~b /\ children[c] = "stubborn"
                                         THEN children ELSE [children EXCEPT ![c] = "none"]
    BY <1>2 DEF KillGroup, At
  <2>1. leader' = [leader EXCEPT ![c] = "killed"]
    BY <1>2 DEF KillGroup, At
  <2>2. children' \in [Calls -> Broods] /\ children'[c] # "obedient"
    BY DEF Types, Broods
  <2>3. QED BY <1>2, <2>1, <2>2 DEF Types, Leaders
<1>3. QED BY <1>1, <1>2

(* Every variable keeps its type. *)
LEMMA TypesStep ==
    ASSUME Types, [Next]_vars
    PROVE  Types'
<1> USE ExecutorIPCAssumption
<1>1. ASSUME NEW c \in Calls, Begin(c) PROVE Types'
  <2> PICK k \in Kinds : /\ Admitted(k) /\ kind' = At(kind, c, k)
                         /\ lock' = IF k = "verify" THEN lock ELSE lock \cup {c}
    BY <1>1 DEF Begin
  <2>1. kind' \in [Calls -> Kinds] /\ client' \in [Calls -> Clients]
    BY <1>1 DEF Begin, At, Types, Clients
  <2>2. lock' \in {{}} \cup {{d} : d \in Calls}
    <3>1. CASE k = "verify"
      BY <3>1 DEF Types
    <3>2. CASE k # "verify"
      <4>1. lock' = {c}
        BY <3>2 DEF Admitted
      <4>2. QED BY <4>1
    <3>3. QED BY <3>1, <3>2
  <2>3. QED BY <1>1, <2>1, <2>2 DEF Begin, Types, socket, executor, process
<1>2. ASSUME NEW c \in Calls, Connect(c) PROVE Types'
  <2>1. served' \in [Calls -> BOOLEAN] /\ handler' \in [Calls -> Handlers]
    BY <1>2 DEF Connect, At, Types, Handlers
  <2>2. CASE Return(c, "failed")
    <3>1. "failed" \in Results
      BY DEF Results
    <3>2. QED BY <1>2, <2>1, <2>2, <3>1, ReturnEffect DEF Connect, Types, process
  <2>3. CASE /\ client' = At(client, c, "waiting") /\ open' = At(open, c, TRUE)
             /\ UNCHANGED <<result, lock, wire>>
    <3>1. client' \in [Calls -> Clients] /\ open' \in [Calls -> BOOLEAN]
      BY <2>3 DEF At, Types, Clients
    <3>2. QED BY <1>2, <2>1, <2>3, <3>1 DEF Connect, Types, process
  <2>4. QED BY <1>2, <2>2, <2>3 DEF Connect
<1>3. ASSUME NEW c \in Calls, Receive(c) PROVE Types'
  <2> DEFINE m == Head(wire[c])
             r == CASE result[c] = "done" -> "done" [] m = "passed" -> "passed"
                    [] m = "result" -> "done" [] OTHER -> "failed"
  <2>1. r \in Results
    BY DEF Results
  <2>2. CASE kind[c] = "stream" /\ m = "result"
    <3>1. Tail(wire[c]) \in Seq(Messages)
      BY <1>3 DEF Receive, Types
    <3>2. result' \in [Calls -> Results] /\ wire' \in [Calls -> Seq(Messages)]
      BY <1>3, <2>2, <3>1 DEF Receive, At, Types, Results
    <3>3. QED BY <1>3, <2>2, <3>2 DEF Receive, Types, executor, process
  <2>3. CASE ~(kind[c] = "stream" /\ m = "result")
    <3>1. Return(c, r)
      BY <1>3, <2>3 DEF Receive
    <3>2. QED BY <1>3, <2>1, <3>1, ReturnEffect DEF Receive, Types, executor, process
  <2>4. QED BY <2>2, <2>3
<1>4. ASSUME NEW c \in Calls, Ended(c) PROVE Types'
  <2> DEFINE r == IF result[c] = "done" THEN "done" ELSE "failed"
  <2>1. r \in Results /\ Return(c, r)
    BY <1>4 DEF Ended, Results
  <2>2. QED BY <1>4, <2>1, ReturnEffect DEF Ended, Types, executor, process
<1>5. ASSUME NEW c \in Calls, GiveUp(c) PROVE Types'
  <2>1. "failed" \in Results /\ Return(c, "failed")
    BY <1>5 DEF GiveUp, Results
  <2>2. QED BY <1>5, <2>1, ReturnEffect DEF GiveUp, Types, executor, process
<1>6. ASSUME NEW c \in Calls, Cancel(c) PROVE Types'
  BY <1>6 DEF Cancel, At, Types, Kinds, Clients, Results, Handlers, Watchers, Broods, Leaders,
       Messages, bridge, executor, process
<1>7. ASSUME NEW c \in Calls, Request(c) PROVE Types'
  <2> DEFINE m == IF kind[c] = "verify" THEN "not passed" ELSE "error"
  <2>1. m \in Messages
    BY DEF Messages
  <2>2. handler' \in [Calls -> Handlers] /\ watcher' \in [Calls -> Watchers]
    BY <1>7 DEF Request, Handler, At, Types, Handlers, Watchers
  <2>3. wire' \in [Calls -> Seq(Messages)]
    BY <1>7, <2>1, SendEffect DEF Request, Types
  <2>4. QED BY <1>7, <2>2, <2>3 DEF Request, Types, bridge, process
<1>8. ASSUME NEW c \in Calls, Spawn(c) PROVE Types'
  <2> DEFINE m == IF kind[c] = "verify" THEN "not passed" ELSE "error"
  <2>1. m \in Messages
    BY DEF Messages
  <2>2. handler' \in [Calls -> Handlers] /\ leader' \in [Calls -> Leaders]
    BY <1>8 DEF Spawn, Handler, At, Types, Handlers, Leaders
  <2>3. watcher' \in [Calls -> Watchers]
    BY <1>8 DEF Spawn, Watchdog, At, Types, Watchers
  <2>4. wire' \in [Calls -> Seq(Messages)]
    BY <1>8, <2>1, SendEffect DEF Spawn, Types
  <2>5. QED BY <1>8, <2>2, <2>3, <2>4 DEF Spawn, Types, bridge
<1>9. ASSUME NEW c \in Calls, Forward(c) PROVE Types'
  <2>1. "result" \in Messages /\ Send(c, "result")
    BY <1>9 DEF Forward, Messages
  <2>2. QED BY <1>9, <2>1, SendEffect DEF Forward, Types, bridge, executor, process
<1>10. ASSUME NEW c \in Calls, Complete(c) PROVE Types'
  <2> DEFINE m == CASE kind[c] = "verify" -> IF Passed(c) THEN "passed" ELSE "not passed"
                    [] kind[c] = "plain"  -> IF Passed(c) THEN "result" ELSE "exit"
                    [] OTHER              -> "exit"
  <2>1. m \in Messages /\ Send(c, m)
    BY <1>10 DEF Complete, Messages
  <2>2. handler' \in [Calls -> Handlers] /\ watcher' \in [Calls -> Watchers]
    BY <1>10 DEF Complete, Handler, At, Types, Handlers, Watchers
  <2>3. QED BY <1>10, <2>1, <2>2, SendEffect DEF Complete, Types, bridge, process
<1>11. ASSUME NEW c \in Calls, Exceed(c) PROVE Types'
  BY <1>11 DEF Exceed, Handler, At, Types, Kinds, Clients, Results, Handlers, Watchers,
       Broods, Leaders, Messages, bridge, socket, process
<1>12. ASSUME NEW c \in Calls, Exceeded(c) PROVE Types'
  <2> DEFINE m == IF kind[c] = "verify" THEN "not passed" ELSE "killed"
  <2>1. m \in Messages /\ Send(c, m) /\ KillGroup(c)
    BY <1>12 DEF Exceeded, Messages
  <2>2. handler' \in [Calls -> Handlers] /\ watcher' \in [Calls -> Watchers]
    BY <1>12 DEF Exceeded, Handler, At, Types, Handlers, Watchers
  <2>3. QED BY <1>12, <2>1, <2>2, SendEffect, KillEffect DEF Exceeded, Types, bridge
<1>13. ASSUME NEW c \in Calls, Broken(c) PROVE Types'
  BY <1>13 DEF Broken, Handler, At, Types, Kinds, Clients, Results, Handlers, Watchers,
       Broods, Leaders, Messages, bridge, socket, process
<1>14. ASSUME NEW c \in Calls, Close(c) PROVE Types'
  BY <1>14 DEF Close, Reap, KillGroup, Handler, At, Types, Kinds, Clients, Results, Handlers,
       Watchers, Broods, Leaders, Messages, bridge
<1>15. ASSUME NEW c \in Calls, Watch(c) PROVE Types'
  <2>1. watcher' \in [Calls -> Watchers] /\ blind' \subseteq Calls
    BY <1>15 DEF Watch, At, Types, Watchers
  <2>2. QED BY <1>15, <2>1 DEF Watch, Types, bridge, socket, process
<1>16. ASSUME NEW c \in Calls, WatcherKills(c) PROVE Types'
  BY <1>16 DEF WatcherKills, KillGroup, At, Types, Kinds, Clients, Results, Handlers,
       Watchers, Broods, Leaders, Messages, bridge, socket
<1>17. ASSUME NEW c \in Calls, Act(c) PROVE Types'
  <2>1. leader' \in [Calls -> Leaders]
    BY <1>17 DEF Act, At, Types, Leaders
  <2>2. children' \in [Calls -> Broods]
    BY <1>17 DEF Act, At, Types, Broods
  <2>3. outcome' \in [Calls -> BOOLEAN]
    BY <1>17 DEF Act, At, Types
  <2>4. QED BY <1>17, <2>1, <2>2, <2>3 DEF Act, Types, bridge, socket, executor
<1>18. ASSUME BridgeCrash PROVE Types'
  <2>1. client' \in [Calls -> Clients] /\ lock' \in {{}} \cup {{d} : d \in Calls}
    BY <1>18 DEF BridgeCrash, Types, Clients
  <2>2. open' \in [Calls -> BOOLEAN] /\ wire' \in [Calls -> Seq(Messages)]
    BY <1>18 DEF BridgeCrash
  <2>3. crashes' \in 0..MaxCrashes
    BY <1>18 DEF BridgeCrash, Crash, Types
  <2>4. QED BY <1>18, <2>1, <2>2, <2>3 DEF BridgeCrash, Types, executor, process
<1>19. ASSUME ExecutorCrash PROVE Types'
  <2>1. /\ handler' \in [Calls -> Handlers] /\ watcher' \in [Calls -> Watchers]
        /\ served' \in [Calls -> BOOLEAN]
    BY <1>19 DEF ExecutorCrash, Types, Handlers, Watchers
  <2>2. leader' \in [Calls -> Leaders] /\ children' \in [Calls -> Broods]
    BY <1>19 DEF ExecutorCrash, Types, Leaders, Broods
  <2>3. crashes' \in 0..MaxCrashes
    BY <1>19 DEF ExecutorCrash, Crash, Types
  <2>4. QED BY <1>19, <2>1, <2>2, <2>3 DEF ExecutorCrash, Types, bridge
<1>20. ASSUME Restart PROVE Types'
  BY <1>20 DEF Restart, Types, Kinds, Clients, Results, Handlers, Watchers, Broods, Leaders,
       Messages, bridge, socket, executor, process
<1>21. ASSUME StartupOnly PROVE Types'
  BY <1>21 DEF StartupOnly, Types, Kinds, Clients, Results, Handlers, Watchers, Broods,
       Leaders, Messages, bridge, socket, executor, process
<1>22. CASE UNCHANGED vars
  BY <1>22 DEF vars, Types, Kinds, Clients, Results, Handlers, Watchers, Broods, Leaders,
       Messages
<1>23. QED BY <1>1, <1>2, <1>3, <1>4, <1>5, <1>6, <1>7, <1>8, <1>9, <1>10, <1>11, <1>12,
     <1>13, <1>14, <1>15, <1>16, <1>17, <1>18, <1>19, <1>20, <1>21, <1>22 DEF Next, Coroutines

-----------------------------------------------------------------------------
(* The calls and the lock. *)

(* Until it connects a call touches nothing. *)
LEMMA FreshStep ==
    ASSUME Types, FreshInv, [Next]_vars
    PROVE  FreshInv'
<1>1. ASSUME NEW c \in Calls, Begin(c) PROVE FreshInv'
  BY <1>1 DEF Begin, Admitted, At, Types, FreshInv, socket, executor, process
<1>2. ASSUME NEW c \in Calls, Connect(c) PROVE FreshInv'
  BY <1>2 DEF Connect, Return, At, Types, FreshInv, process
<1>3. ASSUME NEW c \in Calls, Receive(c) PROVE FreshInv'
  BY <1>3 DEF Receive, Return, At, Types, FreshInv, executor, process
<1>4. ASSUME NEW c \in Calls, Ended(c) PROVE FreshInv'
  BY <1>4 DEF Ended, Return, At, Types, FreshInv, executor, process
<1>5. ASSUME NEW c \in Calls, GiveUp(c) PROVE FreshInv'
  BY <1>5 DEF GiveUp, Return, At, Types, FreshInv, executor, process
<1>6. ASSUME NEW c \in Calls, Cancel(c) PROVE FreshInv'
  BY <1>6 DEF Cancel, At, Types, FreshInv, bridge, executor, process
<1>7. ASSUME NEW c \in Calls, Request(c) PROVE FreshInv'
  BY <1>7 DEF Request, Handler, Send, At, Types, FreshInv, bridge, process
<1>8. ASSUME NEW c \in Calls, Spawn(c) PROVE FreshInv'
  BY <1>8 DEF Spawn, Watchdog, Send, Handler, At, Types, FreshInv, bridge
<1>9. ASSUME NEW c \in Calls, Forward(c) PROVE FreshInv'
  BY <1>9 DEF Forward, Send, At, Types, FreshInv, bridge, executor, process
<1>10. ASSUME NEW c \in Calls, Complete(c) PROVE FreshInv'
  BY <1>10 DEF Complete, Send, Handler, Passed, At, Types, FreshInv, bridge, process
<1>11. ASSUME NEW c \in Calls, Exceed(c) PROVE FreshInv'
  BY <1>11 DEF Exceed, Handler, At, Types, FreshInv, bridge, socket, process
<1>12. ASSUME NEW c \in Calls, Exceeded(c) PROVE FreshInv'
  BY <1>12 DEF Exceeded, KillGroup, Send, Handler, At, Types, FreshInv, bridge
<1>13. ASSUME NEW c \in Calls, Broken(c) PROVE FreshInv'
  BY <1>13 DEF Broken, Handler, At, Types, FreshInv, bridge, socket, process
<1>14. ASSUME NEW c \in Calls, Close(c) PROVE FreshInv'
  BY <1>14 DEF Close, Reap, KillGroup, Handler, At, Types, FreshInv, bridge
<1>15. ASSUME NEW c \in Calls, Watch(c) PROVE FreshInv'
  BY <1>15 DEF Watch, At, Types, FreshInv, bridge, socket, process
<1>16. ASSUME NEW c \in Calls, WatcherKills(c) PROVE FreshInv'
  BY <1>16 DEF WatcherKills, KillGroup, At, Types, FreshInv, bridge, socket
<1>17. ASSUME NEW c \in Calls, Act(c) PROVE FreshInv'
  BY <1>17 DEF Act, At, Types, FreshInv, bridge, socket, executor
<1>18. ASSUME BridgeCrash PROVE FreshInv'
  BY <1>18 DEF BridgeCrash, Crash, Types, FreshInv, executor, process
<1>19. ASSUME ExecutorCrash PROVE FreshInv'
  BY <1>19 DEF ExecutorCrash, Crash, Types, FreshInv, bridge
<1>20. ASSUME Restart PROVE FreshInv'
  BY <1>20 DEF Restart, Types, FreshInv, bridge, socket, executor, process
<1>21. ASSUME StartupOnly PROVE FreshInv'
  BY <1>21 DEF StartupOnly, Types, FreshInv, bridge, socket, executor, process
<1>22. CASE UNCHANGED vars
  BY <1>22 DEF vars, Types, FreshInv
<1>23. QED BY <1>1, <1>2, <1>3, <1>4, <1>5, <1>6, <1>7, <1>8, <1>9, <1>10, <1>11, <1>12,
     <1>13, <1>14, <1>15, <1>16, <1>17, <1>18, <1>19, <1>20, <1>21, <1>22 DEF Next, Coroutines

(* The lock is held around every agent's call, and the connection is closed before it goes. *)
LEMMA LockStep ==
    ASSUME Types, FreshInv, LockInv, [Next]_vars
    PROVE  LockInv'
<1>1. ASSUME NEW c \in Calls, Begin(c) PROVE LockInv'
  BY <1>1 DEF Begin, Admitted, At, Types, FreshInv, LockInv, socket, executor, process
<1>2. ASSUME NEW c \in Calls, Connect(c) PROVE LockInv'
  <2>1. CASE Return(c, "failed")
    <3>1. "failed" \in Results
      BY DEF Results
    <3>2. kind' = kind
      BY <1>2 DEF Connect
    <3>3. QED BY <2>1, <3>1, <3>2, ReturnEffect DEF LockInv
  <2>2. CASE /\ client' = At(client, c, "waiting") /\ open' = At(open, c, TRUE)
             /\ UNCHANGED <<result, lock, wire>>
    BY <1>2, <2>2 DEF Connect, At, Types, LockInv
  <2>3. QED BY <1>2, <2>1, <2>2 DEF Connect
<1>3. ASSUME NEW c \in Calls, Receive(c) PROVE LockInv'
  BY <1>3 DEF Receive, Return, At, Types, FreshInv, LockInv, executor, process
<1>4. ASSUME NEW c \in Calls, Ended(c) PROVE LockInv'
  BY <1>4 DEF Ended, Return, At, Types, FreshInv, LockInv, executor, process
<1>5. ASSUME NEW c \in Calls, GiveUp(c) PROVE LockInv'
  BY <1>5 DEF GiveUp, Return, At, Types, FreshInv, LockInv, executor, process
<1>6. ASSUME NEW c \in Calls, Cancel(c) PROVE LockInv'
  BY <1>6 DEF Cancel, At, Types, FreshInv, LockInv, bridge, executor, process
<1>7. ASSUME NEW c \in Calls, Request(c) PROVE LockInv'
  BY <1>7 DEF Request, Handler, Send, At, Types, FreshInv, LockInv, bridge, process
<1>8. ASSUME NEW c \in Calls, Spawn(c) PROVE LockInv'
  BY <1>8 DEF Spawn, Watchdog, Send, Handler, At, Types, FreshInv, LockInv, bridge
<1>9. ASSUME NEW c \in Calls, Forward(c) PROVE LockInv'
  BY <1>9 DEF Forward, Send, At, Types, FreshInv, LockInv, bridge, executor, process
<1>10. ASSUME NEW c \in Calls, Complete(c) PROVE LockInv'
  BY <1>10 DEF Complete, Send, Handler, Passed, At, Types, FreshInv, LockInv, bridge, process
<1>11. ASSUME NEW c \in Calls, Exceed(c) PROVE LockInv'
  BY <1>11 DEF Exceed, Handler, At, Types, FreshInv, LockInv, bridge, socket, process
<1>12. ASSUME NEW c \in Calls, Exceeded(c) PROVE LockInv'
  BY <1>12 DEF Exceeded, KillGroup, Send, Handler, At, Types, FreshInv, LockInv, bridge
<1>13. ASSUME NEW c \in Calls, Broken(c) PROVE LockInv'
  BY <1>13 DEF Broken, Handler, At, Types, FreshInv, LockInv, bridge, socket, process
<1>14. ASSUME NEW c \in Calls, Close(c) PROVE LockInv'
  BY <1>14 DEF Close, Reap, KillGroup, Handler, At, Types, FreshInv, LockInv, bridge
<1>15. ASSUME NEW c \in Calls, Watch(c) PROVE LockInv'
  BY <1>15 DEF Watch, At, Types, FreshInv, LockInv, bridge, socket, process
<1>16. ASSUME NEW c \in Calls, WatcherKills(c) PROVE LockInv'
  BY <1>16 DEF WatcherKills, KillGroup, At, Types, FreshInv, LockInv, bridge, socket
<1>17. ASSUME NEW c \in Calls, Act(c) PROVE LockInv'
  BY <1>17 DEF Act, At, Types, FreshInv, LockInv, bridge, socket, executor
<1>18. ASSUME BridgeCrash PROVE LockInv'
  BY <1>18 DEF BridgeCrash, Crash, Types, FreshInv, LockInv, executor, process
<1>19. ASSUME ExecutorCrash PROVE LockInv'
  BY <1>19 DEF ExecutorCrash, Crash, Types, FreshInv, LockInv, bridge
<1>20. ASSUME Restart PROVE LockInv'
  BY <1>20 DEF Restart, Types, FreshInv, LockInv, bridge, socket, executor, process
<1>21. ASSUME StartupOnly PROVE LockInv'
  BY <1>21 DEF StartupOnly, Types, FreshInv, LockInv, bridge, socket, executor, process
<1>22. CASE UNCHANGED vars
  BY <1>22 DEF vars, Types, FreshInv, LockInv
<1>23. QED BY <1>1, <1>2, <1>3, <1>4, <1>5, <1>6, <1>7, <1>8, <1>9, <1>10, <1>11, <1>12,
     <1>13, <1>14, <1>15, <1>16, <1>17, <1>18, <1>19, <1>20, <1>21, <1>22 DEF Next, Coroutines

-----------------------------------------------------------------------------
(* The processes. *)

(* A process has a watchdog or the handler that will end it, and no child survives its leader's
   killing unless it is stubborn. *)
LEMMA ProcessStep ==
    ASSUME Types, FreshInv, ProcessInv, [Next]_vars
    PROVE  ProcessInv'
<1>1. ASSUME NEW c \in Calls, Begin(c) PROVE ProcessInv'
  BY <1>1 DEF Begin, Admitted, At, Types, FreshInv, ProcessInv, socket, executor, process
<1>2. ASSUME NEW c \in Calls, Connect(c) PROVE ProcessInv'
  BY <1>2 DEF Connect, Return, At, Types, FreshInv, ProcessInv, process
<1>3. ASSUME NEW c \in Calls, Receive(c) PROVE ProcessInv'
  BY <1>3 DEF Receive, Return, At, Types, FreshInv, ProcessInv, executor, process
<1>4. ASSUME NEW c \in Calls, Ended(c) PROVE ProcessInv'
  BY <1>4 DEF Ended, Return, At, Types, FreshInv, ProcessInv, executor, process
<1>5. ASSUME NEW c \in Calls, GiveUp(c) PROVE ProcessInv'
  BY <1>5 DEF GiveUp, Return, At, Types, FreshInv, ProcessInv, executor, process
<1>6. ASSUME NEW c \in Calls, Cancel(c) PROVE ProcessInv'
  BY <1>6 DEF Cancel, At, Types, FreshInv, ProcessInv, bridge, executor, process
<1>7. ASSUME NEW c \in Calls, Request(c) PROVE ProcessInv'
  <2>1. handler[c] = "request" /\ leader[c] = "none"
    BY <1>7 DEF Request, ProcessInv
  <2>2. UNCHANGED <<kind, leader, children, blind>>
    BY <1>7 DEF Request, bridge, process
  <2>3. CASE /\ Handler(c, "spawning")
             /\ watcher' = At(watcher, c, IF kind[c] = "verify" THEN "reading" ELSE "none")
    BY <2>1, <2>2, <2>3 DEF Handler, At, Types, ProcessInv
  <2>4. CASE Handler(c, "closing") /\ UNCHANGED watcher
    BY <2>1, <2>2, <2>4 DEF Handler, At, Types, ProcessInv
  <2>5. QED BY <1>7, <2>3, <2>4 DEF Request
<1>8. ASSUME NEW c \in Calls, Spawn(c) PROVE ProcessInv'
  <2>1. handler[c] = "spawning" /\ leader[c] = "none" /\ children[c] = "none"
    BY <1>8 DEF Spawn, ProcessInv
  <2>2. UNCHANGED <<kind, children, blind>>
    BY <1>8 DEF Spawn, bridge
  <2>3. CASE /\ leader' = At(leader, c, "running") /\ watcher' = At(watcher, c, Watchdog(c))
             /\ Handler(c, "running")
    BY <2>1, <2>2, <2>3 DEF Handler, Watchdog, At, Types, ProcessInv
  <2>4. CASE Handler(c, "closing") /\ watcher' = At(watcher, c, "none") /\ UNCHANGED leader
    BY <2>1, <2>2, <2>4 DEF Handler, At, Types, ProcessInv
  <2>5. QED BY <1>8, <2>3, <2>4 DEF Spawn
<1>9. ASSUME NEW c \in Calls, Forward(c) PROVE ProcessInv'
  BY <1>9 DEF Forward, Send, At, Types, FreshInv, ProcessInv, bridge, executor, process
<1>10. ASSUME NEW c \in Calls, Complete(c) PROVE ProcessInv'
  BY <1>10 DEF Complete, Send, Handler, Passed, At, Types, FreshInv, ProcessInv, bridge, process
<1>11. ASSUME NEW c \in Calls, Exceed(c) PROVE ProcessInv'
  BY <1>11 DEF Exceed, Handler, At, Types, FreshInv, ProcessInv, bridge, socket, process
<1>12. ASSUME NEW c \in Calls, Exceeded(c) PROVE ProcessInv'
  <2>1. /\ handler' = [handler EXCEPT ![c] = "closing"] /\ watcher' = [watcher EXCEPT ![c] = "none"]
        /\ UNCHANGED <<kind, blind>>
    BY <1>12 DEF Exceeded, Handler, At, bridge
  <2>2. KillGroup(c) /\ handler[c] = "exceeded"
    BY <1>12 DEF Exceeded
  <2>3. QED BY <2>1, <2>2, KillEffect DEF Types, ProcessInv
<1>13. ASSUME NEW c \in Calls, Broken(c) PROVE ProcessInv'
  BY <1>13 DEF Broken, Handler, At, Types, FreshInv, ProcessInv, bridge, socket, process
<1>14. ASSUME NEW c \in Calls, Close(c) PROVE ProcessInv'
  BY <1>14 DEF Close, Reap, KillGroup, Handler, At, Types, FreshInv, ProcessInv, bridge
<1>15. ASSUME NEW c \in Calls, Watch(c) PROVE ProcessInv'
  BY <1>15 DEF Watch, At, Types, FreshInv, ProcessInv, bridge, socket, process
<1>16. ASSUME NEW c \in Calls, WatcherKills(c) PROVE ProcessInv'
  BY <1>16 DEF WatcherKills, KillGroup, At, Types, FreshInv, ProcessInv, bridge, socket
<1>17. ASSUME NEW c \in Calls, Act(c) PROVE ProcessInv'
  BY <1>17 DEF Act, At, Types, FreshInv, ProcessInv, bridge, socket, executor
<1>18. ASSUME BridgeCrash PROVE ProcessInv'
  BY <1>18 DEF BridgeCrash, Crash, Types, FreshInv, ProcessInv, executor, process
<1>19. ASSUME ExecutorCrash PROVE ProcessInv'
  BY <1>19 DEF ExecutorCrash, Crash, Types, FreshInv, ProcessInv, bridge
<1>20. ASSUME Restart PROVE ProcessInv'
  BY <1>20 DEF Restart, Types, FreshInv, ProcessInv, bridge, socket, executor, process
<1>21. ASSUME StartupOnly PROVE ProcessInv'
  BY <1>21 DEF StartupOnly, Types, FreshInv, ProcessInv, bridge, socket, executor, process
<1>22. CASE UNCHANGED vars
  BY <1>22 DEF vars, Types, FreshInv, ProcessInv
<1>23. QED BY <1>1, <1>2, <1>3, <1>4, <1>5, <1>6, <1>7, <1>8, <1>9, <1>10, <1>11, <1>12,
     <1>13, <1>14, <1>15, <1>16, <1>17, <1>18, <1>19, <1>20, <1>21, <1>22 DEF Next, Coroutines

-----------------------------------------------------------------------------
(* The answers. *)

(* Until the answer there is at most the result on the wire. *)
LEMMA LengthStep ==
    ASSUME Types, FreshInv, LengthInv, [Next]_vars
    PROVE  LengthInv'
<1>1. ASSUME NEW c \in Calls, Begin(c) PROVE LengthInv'
  BY <1>1 DEF Begin, Admitted, At, Types, FreshInv, LengthInv, socket, executor, process
<1>2. ASSUME NEW c \in Calls, Connect(c) PROVE LengthInv'
  BY <1>2 DEF Connect, Return, At, Types, FreshInv, LengthInv, process
<1>3. ASSUME NEW c \in Calls, Receive(c) PROVE LengthInv'
  <2> DEFINE m == Head(wire[c])
             r == CASE result[c] = "done" -> "done" [] m = "passed" -> "passed"
                    [] m = "result" -> "done" [] OTHER -> "failed"
  <2>1. r \in Results
    BY DEF Results
  <2>2. handler' = handler
    BY <1>3 DEF Receive, executor
  <2>3. CASE kind[c] = "stream" /\ m = "result"
    <3>1. wire[c] \in Seq(Messages) /\ wire[c] # <<>> /\ wire' = [wire EXCEPT ![c] = Tail(wire[c])]
      BY <1>3, <2>3 DEF Receive, At, Types
    <3>2. Len(Tail(wire[c])) = 0 \/ Len(Tail(wire[c])) = 1
      <4>1. Len(Tail(wire[c])) = Len(wire[c]) - 1 /\ Len(wire[c]) # 0
        BY <3>1
      <4>2. CASE Len(wire[c]) = 1
        BY <4>1, <4>2
      <4>3. CASE Len(wire[c]) = 2
        BY <4>1, <4>3
      <4>4. QED BY <4>1, <4>2, <4>3 DEF LengthInv
    <3>3. wire'[c] = Tail(wire[c]) /\ \A d \in Calls \ {c} : wire'[d] = wire[d]
      BY <3>1 DEF Types
    <3>4. handler[c] \in {"running", "exceeded"} => Len(wire'[c]) = 0
      <4>1. ASSUME handler[c] \in {"running", "exceeded"} PROVE Len(wire[c]) = 1
        BY <3>1, <4>1 DEF LengthInv
      <4>2. Len(Tail(wire[c])) = Len(wire[c]) - 1
        BY <3>1
      <4>3. ASSUME Len(wire[c]) = 1 PROVE Len(Tail(wire[c])) = 0
        BY <4>2, <4>3
      <4>4. QED BY <3>3, <4>1, <4>3
    <3>5. handler[c] \notin {"none", "request", "spawning"}
      BY <3>1 DEF LengthInv
    <3>6. QED BY <2>2, <3>2, <3>3, <3>4, <3>5 DEF LengthInv
  <2>4. CASE ~(kind[c] = "stream" /\ m = "result")
    <3>1. Return(c, r)
      BY <1>3, <2>4 DEF Receive
    <3>2. wire'[c] = <<>> /\ \A d \in Calls \ {c} : wire'[d] = wire[d]
      BY <2>1, <3>1, ReturnEffect
    <3>3. QED BY <2>2, <3>2 DEF LengthInv
  <2>5. QED BY <2>3, <2>4
<1>4. ASSUME NEW c \in Calls, Ended(c) PROVE LengthInv'
  BY <1>4 DEF Ended, Return, At, Types, FreshInv, LengthInv, executor, process
<1>5. ASSUME NEW c \in Calls, GiveUp(c) PROVE LengthInv'
  BY <1>5 DEF GiveUp, Return, At, Types, FreshInv, LengthInv, executor, process
<1>6. ASSUME NEW c \in Calls, Cancel(c) PROVE LengthInv'
  BY <1>6 DEF Cancel, At, Types, FreshInv, LengthInv, bridge, executor, process
<1>7. ASSUME NEW c \in Calls, Request(c) PROVE LengthInv'
  <2> DEFINE m == IF kind[c] = "verify" THEN "not passed" ELSE "error"
  <2>1. m \in Messages
    BY DEF Messages
  <2>2. wire[c] = <<>>
    BY <1>7 DEF Request, LengthInv
  <2>3. CASE Handler(c, "spawning") /\ UNCHANGED wire
    BY <2>2, <2>3 DEF Handler, At, Types, LengthInv
  <2>4. CASE Send(c, m) /\ Handler(c, "closing")
    <3>1. Len(wire'[c]) = 0 \/ Len(wire'[c]) = 1 \/ Len(wire'[c]) = 2
      <4>1. Len(wire[c]) = 0
        BY <2>2
      <4>2. Len(wire'[c]) = Len(wire[c]) \/ Len(wire'[c]) = Len(wire[c]) + 1
        BY <2>1, <2>4, SendEffect
      <4>3. QED BY <4>1, <4>2
    <3>2. \A d \in Calls \ {c} : wire'[d] = wire[d]
      BY <2>1, <2>4, SendEffect
    <3>3. QED BY <2>4, <3>1, <3>2 DEF Handler, At, Types, LengthInv
  <2>5. QED BY <1>7, <2>3, <2>4 DEF Request
<1>8. ASSUME NEW c \in Calls, Spawn(c) PROVE LengthInv'
  <2> DEFINE m == IF kind[c] = "verify" THEN "not passed" ELSE "error"
  <2>1. m \in Messages
    BY DEF Messages
  <2>2. wire[c] = <<>>
    BY <1>8 DEF Spawn, LengthInv
  <2>3. CASE Handler(c, "running") /\ UNCHANGED wire
    BY <2>2, <2>3 DEF Handler, At, Types, LengthInv
  <2>4. CASE Send(c, m) /\ Handler(c, "closing")
    <3>1. Len(wire'[c]) = 0 \/ Len(wire'[c]) = 1 \/ Len(wire'[c]) = 2
      <4>1. Len(wire[c]) = 0
        BY <2>2
      <4>2. Len(wire'[c]) = Len(wire[c]) \/ Len(wire'[c]) = Len(wire[c]) + 1
        BY <2>1, <2>4, SendEffect
      <4>3. QED BY <4>1, <4>2
    <3>2. \A d \in Calls \ {c} : wire'[d] = wire[d]
      BY <2>1, <2>4, SendEffect
    <3>3. QED BY <2>4, <3>1, <3>2 DEF Handler, At, Types, LengthInv
  <2>5. QED BY <1>8, <2>3, <2>4 DEF Spawn
<1>9. ASSUME NEW c \in Calls, Forward(c) PROVE LengthInv'
  BY <1>9 DEF Forward, Send, At, Types, FreshInv, LengthInv, bridge, executor, process
<1>10. ASSUME NEW c \in Calls, Complete(c) PROVE LengthInv'
  <2> DEFINE m == CASE kind[c] = "verify" -> IF Passed(c) THEN "passed" ELSE "not passed"
                    [] kind[c] = "plain"  -> IF Passed(c) THEN "result" ELSE "exit"
                    [] OTHER              -> "exit"
  <2>1. m \in Messages /\ Send(c, m)
    BY <1>10 DEF Complete, Messages
  <2>2. Len(wire[c]) = 0 \/ Len(wire[c]) = 1
    BY <1>10 DEF Complete, LengthInv
  <2>3. Len(wire'[c]) = 0 \/ Len(wire'[c]) = 1 \/ Len(wire'[c]) = 2
    <3>1. Len(wire'[c]) = Len(wire[c]) \/ Len(wire'[c]) = Len(wire[c]) + 1
      BY <2>1, SendEffect
    <3>2. CASE Len(wire[c]) = 0
      BY <3>1, <3>2
    <3>3. CASE Len(wire[c]) = 1
      BY <3>1, <3>3
    <3>4. QED BY <2>2, <3>2, <3>3
  <2>4. \A d \in Calls \ {c} : wire'[d] = wire[d]
    BY <2>1, SendEffect
  <2>5. handler' = [handler EXCEPT ![c] = "closing"]
    BY <1>10 DEF Complete, Handler, At
  <2>6. QED BY <2>3, <2>4, <2>5 DEF Types, LengthInv
<1>11. ASSUME NEW c \in Calls, Exceed(c) PROVE LengthInv'
  BY <1>11 DEF Exceed, Handler, At, Types, FreshInv, LengthInv, bridge, socket, process
<1>12. ASSUME NEW c \in Calls, Exceeded(c) PROVE LengthInv'
  <2> DEFINE m == IF kind[c] = "verify" THEN "not passed" ELSE "killed"
  <2>1. m \in Messages /\ Send(c, m) /\ KillGroup(c)
    BY <1>12 DEF Exceeded, Messages
  <2>2. Len(wire[c]) = 0 \/ Len(wire[c]) = 1
    BY <1>12 DEF Exceeded, LengthInv
  <2>3. Len(wire'[c]) = 0 \/ Len(wire'[c]) = 1 \/ Len(wire'[c]) = 2
    <3>1. Len(wire'[c]) = Len(wire[c]) \/ Len(wire'[c]) = Len(wire[c]) + 1
      BY <2>1, SendEffect
    <3>2. CASE Len(wire[c]) = 0
      BY <3>1, <3>2
    <3>3. CASE Len(wire[c]) = 1
      BY <3>1, <3>3
    <3>4. QED BY <2>2, <3>2, <3>3
  <2>4. \A d \in Calls \ {c} : wire'[d] = wire[d]
    BY <2>1, SendEffect
  <2>5. handler' = [handler EXCEPT ![c] = "closing"]
    BY <1>12 DEF Exceeded, Handler, At
  <2>6. QED BY <2>3, <2>4, <2>5 DEF Types, LengthInv
<1>13. ASSUME NEW c \in Calls, Broken(c) PROVE LengthInv'
  BY <1>13 DEF Broken, Handler, At, Types, FreshInv, LengthInv, bridge, socket, process
<1>14. ASSUME NEW c \in Calls, Close(c) PROVE LengthInv'
  BY <1>14 DEF Close, Reap, KillGroup, Handler, At, Types, FreshInv, LengthInv, bridge
<1>15. ASSUME NEW c \in Calls, Watch(c) PROVE LengthInv'
  BY <1>15 DEF Watch, At, Types, FreshInv, LengthInv, bridge, socket, process
<1>16. ASSUME NEW c \in Calls, WatcherKills(c) PROVE LengthInv'
  BY <1>16 DEF WatcherKills, KillGroup, At, Types, FreshInv, LengthInv, bridge, socket
<1>17. ASSUME NEW c \in Calls, Act(c) PROVE LengthInv'
  BY <1>17 DEF Act, At, Types, FreshInv, LengthInv, bridge, socket, executor
<1>18. ASSUME BridgeCrash PROVE LengthInv'
  BY <1>18 DEF BridgeCrash, Crash, Types, FreshInv, LengthInv, executor, process
<1>19. ASSUME ExecutorCrash PROVE LengthInv'
  BY <1>19 DEF ExecutorCrash, Crash, Types, FreshInv, LengthInv, bridge
<1>20. ASSUME Restart PROVE LengthInv'
  BY <1>20 DEF Restart, Types, FreshInv, LengthInv, bridge, socket, executor, process
<1>21. ASSUME StartupOnly PROVE LengthInv'
  BY <1>21 DEF StartupOnly, Types, FreshInv, LengthInv, bridge, socket, executor, process
<1>22. CASE UNCHANGED vars
  BY <1>22 DEF vars, Types, FreshInv, LengthInv
<1>23. QED BY <1>1, <1>2, <1>3, <1>4, <1>5, <1>6, <1>7, <1>8, <1>9, <1>10, <1>11, <1>12,
     <1>13, <1>14, <1>15, <1>16, <1>17, <1>18, <1>19, <1>20, <1>21, <1>22 DEF Next, Coroutines

(* A message that is backed is sent, while no process loses its outcome. *)
LEMMA SendBacked ==
    ASSUME Types, WireInv, NEW c \in Calls, NEW m \in Messages, Send(c, m), Backed(c, m),
           UNCHANGED <<kind, outcome, result>>,
           \A d \in Calls : leader[d] = "exited" => leader'[d] = "exited"
    PROVE  WireInv'
<1>1. ASSUME NEW d \in Calls, NEW x, Backed(d, x) PROVE Backed(d, x)'
  BY <1>1 DEF Backed
<1>2. ASSUME NEW d \in Calls, NEW i \in 1..Len(wire'[d])
      PROVE  Backed(d, wire[d][i])'
  <2>1. CASE d # c
    <3>1. wire'[d] = wire[d] /\ i \in 1..Len(wire[d])
      BY <1>2, <2>1, SendEffect
    <3>2. Backed(d, wire[d][i])
      BY <3>1 DEF WireInv
    <3>3. QED BY <3>1, <3>2 DEF Backed
  <2>2. CASE d = c /\ wire'[c][i] = m
    BY <2>2 DEF Backed
  <2>3. CASE d = c /\ wire'[c][i] # m
    <3>1. wire'[c][i] = wire[c][i] /\ i \in 1..Len(wire[c])
      BY <1>2, <2>3, SendEffect
    <3>2. Backed(c, wire[c][i])
      BY <3>1 DEF WireInv
    <3>3. QED BY <2>3, <3>1, <3>2 DEF Backed
  <2>4. QED BY <2>1, <2>2, <2>3
<1>3. QED BY <1>1, <1>2 DEF WireInv

(* A success that is sent, and what the bridge makes of it, is the process's own. *)
LEMMA WireStep ==
    ASSUME Types, FreshInv, ProcessInv, WireInv, [Next]_vars
    PROVE  WireInv'
<1>1. ASSUME NEW c \in Calls, Begin(c) PROVE WireInv'
  BY <1>1 DEF Begin, Admitted, At, Types, FreshInv, WireInv, Backed, socket, executor, process
<1>2. ASSUME NEW c \in Calls, Connect(c) PROVE WireInv'
  BY <1>2 DEF Connect, Return, At, Types, FreshInv, WireInv, Backed, process
<1>3. ASSUME NEW c \in Calls, Receive(c) PROVE WireInv'
  <2> DEFINE m == Head(wire[c])
             r == CASE result[c] = "done" -> "done" [] m = "passed" -> "passed"
                    [] m = "result" -> "done" [] OTHER -> "failed"
  <2>1. r \in Results
    BY DEF Results
  <2>2. UNCHANGED <<kind, leader, outcome>>
    BY <1>3 DEF Receive, process
  <2>3. wire[c] \in Seq(Messages) /\ wire[c] # <<>> /\ m = wire[c][1] /\ 1 \in 1..Len(wire[c])
    BY <1>3 DEF Receive, Types
  <2>4. Backed(c, m)
    BY <2>3 DEF WireInv
  <2>5. CASE kind[c] = "stream" /\ m = "result"
    <3>1. wire' = [wire EXCEPT ![c] = Tail(wire[c])] /\ result' = [result EXCEPT ![c] = "done"]
      BY <1>3, <2>5 DEF Receive, At
    <3>2. \A i \in 1..Len(Tail(wire[c])) : Tail(wire[c])[i] = wire[c][i + 1] /\ i + 1 \in 1..Len(wire[c])
      BY <2>3
    <3>3. ASSUME NEW d \in Calls, NEW x, Backed(d, x) PROVE Backed(d, x)'
      BY <2>2, <3>3 DEF Backed
    <3>4. ASSUME NEW d \in Calls, NEW i \in 1..Len(wire'[d]) PROVE Backed(d, wire[d][i])'
      <4>1. CASE d = c
        <5>1. wire'[c] = Tail(wire[c])
          BY <3>1 DEF Types
        <5>2. i \in 1..Len(Tail(wire[c]))
          BY <3>4, <4>1, <5>1
        <5>3. wire'[c][i] = wire[c][i + 1] /\ Backed(c, wire[c][i + 1])
          BY <3>2, <5>1, <5>2 DEF WireInv
        <5>4. QED BY <2>2, <4>1, <5>3 DEF Backed
      <4>2. CASE d # c
        <5>1. wire'[d] = wire[d]
          BY <3>1, <4>2 DEF Types
        <5>2. Backed(d, wire[d][i])
          BY <3>4, <5>1 DEF WireInv
        <5>3. QED BY <2>2, <5>1, <5>2 DEF Backed
      <4>3. QED BY <4>1, <4>2
    <3>5. ASSUME NEW d \in Calls
          PROVE  /\ result'[d] = "passed" => Backed(d, "passed")
                 /\ result'[d] = "done" => Backed(d, "result")
      BY <2>4, <2>5, <3>1 DEF Types, WireInv
    <3>6. QED BY <3>3, <3>4, <3>5 DEF WireInv
  <2>6. CASE ~(kind[c] = "stream" /\ m = "result")
    <3>1. Return(c, r)
      BY <1>3, <2>6 DEF Receive
    <3>2. /\ wire'[c] = <<>> /\ result'[c] = r
          /\ \A d \in Calls \ {c} : wire'[d] = wire[d] /\ result'[d] = result[d]
      BY <2>1, <3>1, ReturnEffect
    <3>3. r = "passed" => Backed(c, "passed")
      BY <2>4 DEF WireInv
    <3>4. r = "done" => Backed(c, "result")
      BY <2>4 DEF WireInv
    <3>5. QED BY <2>2, <3>2, <3>3, <3>4 DEF WireInv, Backed
  <2>7. QED BY <2>5, <2>6
<1>4. ASSUME NEW c \in Calls, Ended(c) PROVE WireInv'
  BY <1>4 DEF Ended, Return, At, Types, FreshInv, WireInv, Backed, executor, process
<1>5. ASSUME NEW c \in Calls, GiveUp(c) PROVE WireInv'
  BY <1>5 DEF GiveUp, Return, At, Types, FreshInv, WireInv, Backed, executor, process
<1>6. ASSUME NEW c \in Calls, Cancel(c) PROVE WireInv'
  BY <1>6 DEF Cancel, At, Types, FreshInv, WireInv, Backed, bridge, executor, process
<1>7. ASSUME NEW c \in Calls, Request(c) PROVE WireInv'
  <2> DEFINE m == IF kind[c] = "verify" THEN "not passed" ELSE "error"
  <2>1. m \in Messages
    BY DEF Messages
  <2>2. UNCHANGED <<kind, leader, outcome, result>>
    BY <1>7 DEF Request, bridge, process
  <2>3. CASE UNCHANGED wire
    BY <2>2, <2>3 DEF WireInv, Backed
  <2>4. CASE Send(c, m)
    <3>1. Backed(c, m)
      BY DEF Backed
    <3>2. QED BY <2>1, <2>2, <2>4, <3>1, SendBacked
  <2>5. QED BY <1>7, <2>3, <2>4 DEF Request
<1>8. ASSUME NEW c \in Calls, Spawn(c) PROVE WireInv'
  <2> DEFINE m == IF kind[c] = "verify" THEN "not passed" ELSE "error"
  <2>1. m \in Messages
    BY DEF Messages
  <2>2. leader[c] = "none" /\ UNCHANGED <<kind, outcome, result>>
    BY <1>8 DEF Spawn, ProcessInv, bridge
  <2>3. \A d \in Calls : leader[d] = "exited" => leader'[d] = "exited"
    BY <1>8, <2>2 DEF Spawn, At, Types
  <2>4. CASE UNCHANGED wire
    BY <2>2, <2>3, <2>4 DEF WireInv, Backed
  <2>5. CASE Send(c, m)
    <3>1. Backed(c, m)
      BY DEF Backed
    <3>2. QED BY <2>1, <2>2, <2>3, <2>5, <3>1, SendBacked
  <2>6. QED BY <1>8, <2>4, <2>5 DEF Spawn
<1>9. ASSUME NEW c \in Calls, Forward(c) PROVE WireInv'
  BY <1>9 DEF Forward, Send, At, Types, FreshInv, WireInv, Backed, bridge, executor, process
<1>10. ASSUME NEW c \in Calls, Complete(c) PROVE WireInv'
  <2> DEFINE m == CASE kind[c] = "verify" -> IF Passed(c) THEN "passed" ELSE "not passed"
                    [] kind[c] = "plain"  -> IF Passed(c) THEN "result" ELSE "exit"
                    [] OTHER              -> "exit"
  <2>1. m \in Messages /\ Send(c, m)
    BY <1>10 DEF Complete, Messages
  <2>2. UNCHANGED <<kind, leader, outcome, result>>
    BY <1>10 DEF Complete, bridge, process
  <2>3. Backed(c, m)
    BY DEF Backed, Passed
  <2>4. QED BY <2>1, <2>2, <2>3, SendBacked
<1>11. ASSUME NEW c \in Calls, Exceed(c) PROVE WireInv'
  BY <1>11 DEF Exceed, Handler, At, Types, FreshInv, WireInv, Backed, bridge, socket, process
<1>12. ASSUME NEW c \in Calls, Exceeded(c) PROVE WireInv'
  <2> DEFINE m == IF kind[c] = "verify" THEN "not passed" ELSE "killed"
  <2>1. m \in Messages /\ Send(c, m) /\ KillGroup(c)
    BY <1>12 DEF Exceeded, Messages
  <2>2. UNCHANGED <<kind, outcome, result>>
    BY <1>12 DEF Exceeded, bridge
  <2>3. \A d \in Calls : leader[d] = "exited" => leader'[d] = "exited"
    BY <2>1, KillEffect
  <2>4. Backed(c, m)
    BY DEF Backed
  <2>5. QED BY <2>1, <2>2, <2>3, <2>4, SendBacked
<1>13. ASSUME NEW c \in Calls, Broken(c) PROVE WireInv'
  BY <1>13 DEF Broken, Handler, At, Types, FreshInv, WireInv, Backed, bridge, socket, process
<1>14. ASSUME NEW c \in Calls, Close(c) PROVE WireInv'
  BY <1>14 DEF Close, Reap, KillGroup, Handler, At, Types, FreshInv, WireInv, Backed, bridge
<1>15. ASSUME NEW c \in Calls, Watch(c) PROVE WireInv'
  BY <1>15 DEF Watch, At, Types, FreshInv, WireInv, Backed, bridge, socket, process
<1>16. ASSUME NEW c \in Calls, WatcherKills(c) PROVE WireInv'
  BY <1>16 DEF WatcherKills, KillGroup, At, Types, FreshInv, WireInv, Backed, bridge, socket
<1>17. ASSUME NEW c \in Calls, Act(c) PROVE WireInv'
  <2>1. UNCHANGED <<kind, wire, result>>
    BY <1>17 DEF Act, bridge, socket
  <2>2. \A d \in Calls : leader[d] = "exited" => leader'[d] = "exited"
    BY <1>17 DEF Act, At, Types
  <2>3. \A d \in Calls : outcome[d] /\ (kind[d] # "stream" => leader[d] = "exited") => outcome'[d]
    BY <1>17 DEF Act, At, Types
  <2>4. ASSUME NEW d \in Calls, NEW m, Backed(d, m) PROVE Backed(d, m)'
    BY <2>1, <2>2, <2>3, <2>4 DEF Backed
  <2>5. QED BY <2>1, <2>4 DEF WireInv
<1>18. ASSUME BridgeCrash PROVE WireInv'
  BY <1>18 DEF BridgeCrash, Crash, Types, FreshInv, WireInv, Backed, executor, process
<1>19. ASSUME ExecutorCrash PROVE WireInv'
  BY <1>19 DEF ExecutorCrash, Crash, Types, FreshInv, WireInv, Backed, bridge
<1>20. ASSUME Restart PROVE WireInv'
  BY <1>20 DEF Restart, Types, FreshInv, WireInv, Backed, bridge, socket, executor, process
<1>21. ASSUME StartupOnly PROVE WireInv'
  BY <1>21 DEF StartupOnly, Types, FreshInv, WireInv, Backed, bridge, socket, executor, process
<1>22. CASE UNCHANGED vars
  BY <1>22 DEF vars, Types, FreshInv, WireInv, Backed
<1>23. QED BY <1>1, <1>2, <1>3, <1>4, <1>5, <1>6, <1>7, <1>8, <1>9, <1>10, <1>11, <1>12,
     <1>13, <1>14, <1>15, <1>16, <1>17, <1>18, <1>19, <1>20, <1>21, <1>22 DEF Next, Coroutines

-----------------------------------------------------------------------------
(* The start of the executor. *)

(* What a step can do to the start. *)
LEMMA StartupMoves ==
    ASSUME [Next]_vars
    PROVE  \/ StartupStep \/ Change
           \/ phase' = "down" /\ UNCHANGED <<around, found, changes>>
           \/ Boot
           \/ UNCHANGED startup
<1>1. ASSUME NEW c \in Calls, Coroutines(c) \/ Act(c) PROVE UNCHANGED startup
  BY <1>1 DEF Coroutines, Begin, Connect, Receive, Ended, GiveUp, Cancel, Request, Spawn,
     Forward, Complete, Exceed, Exceeded, Broken, Close, Watch, WatcherKills, Act
<1>2. CASE BridgeCrash
  BY <1>2 DEF BridgeCrash
<1>3. CASE ExecutorCrash
  BY <1>3 DEF ExecutorCrash
<1>4. CASE Restart
  BY <1>4 DEF Restart
<1>5. CASE UNCHANGED vars
  BY <1>5 DEF vars, startup
<1>6. QED BY <1>1, <1>2, <1>3, <1>4, <1>5 DEF Next

(* The four probes, one by one. *)
LEMMA ProbeCases ==
    ASSUME StartupTypeOK, Probe
    PROVE  /\ UNCHANGED <<around, changes>>
           /\ \/ /\ phase = "direct" /\ phase' = "control"
                 /\ found' = [found EXCEPT !.direct = around.direct]
              \/ /\ phase = "control" /\ phase' = "required"
                 /\ found' = [found EXCEPT !.control = around.control]
              \/ /\ phase = "required" /\ phase' = "forbidden"
                 /\ found' = [found EXCEPT !.required = around.required]
              \/ /\ phase = "forbidden" /\ phase' = "classify"
                 /\ found' = [found EXCEPT !.forbidden = around.forbidden]
<1>1. UNCHANGED <<around, changes>>
  BY DEF Probe
<1>2. phase \in {"direct", "control", "required", "forbidden"} /\ phase' = After[phase]
  BY DEF Probe, After
<1>3. CASE phase = "direct"
  BY <1>1, <1>2, <1>3 DEF Probe, After
<1>4. CASE phase = "control"
  BY <1>1, <1>2, <1>4 DEF Probe, After
<1>5. CASE phase = "required"
  BY <1>1, <1>2, <1>5 DEF Probe, After
<1>6. CASE phase = "forbidden"
  BY <1>1, <1>2, <1>6 DEF Probe, After
<1>7. QED BY <1>2, <1>3, <1>4, <1>5, <1>6

(* What leaving a phase for another does. *)
LEMMA GotoEffect ==
    ASSUME StartupTypeOK, NEW p \in Phases, Goto(p)
    PROVE  /\ StartupTypeOK'
           /\ phase' = p
           /\ p \notin {"serving", "refused"} => UNCHANGED <<around, changes>>
<1>1. Nothing \in Surroundings
  BY DEF Nothing, Surroundings, Via
<1>2. QED BY <1>1, StartupAssumption DEF Goto, StartupTypeOK

(* Where the four checks go. *)
LEMMA CheckCases ==
    ASSUME Classify \/ CheckBase \/ SettingsCanary \/ ExecCanary
    PROVE  \E p \in Phases :
              /\ Goto(p)
              /\ \/ /\ phase = "classify"
                    /\ p = CASE Egress = "ok" -> "base" [] Violation(Egress) -> "refused"
                             [] OTHER -> "direct"
                 \/ /\ phase = "base"
                    /\ p = IF around.writable THEN "refused" ELSE "settings"
                 \/ /\ phase = "settings"
                    /\ \/ p = AfterSettings /\ (around.skip \/ (around.login /\ around.denies))
                       \/ p = "settings"
                       \/ p = "refused" /\ ~around.denies
                 \/ /\ phase = "exec settings"
                    /\ \/ p = "refused" /\ ~around.execDenies
                       \/ p = "serving" /\ (around.skip \/ ~around.login \/ around.execDenies)
<1>1. CASE Classify
  BY <1>1 DEF Classify, Phases
<1>2. CASE CheckBase
  BY <1>2 DEF CheckBase, Phases
<1>3. CASE SettingsCanary
  <2>1. AfterSettings \in Phases
    BY DEF AfterSettings, Phases
  <2>2. CASE around.skip
    <3>1. phase = "settings" /\ Goto(AfterSettings)
      BY <1>3, <2>2 DEF SettingsCanary
    <3>2. QED BY <2>1, <2>2, <3>1
  <2>3. CASE ~around.skip /\ ~around.login
    <3>1. phase = "settings" /\ Goto("settings")
      BY <1>3, <2>3 DEF SettingsCanary
    <3>2. QED BY <3>1 DEF Phases
  <2>4. CASE ~around.skip /\ around.login /\ ~around.denies
    <3>1. phase = "settings" /\ Goto("refused")
      BY <1>3, <2>4 DEF SettingsCanary
    <3>2. QED BY <2>4, <3>1 DEF Phases
  <2>5. CASE ~around.skip /\ around.login /\ around.denies
    <3>1. phase = "settings" /\ Goto(AfterSettings)
      BY <1>3, <2>5 DEF SettingsCanary
    <3>2. QED BY <2>1, <2>5, <3>1
  <2>6. QED BY <2>2, <2>3, <2>4, <2>5
<1>4. CASE ExecCanary
  <2>1. CASE ~around.skip /\ around.login /\ ~around.execDenies
    BY <1>4, <2>1 DEF ExecCanary, Phases
  <2>2. CASE ~(~around.skip /\ around.login /\ ~around.execDenies)
    BY <1>4, <2>2 DEF ExecCanary, Phases
  <2>3. QED BY <2>1, <2>2
<1>5. QED BY <1>1, <1>2, <1>3, <1>4

(* The start keeps its types. *)
LEMMA StartupTypeStep ==
    ASSUME StartupTypeOK, [Next]_vars
    PROVE  StartupTypeOK'
<1> USE StartupAssumption DEF StartupTypeOK
<1>1. CASE Probe
  <2>1. found' \in Surroundings /\ phase' \in Phases
    BY <1>1, ProbeCases DEF Surroundings, Phases
  <2>2. QED BY <1>1, <2>1, ProbeCases
<1>2. CASE Classify \/ CheckBase \/ SettingsCanary \/ ExecCanary
  BY <1>2, CheckCases, GotoEffect
<1>3. CASE Change
  <2>1. around' \in Surroundings
    BY <1>3 DEF Change, Surroundings, Via
  <2>2. changes' \in 0..MaxChanges
    BY <1>3 DEF Change
  <2>3. QED BY <1>3, <2>1, <2>2 DEF Change
<1>4. CASE Boot
  <2>1. Nothing \in Surroundings
    BY DEF Nothing, Surroundings, Via
  <2>2. found' \in Surroundings /\ around' \in Surroundings
    BY <1>4, <2>1 DEF Boot
  <2>3. phase' \in Phases /\ changes' = 0
    BY <1>4 DEF Boot, FirstPhase, Phases
  <2>4. 0 \in 0..MaxChanges
    OBVIOUS
  <2>5. QED BY <2>2, <2>3, <2>4
<1>5. CASE phase' = "down" /\ UNCHANGED <<around, found, changes>>
  BY <1>5 DEF Phases
<1>6. CASE UNCHANGED startup
  BY <1>6 DEF startup
<1>7. QED BY <1>1, <1>2, <1>3, <1>4, <1>5, <1>6, StartupMoves DEF StartupStep

(* Only an explicit denial by the control and the forbidden host is an "ok". *)
LEMMA OkProves ==
    Egress = "ok" => ~found.direct /\ found.control = "denied" /\ found.forbidden = "denied"
BY DEF Egress, Proved

(* A violation is one that a probe has seen. *)
LEMMA ViolationProves ==
    Violation(Egress) => found.direct \/ found.control = "tunneled" \/ found.forbidden = "tunneled"
BY DEF Egress, Violation

(* When nothing changes, what was found is what there is. *)
LEMMA FoundStep ==
    ASSUME StartupTypeOK, FoundInv, [Next]_vars
    PROVE  FoundInv'
<1>1. CASE Probe
  BY <1>1, ProbeCases DEF StartupTypeOK, Surroundings, FoundInv
<1>2. CASE Classify \/ CheckBase \/ SettingsCanary \/ ExecCanary
  <2> PICK p \in Phases :
        /\ Goto(p)
        /\ \/ phase = "classify" /\ (p = "base" => Egress = "ok") /\ p \in {"base", "refused", "direct"}
           \/ phase = "base" /\ (p = "settings" => ~around.writable) /\ p \in {"settings", "refused"}
           \/ /\ phase = "settings"
              /\ p = "exec settings" => around.skip \/ (around.login /\ around.denies)
              /\ p \in {"settings", "refused", "exec settings", "serving"}
           \/ phase = "exec settings" /\ p \in {"refused", "serving"}
    BY <1>2, CheckCases DEF AfterSettings
  <2>1. CASE p \in {"refused", "serving"}
    BY <2>1, GotoEffect DEF FoundInv
  <2>2. CASE p \notin {"refused", "serving"}
    <3>1. phase' = p /\ UNCHANGED <<around, changes>>
      BY <2>2, GotoEffect
    <3>2. QED BY <2>2, <3>1, OkProves DEF FoundInv
  <2>3. QED BY <2>1, <2>2
<1>3. CASE Change
  <2>1. changes' # 0
    BY <1>3, StartupAssumption DEF Change, StartupTypeOK
  <2>2. QED BY <2>1 DEF FoundInv
<1>4. CASE Boot
  BY <1>4 DEF Boot, FirstPhase, FoundInv
<1>5. CASE phase' = "down" /\ UNCHANGED <<around, found, changes>>
  BY <1>5 DEF FoundInv
<1>6. CASE UNCHANGED startup
  BY <1>6 DEF startup, FoundInv
<1>7. QED BY <1>1, <1>2, <1>3, <1>4, <1>5, <1>6, StartupMoves DEF StartupStep

-----------------------------------------------------------------------------
(* The theorems. *)

(* Inv holds in every reachable state, for any calls, surroundings and bounds. *)
THEOREM Invariance == Spec => []Inv
<1>1. Init => Inv BY InitInv
<1>2. Inv /\ [Next]_vars => Inv'
  BY StartupTypeStep, TypesStep, FreshStep, LockStep, ProcessStep, WireStep, LengthStep,
     FoundStep DEF Inv
<1>3. QED BY <1>1, <1>2, PTL DEF Spec

(* Every variable keeps its type; in particular there are never three messages on the wire. *)
THEOREM TypeCorrect == Spec => []TypeOK
<1>1. Inv => TypeOK BY TypesImply DEF Inv
<1>2. QED BY <1>1, Invariance, PTL

(* A process that nobody waits for has a coroutine that will kill it, but for a blind verify. *)
THEOREM GoneKilled == Spec => []GoneClientKilled
<1>1. Inv => GoneClientKilled
  <2> SUFFICES ASSUME Inv, NEW c \in Calls, leader[c] = "running", ~open[c], c \notin blind
               PROVE  \/ watcher[c] # "none" \/ handler[c] = "exceeded"
                      \/ handler[c] = "closing" /\ kind[c] # "verify"
    BY DEF GoneClientKilled
  <2>1. handler[c] \in {"running", "exceeded", "closing"}
    BY DEF Inv, Types, Handlers, ProcessInv
  <2>2. QED BY <2>1 DEF Inv, ProcessInv
<1>2. QED BY <1>1, Invariance, PTL

(* After the handler nothing of a run is alive, but what SIGTERM does not reach. *)
THEOREM NothingOrphaned == Spec => []NoOrphan
<1>1. Inv => NoOrphan
  <2> SUFFICES ASSUME Inv, NEW c \in Calls, handler[c] = "over"
               PROVE  leader[c] # "running" /\ (children[c] = "obedient" => leader[c] = "exited")
    BY DEF NoOrphan
  <2>1. leader[c] \in {"none", "running", "exited", "killed"}
    BY DEF Inv, Types, Leaders
  <2>2. QED BY <2>1 DEF Inv, ProcessInv
<1>2. QED BY <1>1, Invariance, PTL

(* Of two agents of a project that are alive in the executor, one at least is being killed. *)
THEOREM AgentAlone == Spec => []OneAgent
<1>1. Inv => OneAgent
  <2> SUFFICES ASSUME Inv, NEW c \in Calls, NEW d \in Calls, kind[c] # "verify",
                      kind[d] # "verify", open[c], open[d]
               PROVE  c = d
    BY DEF OneAgent
  <2>1. c \in lock /\ d \in lock
    BY DEF Inv, LockInv
  <2>2. lock \in {{}} \cup {{e} : e \in Calls}
    BY DEF Inv, Types
  <2>3. QED BY <2>1, <2>2
<1>2. QED BY <1>1, Invariance, PTL

(* A success in the bridge is one in the executor: no verify is a "fake green". *)
THEOREM GreenIsGreen == Spec => []NoFakeGreen
<1>1. Inv => NoFakeGreen
  BY DEF Inv, WireInv, Backed, NoFakeGreen
<1>2. QED BY <1>1, Invariance, PTL

(* The executor serves only behind a proxy that denies, where it has one, and with deny rules
   that fire, unless it is told not to look. *)
THEOREM ServesSound == Spec => ServesOnlySound
<1>1. Inv /\ [Next]_vars =>
          [phase # "serving" /\ phase' = "serving" => Sound(around) \/ changes > 0]_vars
  <2> SUFFICES ASSUME Inv, [Next]_vars, phase # "serving", phase' = "serving", changes = 0
               PROVE  Sound(around)
    BY StartupAssumption DEF Inv, StartupTypeOK
  <2>1. Classify \/ CheckBase \/ SettingsCanary \/ ExecCanary
    <3>1. ~Probe
      BY ProbeCases DEF Inv
    <3>2. QED BY <3>1, StartupMoves DEF StartupStep, Change, Boot, FirstPhase, startup
  <2>2. \/ /\ phase = "settings" /\ ~ExecBash
           /\ around.skip \/ (around.login /\ around.denies)
        \/ /\ phase = "exec settings"
           /\ around.skip \/ ~around.login \/ around.execDenies
    BY <2>1, CheckCases, GotoEffect DEF Inv, AfterSettings
  <2>3. QED BY <2>2 DEF Inv, FoundInv, Sound
<1>2. QED BY <1>1, Invariance, PTL DEF Spec, ServesOnlySound

(* It ends for good only over what no retry mends. *)
THEOREM RefusesUnsound == Spec => RefusesOnlyUnsound
<1>1. Inv /\ [Next]_vars =>
          [phase # "refused" /\ phase' = "refused" => Unsound(around) \/ changes > 0]_vars
  <2> SUFFICES ASSUME Inv, [Next]_vars, phase # "refused", phase' = "refused", changes = 0
               PROVE  Unsound(around)
    BY StartupAssumption DEF Inv, StartupTypeOK
  <2>1. Classify \/ CheckBase \/ SettingsCanary \/ ExecCanary
    <3>1. ~Probe
      BY ProbeCases DEF Inv
    <3>2. QED BY <3>1, StartupMoves DEF StartupStep, Change, Boot, FirstPhase, startup
  <2>2. \/ phase = "classify" /\ Violation(Egress)
        \/ phase = "base" /\ around.writable
        \/ phase = "settings" /\ ~around.denies
        \/ phase = "exec settings" /\ ~around.execDenies
    BY <2>1, CheckCases, GotoEffect DEF Inv, AfterSettings
  <2>3. CASE phase = "classify" /\ Violation(Egress)
    <3>1. found.direct \/ found.control = "tunneled" \/ found.forbidden = "tunneled"
      BY <2>3, ViolationProves
    <3>2. QED BY <2>3, <3>1 DEF Inv, FoundInv, Unsound
  <2>4. QED BY <2>2, <2>3 DEF Unsound
<1>2. QED BY <1>1, Invariance, PTL DEF Spec, RefusesOnlyUnsound
=============================================================================
