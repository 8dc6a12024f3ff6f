--------------------------- MODULE ApprovalsProofs ---------------------------
(* Theorems about Approvals, for every value of its constants. *)
EXTENDS Approvals, TLAPS

(* No client has been told of more reactions than were seen before the registration, and they
   are among those that were made. *)
CountsInv ==
    \A g \in Gates :
        /\ Len(clicks[g]) <= MaxClicks
        /\ early[g] <= Len(clicks[g])
        /\ \A f \in Feeds : told[f][g] <= early[g]

(* A consent on its way from the reaction to the approver. *)
ConsentInv ==
    /\ \A g \in Gates : future[g] = "confirm" => g \in consent
    /\ \A r \in Requests : answer[r] = "yes" => r \in consent

(* The gate of a request and its approver, and their clocks. *)
ClockInv ==
    \A r \in Requests :
        /\ gate[r] \notin {"planning", "executing"}
        /\ asker[r] = "idle" => gate[r] = "idle" /\ age[r] = 0
        /\ asker[r] = "asking" /\ gate[r] = "posting" => age[r] <= MaxPosting
        /\ asker[r] = "asking" /\ gate[r] = "waiting" => age[r] <= MaxPosting + wait[r]
        /\ asker[r] = "asking" => gate[r] # "idle"

(* The inductive invariant. *)
Inv ==
    /\ TypeOK /\ CountsInv
    /\ NoLateAnswer
    /\ ConsentInv /\ NothingWithoutConsent
    /\ ClockInv /\ HumanIsHeard
-----------------------------------------------------------------------------
(* Types and counts. *)

(* Nothing has happened yet. *)
LEMMA InitInv == Init => Inv
<1> SUFFICES ASSUME Init PROVE Inv
  OBVIOUS
<1> USE ApprovalsAssumption
<1>1. TypeOK
  <2>1. clicks \in [Gates -> Seq(Emoji)] /\ told \in [Feeds -> [Gates -> 0..MaxClicks]]
    BY DEF Init
  <2>2. age \in [Requests -> 0..SocketTimeout]
    BY DEF Init, SocketTimeout
  <2>3. wait \in [Gates -> 0..Window] /\ early \in [Gates -> 0..MaxClicks]
    BY DEF Init
  <2>4. QED BY <2>1, <2>2, <2>3 DEF Init, TypeOK, Stages, Futures, Askers
<1>2. CountsInv
  BY DEF Init, CountsInv, Gates
<1>3. NoLateAnswer /\ ConsentInv /\ NothingWithoutConsent /\ ClockInv /\ HumanIsHeard
  BY DEF Init, NoLateAnswer, ConsentInv, NothingWithoutConsent, ClockInv, HumanIsHeard, Gates
<1>4. QED BY <1>1, <1>2, <1>3 DEF Inv

(* Forgetting the reactions to a gate keeps the counts, and those of the others. *)
LEMMA DeafKeeps ==
    ASSUME TypeOK, CountsInv, NEW g \in Gates, Deaf(g)
    PROVE  /\ clicks' \in [Gates -> Seq(Emoji)]
           /\ told' \in [Feeds -> [Gates -> 0..MaxClicks]] /\ early' \in [Gates -> 0..MaxClicks]
           /\ CountsInv'
<1> USE ApprovalsAssumption DEF TypeOK, CountsInv, Deaf
<1>1. clicks' \in [Gates -> Seq(Emoji)] /\ early' \in [Gates -> 0..MaxClicks]
  OBVIOUS
<1>2. told' \in [Feeds -> [Gates -> 0..MaxClicks]]
  OBVIOUS
<1>3. ASSUME NEW h \in Gates
      PROVE  /\ Len(clicks'[h]) <= MaxClicks /\ early'[h] <= Len(clicks'[h])
             /\ \A f \in Feeds : told'[f][h] <= early'[h]
  BY <1>3
<1>4. QED BY <1>1, <1>2, <1>3

(* Every variable keeps its type, and the counts keep their order. *)
LEMMA TypeStep ==
    ASSUME TypeOK, CountsInv, [Next]_vars
    PROVE  TypeOK' /\ CountsInv'
<1> USE ApprovalsAssumption DEF Gates
<1>1. ASSUME NEW r \in Requests, Ask(r) PROVE TypeOK' /\ CountsInv'
  <2> PICK c \in Commands :
         /\ command' = [command EXCEPT ![r] = c]
         /\ \/ asker' = [asker EXCEPT ![r] = "allowed"] /\ UNCHANGED gate
            \/ asker' = [asker EXCEPT ![r] = "asking"] /\ Stage(r, "posting")
            \/ asker' = [asker EXCEPT ![r] = "denied"] /\ UNCHANGED gate
    BY <1>1 DEF Ask
  <2>1. command' \in [Requests -> Commands]
    BY DEF TypeOK
  <2>2. asker' \in [Requests -> Askers] /\ gate' \in [Gates -> Stages]
    BY DEF TypeOK, Askers, Stages, Stage
  <2>3. QED BY <1>1, <2>1, <2>2 DEF Ask, TypeOK, CountsInv, discord
<1>2. ASSUME NEW r \in Requests, Read(r) PROVE TypeOK' /\ CountsInv'
  BY <1>2 DEF Read, TypeOK, Stages, Futures, Askers, SocketTimeout, Emoji, CountsInv, bridge,
       discord
<1>3. ASSUME NEW r \in Requests, GiveUp(r) PROVE TypeOK' /\ CountsInv'
  BY <1>3 DEF GiveUp, TypeOK, Stages, Futures, Askers, SocketTimeout, Emoji, CountsInv,
       bridge, discord
<1>4. ASSUME NEW r \in Requests, Kill(r) PROVE TypeOK' /\ CountsInv'
  BY <1>4 DEF Kill, TypeOK, Stages, Futures, Askers, SocketTimeout, Emoji, CountsInv, bridge,
       discord
<1>5. ASSUME NEW p \in Plans, StartPlan(p) PROVE TypeOK' /\ CountsInv'
  BY <1>5 DEF StartPlan, Stage, TypeOK, Stages, Futures, Askers, SocketTimeout, Emoji,
       CountsInv, approver, discord
<1>6. ASSUME NEW p \in Plans, Planned(p) PROVE TypeOK' /\ CountsInv'
  BY <1>6 DEF Planned, Stage, TypeOK, Stages, Futures, Askers, SocketTimeout, Emoji,
       CountsInv, approver, discord
<1>7. ASSUME NEW p \in Plans, Executed(p) PROVE TypeOK' /\ CountsInv'
  BY <1>7 DEF Executed, Stage, TypeOK, Stages, Futures, Askers, SocketTimeout, Emoji,
       CountsInv, approver, discord
<1>8. ASSUME NEW g \in Gates, Register(g) PROVE TypeOK' /\ CountsInv'
  BY <1>8 DEF Register, Stage, TypeOK, Stages, Futures, Askers, SocketTimeout, Emoji,
       CountsInv, approver, discord
<1>9. ASSUME NEW g \in Gates, Fail(g) PROVE TypeOK' /\ CountsInv'
  <2>1. Deaf(g)
    BY <1>9 DEF Fail
  <2>2. /\ gate' \in [Gates -> Stages] /\ future' \in [Gates -> Futures] /\ pending' \subseteq Gates
        /\ answer' \in [Requests -> {"none", "yes", "no", "closed"}]
    BY <1>9 DEF Fail, Stage, Reply, Forget, TypeOK, Stages, Futures
  <2>3. QED BY <1>9, <2>1, <2>2, DeafKeeps DEF Fail, TypeOK, approver
<1>10. ASSUME NEW g \in Gates, Decide(g) PROVE TypeOK' /\ CountsInv'
  BY <1>10 DEF Decide, Stage, Reply, TypeOK, Stages, Futures, Askers, SocketTimeout, Emoji,
       CountsInv, approver, discord
<1>11. ASSUME NEW g \in Gates, Expire(g) PROVE TypeOK' /\ CountsInv'
  <2>1. Deaf(g)
    BY <1>11 DEF Expire
  <2>2. /\ gate' \in [Gates -> Stages] /\ future' \in [Gates -> Futures] /\ pending' \subseteq Gates
        /\ answer' \in [Requests -> {"none", "yes", "no", "closed"}]
    BY <1>11 DEF Expire, Stage, Reply, Forget, TypeOK, Stages, Futures
  <2>3. QED BY <1>11, <2>1, <2>2, DeafKeeps DEF Expire, TypeOK, approver
<1>12. ASSUME NEW g \in Gates, Notify(g) PROVE TypeOK' /\ CountsInv'
  BY <1>12 DEF Notify, Stage, Reply, TypeOK, Stages, Futures, Askers, SocketTimeout, Emoji,
       CountsInv, approver, discord
<1>13. ASSUME NEW g \in Gates, Click(g) PROVE TypeOK' /\ CountsInv'
  <2> PICK e \in Emoji : clicks' = [clicks EXCEPT ![g] = Append(@, e)]
    BY <1>13 DEF Click
  <2>1. clicks[g] \in Seq(Emoji) /\ Len(clicks[g]) < MaxClicks
    BY <1>13 DEF Click, TypeOK
  <2>2. Append(clicks[g], e) \in Seq(Emoji) /\ Len(Append(clicks[g], e)) = Len(clicks[g]) + 1
    BY <2>1
  <2>3. TypeOK'
    BY <1>13, <2>2 DEF Click, TypeOK, bridge, approver
  <2>4. ASSUME NEW h \in Gates
        PROVE  /\ Len(clicks'[h]) <= MaxClicks /\ early'[h] <= Len(clicks'[h])
               /\ \A f \in Feeds : told'[f][h] <= early'[h]
    <3>1. CASE h = g
      <4>1. clicks'[h] = Append(clicks[g], e) /\ early'[h] = early[g] /\ told' = told
        BY <1>13, <3>1 DEF Click, TypeOK
      <4>2. early[g] \in Nat /\ Len(clicks[g]) \in Nat
        BY <2>1 DEF TypeOK
      <4>3. QED BY <2>1, <2>2, <3>1, <4>1, <4>2 DEF CountsInv
    <3>2. CASE h # g
      BY <1>13, <3>2 DEF Click, TypeOK, CountsInv
    <3>3. QED BY <3>1, <3>2
  <2>5. QED BY <2>3, <2>4 DEF CountsInv
<1>14. ASSUME NEW f \in Feeds, NEW g \in Gates, TellEarly(f, g) PROVE TypeOK' /\ CountsInv'
  <2>1. /\ told[f][g] \in Nat /\ early[g] \in Nat /\ Len(clicks[g]) \in Nat
        /\ told[f][g] < Len(clicks[g]) /\ Len(clicks[g]) <= MaxClicks /\ told[f][g] <= early[g]
        /\ early[g] <= Len(clicks[g])
    BY <1>14 DEF TellEarly, TypeOK, CountsInv
  <2>2. \A e \in Feeds, h \in Gates :
            told'[e][h] = IF e = f /\ h = g THEN told[f][g] + 1 ELSE told[e][h]
    BY <1>14 DEF TellEarly, TypeOK
  <2>3. \A h \in Gates :
            early'[h] = IF h = g /\ told[f][g] = early[g] THEN early[g] + 1 ELSE early[h]
    BY <1>14 DEF TellEarly, TypeOK
  <2>4. told' \in [Feeds -> [Gates -> 0..MaxClicks]]
    BY <1>14, <2>1 DEF TellEarly, TypeOK
  <2>5. early' \in [Gates -> 0..MaxClicks]
    BY <1>14, <2>1 DEF TellEarly, TypeOK
  <2>6. TypeOK'
    BY <1>14, <2>4, <2>5 DEF TellEarly, TypeOK, bridge, approver
  <2>7. clicks' = clicks
    BY <1>14 DEF TellEarly
  <2>8. ASSUME NEW h \in Gates
        PROVE  /\ Len(clicks'[h]) <= MaxClicks /\ early'[h] <= Len(clicks'[h])
               /\ \A e \in Feeds : told'[e][h] <= early'[h]
    <3>1. /\ Len(clicks[h]) <= MaxClicks /\ early[h] <= Len(clicks[h]) /\ early[h] \in Nat
          /\ \A e \in Feeds : told[e][h] <= early[h] /\ told[e][h] \in Nat
      BY DEF TypeOK, CountsInv
    <3>2. QED BY <2>1, <2>2, <2>3, <2>7, <3>1
  <2>9. QED BY <2>6, <2>8 DEF CountsInv
<1>15. ASSUME NEW f \in Feeds, NEW g \in Gates, Tell(f, g) PROVE TypeOK' /\ CountsInv'
  <2>1. Deaf(g)
    BY <1>15 DEF Tell
  <2>2. future' \in [Gates -> Futures]
    BY <1>15 DEF Tell, Meaning, TypeOK, Futures
  <2>3. pending' \subseteq Gates /\ consent' \subseteq Gates
    BY <1>15 DEF Tell, TypeOK
  <2>4. QED BY <1>15, <2>1, <2>2, <2>3, DeafKeeps DEF Tell, TypeOK, approver
<1>16. ASSUME Tick PROVE TypeOK' /\ CountsInv'
  <2>1. wait' \in [Gates -> 0..Window]
    BY <1>16 DEF Tick, TypeOK
  <2>2. \A r \in Requests : asker[r] = "asking" => age[r] < SocketTimeout
    BY <1>16 DEF Tick, Urgent, TypeOK, SocketTimeout
  <2>3. age' \in [Requests -> 0..SocketTimeout]
    BY <1>16, <2>2 DEF Tick, TypeOK, SocketTimeout
  <2>4. QED BY <1>16, <2>1, <2>3 DEF Tick, TypeOK, CountsInv, discord
<1>17. ASSUME Crash PROVE TypeOK' /\ CountsInv'
  BY <1>17 DEF Crash, TypeOK, Stages, Futures, Askers, SocketTimeout, Emoji, CountsInv, approver
<1>18. CASE UNCHANGED vars
  BY <1>18 DEF vars, TypeOK, Stages, Futures, Askers, SocketTimeout, Emoji, CountsInv
<1>19. QED BY <1>1, <1>2, <1>3, <1>4, <1>5, <1>6, <1>7, <1>8, <1>9, <1>10, <1>11, <1>12,
     <1>13, <1>14, <1>15, <1>16, <1>17, <1>18 DEF Next, GateStep, PlanStep

-----------------------------------------------------------------------------
(* The pending gates, and the way of a consent. *)

(* A gate that takes reactions is waiting, with its future unresolved. *)
LEMMA PendingStep ==
    ASSUME TypeOK, ClockInv, NoLateAnswer, [Next]_vars
    PROVE  NoLateAnswer'
<1> USE DEF Gates
<1>1. ASSUME NEW r \in Requests, Ask(r) PROVE NoLateAnswer'
  BY <1>1 DEF Ask, Stage, TypeOK, ClockInv, NoLateAnswer, discord
<1>2. ASSUME NEW r \in Requests, Read(r) PROVE NoLateAnswer'
  BY <1>2 DEF Read, TypeOK, ClockInv, NoLateAnswer, bridge, discord
<1>3. ASSUME NEW r \in Requests, GiveUp(r) PROVE NoLateAnswer'
  BY <1>3 DEF GiveUp, TypeOK, ClockInv, NoLateAnswer, bridge, discord
<1>4. ASSUME NEW r \in Requests, Kill(r) PROVE NoLateAnswer'
  BY <1>4 DEF Kill, TypeOK, ClockInv, NoLateAnswer, bridge, discord
<1>5. ASSUME NEW p \in Plans, StartPlan(p) PROVE NoLateAnswer'
  BY <1>5 DEF StartPlan, Stage, TypeOK, ClockInv, NoLateAnswer, approver, discord
<1>6. ASSUME NEW p \in Plans, Planned(p) PROVE NoLateAnswer'
  BY <1>6 DEF Planned, Stage, TypeOK, ClockInv, NoLateAnswer, approver, discord
<1>7. ASSUME NEW p \in Plans, Executed(p) PROVE NoLateAnswer'
  BY <1>7 DEF Executed, Stage, TypeOK, ClockInv, NoLateAnswer, approver, discord
<1>8. ASSUME NEW g \in Gates, Register(g) PROVE NoLateAnswer'
  BY <1>8 DEF Register, Stage, TypeOK, ClockInv, NoLateAnswer, approver, discord
<1>9. ASSUME NEW g \in Gates, Fail(g) PROVE NoLateAnswer'
  BY <1>9 DEF Fail, Stage, Reply, Deaf, TypeOK, ClockInv, NoLateAnswer, approver
<1>10. ASSUME NEW g \in Gates, Decide(g) PROVE NoLateAnswer'
  BY <1>10 DEF Decide, Stage, Reply, TypeOK, ClockInv, NoLateAnswer, approver, discord
<1>11. ASSUME NEW g \in Gates, Expire(g) PROVE NoLateAnswer'
  BY <1>11 DEF Expire, Stage, Forget, Deaf, TypeOK, ClockInv, NoLateAnswer, approver
<1>12. ASSUME NEW g \in Gates, Notify(g) PROVE NoLateAnswer'
  BY <1>12 DEF Notify, Stage, Reply, TypeOK, ClockInv, NoLateAnswer, approver, discord
<1>13. ASSUME NEW g \in Gates, Click(g) PROVE NoLateAnswer'
  BY <1>13 DEF Click, Live, TypeOK, ClockInv, NoLateAnswer, bridge, approver
<1>14. ASSUME NEW f \in Feeds, NEW g \in Gates, TellEarly(f, g) PROVE NoLateAnswer'
  BY <1>14 DEF TellEarly, TypeOK, ClockInv, NoLateAnswer, bridge, approver
<1>15. ASSUME NEW f \in Feeds, NEW g \in Gates, Tell(f, g) PROVE NoLateAnswer'
  BY <1>15 DEF Tell, Meaning, Deaf, TypeOK, ClockInv, NoLateAnswer, approver
<1>16. ASSUME Tick PROVE NoLateAnswer'
  BY <1>16 DEF Tick, TypeOK, ClockInv, NoLateAnswer, discord
<1>17. ASSUME Crash PROVE NoLateAnswer'
  BY <1>17 DEF Crash, TypeOK, ClockInv, NoLateAnswer, approver
<1>18. CASE UNCHANGED vars
  BY <1>18 DEF vars, TypeOK, ClockInv, NoLateAnswer
<1>19. QED BY <1>1, <1>2, <1>3, <1>4, <1>5, <1>6, <1>7, <1>8, <1>9, <1>10, <1>11, <1>12,
     <1>13, <1>14, <1>15, <1>16, <1>17, <1>18 DEF Next, GateStep, PlanStep

(* The reaction that turns a future into a yes is a consent. *)
LEMMA YesIsConsent ==
    ASSUME TypeOK, CountsInv, NEW f \in Feeds, NEW g \in Gates,
           told[f][g] < Len(clicks[g]), Meaning(clicks[g][told[f][g] + 1]) = "confirm"
    PROVE  Consent(g)
<1> DEFINE i == told[f][g] + 1
<1>1. i \in DOMAIN clicks[g] /\ i \in Nat
  BY ApprovalsAssumption DEF TypeOK
<1>2. clicks[g][i] = "yes"
  BY DEF Meaning
<1>3. \A j \in 1..(i - 1) : j <= early[g]
  BY <1>1, ApprovalsAssumption DEF TypeOK, CountsInv
<1>4. QED BY <1>1, <1>2, <1>3 DEF Consent

(* A yes in a future or on a socket comes from a consent. *)
LEMMA ConsentStep ==
    ASSUME TypeOK, CountsInv, ConsentInv, [Next]_vars
    PROVE  ConsentInv'
<1> USE ApprovalsAssumption DEF Gates
<1>1. ASSUME NEW r \in Requests, Ask(r) PROVE ConsentInv'
  BY <1>1 DEF Ask, Stage, TypeOK, ConsentInv, discord
<1>2. ASSUME NEW r \in Requests, Read(r) PROVE ConsentInv'
  BY <1>2 DEF Read, TypeOK, ConsentInv, bridge, discord
<1>3. ASSUME NEW r \in Requests, GiveUp(r) PROVE ConsentInv'
  BY <1>3 DEF GiveUp, TypeOK, ConsentInv, bridge, discord
<1>4. ASSUME NEW r \in Requests, Kill(r) PROVE ConsentInv'
  BY <1>4 DEF Kill, TypeOK, ConsentInv, bridge, discord
<1>5. ASSUME NEW p \in Plans, StartPlan(p) PROVE ConsentInv'
  BY <1>5 DEF StartPlan, Stage, TypeOK, ConsentInv, approver, discord
<1>6. ASSUME NEW p \in Plans, Planned(p) PROVE ConsentInv'
  BY <1>6 DEF Planned, Stage, TypeOK, ConsentInv, approver, discord
<1>7. ASSUME NEW p \in Plans, Executed(p) PROVE ConsentInv'
  BY <1>7 DEF Executed, Stage, TypeOK, ConsentInv, approver, discord
<1>8. ASSUME NEW g \in Gates, Register(g) PROVE ConsentInv'
  BY <1>8 DEF Register, Stage, TypeOK, ConsentInv, approver, discord
<1>9. ASSUME NEW g \in Gates, Fail(g) PROVE ConsentInv'
  BY <1>9 DEF Fail, Stage, Reply, Deaf, TypeOK, ConsentInv, approver
<1>10. ASSUME NEW g \in Gates, Decide(g) PROVE ConsentInv'
  BY <1>10 DEF Decide, Stage, Reply, TypeOK, ConsentInv, approver, discord
<1>11. ASSUME NEW g \in Gates, Expire(g) PROVE ConsentInv'
  BY <1>11 DEF Expire, Stage, Forget, Deaf, TypeOK, ConsentInv, approver
<1>12. ASSUME NEW g \in Gates, Notify(g) PROVE ConsentInv'
  BY <1>12 DEF Notify, Stage, Reply, TypeOK, ConsentInv, approver, discord
<1>13. ASSUME NEW g \in Gates, Click(g) PROVE ConsentInv'
  BY <1>13 DEF Click, Live, TypeOK, ConsentInv, bridge, approver
<1>14. ASSUME NEW f \in Feeds, NEW g \in Gates, TellEarly(f, g) PROVE ConsentInv'
  BY <1>14 DEF TellEarly, TypeOK, ConsentInv, bridge, approver
<1>15. ASSUME NEW f \in Feeds, NEW g \in Gates, Tell(f, g) PROVE ConsentInv'
  BY <1>15, YesIsConsent DEF Tell, TypeOK, ConsentInv, approver
<1>16. ASSUME Tick PROVE ConsentInv'
  BY <1>16 DEF Tick, TypeOK, ConsentInv, discord
<1>17. ASSUME Crash PROVE ConsentInv'
  BY <1>17 DEF Crash, TypeOK, ConsentInv, approver
<1>18. CASE UNCHANGED vars
  BY <1>18 DEF vars, TypeOK, ConsentInv
<1>19. QED BY <1>1, <1>2, <1>3, <1>4, <1>5, <1>6, <1>7, <1>8, <1>9, <1>10, <1>11, <1>12,
     <1>13, <1>14, <1>15, <1>16, <1>17, <1>18 DEF Next, GateStep, PlanStep

(* And nothing runs without one. *)
LEMMA RunStep ==
    ASSUME TypeOK, ConsentInv, NothingWithoutConsent, [Next]_vars
    PROVE  NothingWithoutConsent'
<1> USE ApprovalsAssumption DEF Gates
<1>1. ASSUME NEW r \in Requests, Ask(r) PROVE NothingWithoutConsent'
  BY <1>1 DEF Ask, Stage, AutoAllowed, Listed, TypeOK, ConsentInv, NothingWithoutConsent,
       discord
<1>2. ASSUME NEW r \in Requests, Read(r) PROVE NothingWithoutConsent'
  BY <1>2 DEF Read, AutoAllowed, Listed, TypeOK, ConsentInv, NothingWithoutConsent, bridge,
       discord
<1>3. ASSUME NEW r \in Requests, GiveUp(r) PROVE NothingWithoutConsent'
  BY <1>3 DEF GiveUp, AutoAllowed, Listed, TypeOK, ConsentInv, NothingWithoutConsent, bridge,
       discord
<1>4. ASSUME NEW r \in Requests, Kill(r) PROVE NothingWithoutConsent'
  BY <1>4 DEF Kill, AutoAllowed, Listed, TypeOK, ConsentInv, NothingWithoutConsent, bridge,
       discord
<1>5. ASSUME NEW p \in Plans, StartPlan(p) PROVE NothingWithoutConsent'
  BY <1>5 DEF StartPlan, Stage, AutoAllowed, Listed, TypeOK, ConsentInv,
       NothingWithoutConsent, approver, discord
<1>6. ASSUME NEW p \in Plans, Planned(p) PROVE NothingWithoutConsent'
  BY <1>6 DEF Planned, Stage, AutoAllowed, Listed, TypeOK, ConsentInv, NothingWithoutConsent,
       approver, discord
<1>7. ASSUME NEW p \in Plans, Executed(p) PROVE NothingWithoutConsent'
  BY <1>7 DEF Executed, Stage, AutoAllowed, Listed, TypeOK, ConsentInv, NothingWithoutConsent,
       approver, discord
<1>8. ASSUME NEW g \in Gates, Register(g) PROVE NothingWithoutConsent'
  BY <1>8 DEF Register, Stage, AutoAllowed, Listed, TypeOK, ConsentInv, NothingWithoutConsent,
       approver, discord
<1>9. ASSUME NEW g \in Gates, Fail(g) PROVE NothingWithoutConsent'
  BY <1>9 DEF Fail, Stage, Reply, Deaf, AutoAllowed, Listed, TypeOK, ConsentInv,
       NothingWithoutConsent, approver
<1>10. ASSUME NEW g \in Gates, Decide(g) PROVE NothingWithoutConsent'
  BY <1>10 DEF Decide, Stage, Reply, AutoAllowed, Listed, TypeOK, ConsentInv,
       NothingWithoutConsent, approver, discord
<1>11. ASSUME NEW g \in Gates, Expire(g) PROVE NothingWithoutConsent'
  BY <1>11 DEF Expire, Stage, Forget, Deaf, AutoAllowed, Listed, TypeOK, ConsentInv,
       NothingWithoutConsent, approver
<1>12. ASSUME NEW g \in Gates, Notify(g) PROVE NothingWithoutConsent'
  BY <1>12 DEF Notify, Stage, Reply, AutoAllowed, Listed, TypeOK, ConsentInv,
       NothingWithoutConsent, approver, discord
<1>13. ASSUME NEW g \in Gates, Click(g) PROVE NothingWithoutConsent'
  BY <1>13 DEF Click, Live, AutoAllowed, Listed, TypeOK, ConsentInv, NothingWithoutConsent,
       bridge, approver
<1>14. ASSUME NEW f \in Feeds, NEW g \in Gates, TellEarly(f, g) PROVE NothingWithoutConsent'
  BY <1>14 DEF TellEarly, AutoAllowed, Listed, TypeOK, ConsentInv, NothingWithoutConsent,
       bridge, approver
<1>15. ASSUME NEW f \in Feeds, NEW g \in Gates, Tell(f, g) PROVE NothingWithoutConsent'
  BY <1>15 DEF Tell, Meaning, Deaf, AutoAllowed, Listed, TypeOK, ConsentInv,
       NothingWithoutConsent, approver
<1>16. ASSUME Tick PROVE NothingWithoutConsent'
  BY <1>16 DEF Tick, AutoAllowed, Listed, TypeOK, ConsentInv, NothingWithoutConsent, discord
<1>17. ASSUME Crash PROVE NothingWithoutConsent'
  BY <1>17 DEF Crash, AutoAllowed, Listed, TypeOK, ConsentInv, NothingWithoutConsent, approver
<1>18. CASE UNCHANGED vars
  BY <1>18 DEF vars, AutoAllowed, Listed, TypeOK, ConsentInv, NothingWithoutConsent
<1>19. QED BY <1>1, <1>2, <1>3, <1>4, <1>5, <1>6, <1>7, <1>8, <1>9, <1>10, <1>11, <1>12,
     <1>13, <1>14, <1>15, <1>16, <1>17, <1>18 DEF Next, GateStep, PlanStep

-----------------------------------------------------------------------------
(* The clocks. *)

(* The approver's clock is at most the time of posting ahead of the gate's. *)
LEMMA ClockStep ==
    ASSUME TypeOK, ClockInv, [Next]_vars
    PROVE  ClockInv'
<1> USE ApprovalsAssumption DEF Gates
<1>1. ASSUME NEW r \in Requests, Ask(r) PROVE ClockInv'
  BY <1>1 DEF Ask, Stage, TypeOK, ClockInv, discord
<1>2. ASSUME NEW r \in Requests, Read(r) PROVE ClockInv'
  BY <1>2 DEF Read, TypeOK, ClockInv, bridge, discord
<1>3. ASSUME NEW r \in Requests, GiveUp(r) PROVE ClockInv'
  BY <1>3 DEF GiveUp, TypeOK, ClockInv, bridge, discord
<1>4. ASSUME NEW r \in Requests, Kill(r) PROVE ClockInv'
  BY <1>4 DEF Kill, TypeOK, ClockInv, bridge, discord
<1>5. ASSUME NEW p \in Plans, StartPlan(p) PROVE ClockInv'
  BY <1>5 DEF StartPlan, Stage, TypeOK, ClockInv, approver, discord
<1>6. ASSUME NEW p \in Plans, Planned(p) PROVE ClockInv'
  BY <1>6 DEF Planned, Stage, TypeOK, ClockInv, approver, discord
<1>7. ASSUME NEW p \in Plans, Executed(p) PROVE ClockInv'
  BY <1>7 DEF Executed, Stage, TypeOK, ClockInv, approver, discord
<1>8. ASSUME NEW g \in Gates, Register(g) PROVE ClockInv'
  BY <1>8 DEF Register, Stage, TypeOK, ClockInv, approver, discord
<1>9. ASSUME NEW g \in Gates, Fail(g) PROVE ClockInv'
  BY <1>9 DEF Fail, Stage, Reply, Deaf, TypeOK, ClockInv, approver
<1>10. ASSUME NEW g \in Gates, Decide(g) PROVE ClockInv'
  BY <1>10 DEF Decide, Stage, Reply, TypeOK, ClockInv, approver, discord
<1>11. ASSUME NEW g \in Gates, Expire(g) PROVE ClockInv'
  BY <1>11 DEF Expire, Stage, Forget, Deaf, TypeOK, ClockInv, approver
<1>12. ASSUME NEW g \in Gates, Notify(g) PROVE ClockInv'
  BY <1>12 DEF Notify, Stage, Reply, TypeOK, ClockInv, approver, discord
<1>13. ASSUME NEW g \in Gates, Click(g) PROVE ClockInv'
  BY <1>13 DEF Click, Live, TypeOK, ClockInv, bridge, approver
<1>14. ASSUME NEW f \in Feeds, NEW g \in Gates, TellEarly(f, g) PROVE ClockInv'
  BY <1>14 DEF TellEarly, TypeOK, ClockInv, bridge, approver
<1>15. ASSUME NEW f \in Feeds, NEW g \in Gates, Tell(f, g) PROVE ClockInv'
  BY <1>15 DEF Tell, Meaning, Deaf, TypeOK, ClockInv, approver
<1>16. ASSUME Tick PROVE ClockInv'
  <2> SUFFICES ASSUME NEW r \in Requests, asker[r] = "asking"
               PROVE  /\ gate[r] = "posting" => age'[r] <= MaxPosting
                      /\ gate[r] = "waiting" => age'[r] <= MaxPosting + wait'[r]
    BY <1>16 DEF Tick, TypeOK, ClockInv
  <2>1. age'[r] = age[r] + 1 /\ age[r] \in Nat /\ wait[r] \in Nat
    BY <1>16 DEF Tick, TypeOK
  <2>2. gate[r] = "posting" => age[r] < MaxPosting
    BY <1>16, <2>1 DEF Tick, Urgent
  <2>3. gate[r] = "waiting" => wait'[r] = wait[r] + 1
    BY <1>16, <2>1 DEF Tick, Urgent, Due
  <2>4. QED BY <2>1, <2>2, <2>3 DEF ClockInv
<1>17. ASSUME Crash PROVE ClockInv'
  BY <1>17 DEF Crash, TypeOK, ClockInv, approver
<1>18. CASE UNCHANGED vars
  BY <1>18 DEF vars, TypeOK, ClockInv
<1>19. QED BY <1>1, <1>2, <1>3, <1>4, <1>5, <1>6, <1>7, <1>8, <1>9, <1>10, <1>11, <1>12,
     <1>13, <1>14, <1>15, <1>16, <1>17, <1>18 DEF Next, GateStep, PlanStep

(* The approver gives up on a gate that has ended, for which the margin must cover the posting. *)
LEMMA HeardStep ==
    ASSUME TypeOK, ClockInv, HumanIsHeard, [Next]_vars
    PROVE  HumanIsHeard'
<1> USE ApprovalsAssumption DEF Gates
<1>1. ASSUME NEW r \in Requests, Ask(r) PROVE HumanIsHeard'
  BY <1>1 DEF Ask, Stage, TypeOK, Stages, ClockInv, HumanIsHeard, SocketTimeout, discord
<1>2. ASSUME NEW r \in Requests, Read(r) PROVE HumanIsHeard'
  BY <1>2 DEF Read, TypeOK, Stages, ClockInv, HumanIsHeard, SocketTimeout, bridge, discord
<1>3. ASSUME NEW r \in Requests, GiveUp(r) PROVE HumanIsHeard'
  <2>1. asker[r] = "asking" /\ age[r] >= Window + Margin
    BY <1>3 DEF GiveUp, SocketTimeout
  <2>2. age[r] \in Nat /\ wait[r] \in Nat /\ wait[r] <= Window
    BY DEF TypeOK, SocketTimeout
  <2>3. gate[r] # "posting"
    BY <2>1, <2>2 DEF ClockInv
  <2>4. gate[r] # "waiting"
    BY <2>1, <2>2 DEF ClockInv
  <2>5. gate[r] \in {"notifying", "over"}
    BY <2>1, <2>3, <2>4 DEF TypeOK, Stages, ClockInv
  <2>6. QED BY <1>3, <2>5 DEF GiveUp, TypeOK, HumanIsHeard, bridge
<1>4. ASSUME NEW r \in Requests, Kill(r) PROVE HumanIsHeard'
  BY <1>4 DEF Kill, TypeOK, Stages, ClockInv, HumanIsHeard, SocketTimeout, bridge, discord
<1>5. ASSUME NEW p \in Plans, StartPlan(p) PROVE HumanIsHeard'
  BY <1>5 DEF StartPlan, Stage, TypeOK, Stages, ClockInv, HumanIsHeard, SocketTimeout,
       approver, discord
<1>6. ASSUME NEW p \in Plans, Planned(p) PROVE HumanIsHeard'
  BY <1>6 DEF Planned, Stage, TypeOK, Stages, ClockInv, HumanIsHeard, SocketTimeout, approver,
       discord
<1>7. ASSUME NEW p \in Plans, Executed(p) PROVE HumanIsHeard'
  BY <1>7 DEF Executed, Stage, TypeOK, Stages, ClockInv, HumanIsHeard, SocketTimeout,
       approver, discord
<1>8. ASSUME NEW g \in Gates, Register(g) PROVE HumanIsHeard'
  BY <1>8 DEF Register, Stage, TypeOK, Stages, ClockInv, HumanIsHeard, SocketTimeout,
       approver, discord
<1>9. ASSUME NEW g \in Gates, Fail(g) PROVE HumanIsHeard'
  BY <1>9 DEF Fail, Stage, Reply, Deaf, TypeOK, Stages, ClockInv, HumanIsHeard, SocketTimeout,
       approver
<1>10. ASSUME NEW g \in Gates, Decide(g) PROVE HumanIsHeard'
  BY <1>10 DEF Decide, Stage, Reply, TypeOK, Stages, ClockInv, HumanIsHeard, SocketTimeout,
       approver, discord
<1>11. ASSUME NEW g \in Gates, Expire(g) PROVE HumanIsHeard'
  BY <1>11 DEF Expire, Stage, Forget, Deaf, TypeOK, Stages, ClockInv, HumanIsHeard,
       SocketTimeout, approver
<1>12. ASSUME NEW g \in Gates, Notify(g) PROVE HumanIsHeard'
  BY <1>12 DEF Notify, Stage, Reply, TypeOK, Stages, ClockInv, HumanIsHeard, SocketTimeout,
       approver, discord
<1>13. ASSUME NEW g \in Gates, Click(g) PROVE HumanIsHeard'
  BY <1>13 DEF Click, Live, TypeOK, Stages, ClockInv, HumanIsHeard, SocketTimeout, bridge,
       approver
<1>14. ASSUME NEW f \in Feeds, NEW g \in Gates, TellEarly(f, g) PROVE HumanIsHeard'
  BY <1>14 DEF TellEarly, TypeOK, Stages, ClockInv, HumanIsHeard, SocketTimeout, bridge,
       approver
<1>15. ASSUME NEW f \in Feeds, NEW g \in Gates, Tell(f, g) PROVE HumanIsHeard'
  BY <1>15 DEF Tell, Meaning, Deaf, TypeOK, Stages, ClockInv, HumanIsHeard, SocketTimeout,
       approver
<1>16. ASSUME Tick PROVE HumanIsHeard'
  BY <1>16 DEF Tick, TypeOK, Stages, ClockInv, HumanIsHeard, SocketTimeout, discord
<1>17. ASSUME Crash PROVE HumanIsHeard'
  BY <1>17 DEF Crash, TypeOK, Stages, ClockInv, HumanIsHeard, SocketTimeout, approver
<1>18. CASE UNCHANGED vars
  BY <1>18 DEF vars, TypeOK, Stages, ClockInv, HumanIsHeard, SocketTimeout
<1>19. QED BY <1>1, <1>2, <1>3, <1>4, <1>5, <1>6, <1>7, <1>8, <1>9, <1>10, <1>11, <1>12,
     <1>13, <1>14, <1>15, <1>16, <1>17, <1>18 DEF Next, GateStep, PlanStep

-----------------------------------------------------------------------------
(* The theorems. *)

(* Inv holds in every reachable state, for any requests, plans, clients, windows and bounds. *)
THEOREM Invariance == Spec => []Inv
<1>1. Init => Inv BY InitInv
<1>2. Inv /\ [Next]_vars => Inv'
  BY TypeStep, PendingStep, ConsentStep, RunStep, ClockStep, HeardStep DEF Inv
<1>3. QED BY <1>1, <1>2, PTL DEF Spec

(* Every variable keeps its type. *)
THEOREM TypeCorrect == Spec => []TypeOK
<1>1. Inv => TypeOK BY DEF Inv
<1>2. QED BY <1>1, Invariance, PTL

(* No command and no plan runs without a consent, whatever is reacted and whichever client is
   told first, with crashes, timeouts and killed jobs. *)
THEOREM ConsentBeforeRun == Spec => []NothingWithoutConsent
<1>1. Inv => NothingWithoutConsent BY DEF Inv
<1>2. QED BY <1>1, Invariance, PTL

(* The approver never gives up on a gate that can still be answered, for every window and every
   margin longer than the posting takes. *)
THEOREM MarginSuffices == Spec => []HumanIsHeard
<1>1. Inv => HumanIsHeard BY DEF Inv
<1>2. QED BY <1>1, Invariance, PTL

(* A gate that was answered, has timed out or was lost takes no more reactions. *)
THEOREM AnswersOnce == Spec => []NoLateAnswer
<1>1. Inv => NoLateAnswer BY DEF Inv
<1>2. QED BY <1>1, Invariance, PTL
=============================================================================
