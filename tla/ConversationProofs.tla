-------------------------- MODULE ConversationProofs --------------------------
(* Theorems about Conversation, for every value of its constants. *)
EXTENDS Conversation, FiniteSetTheorems, TLAPS

-----------------------------------------------------------------------------
(* The invariant. *)

(* Agent calls that are made under a bot's lock. *)
BotTasks == {"reply", "turn", "verdict", "handover"}

AtAgent(r) == r.pc \in {"dir", "agent"}

(* The locks in whose queues a call with the local variables r is. *)
QueuedFor(r) ==
    {l \in Locks :
        \/ l = Debate /\ r.task \in {"turn", "conclude"}
        \/ l = BotLock(Worker(r, r.task)) /\ (r.pc = "bot" \/ (AtAgent(r) /\ r.task \in BotTasks))
        \/ l = DirLock(RunsIn(r, r.task)) /\ AtAgent(r)}

(* Those it has: it is past the `async with`. *)
Held(r) ==
    {l \in Locks :
        \/ l = Debate /\ r.task \in {"turn", "conclude"} /\ r.pc # "discuss"
        \/ l = BotLock(Worker(r, r.task)) /\ AtAgent(r) /\ r.task \in BotTasks
        \/ l = DirLock(RunsIn(r, r.task)) /\ r.pc = "agent"}

(* What a call may be doing where it is. *)
PhaseInv(r) ==
    /\ r.pc \in {"new", "over"} => r.task = "none" /\ r.sid = {}
    /\ r.pc = "discuss" => r.task = "turn" /\ r.round = 0
    /\ r.pc = "bot" => r.task \in BotTasks \cup {"hard"}
    /\ AtAgent(r) => r.task \in BotTasks \cup {"job", "flush", "checkpoint", "conclude"}
    /\ r.pc = "sending" => r.task \in {"reply", "job", "turn", "flush"}
    /\ r.task = "turn" /\ r.pc \in {"bot", "dir", "agent"} => r.round < MaxBotTurns
    /\ r.task = "job" => r.job
    /\ r.sid # {} => AtAgent(r) /\ r.task \in {"reply", "handover", "job"}

(* A queue has every call at most once, has the calls that are about to use the lock, and is
   headed by the one that does. *)
QueueInv ==
    /\ \A l \in Locks : \A m, n \in 1..Len(queue[l]) : queue[l][m] = queue[l][n] => m = n
    /\ \A k \in Calls, l \in Locks : Queues(k, l) <=> l \in QueuedFor(call[k])
    /\ \A k \in Calls, l \in Locks : l \in Held(call[k]) => Granted(k, l)

(* A chat or a handover at its agent call. *)
Loaded(r) == AtAgent(r) /\ r.task \in {"reply", "handover"}

(* A loaded session is the stored one, or at least has all its turns and none that was
   dropped: nobody stores another one meanwhile. *)
LoadedInv(k) ==
    LET r == call[k]
        s == Key(r)
    IN  /\ Loaded(r) => /\ session[s] \subseteq r.sid \/ s \in jobbed
                        /\ r.sid \cap dropped[s] = {} \/ s \in undone \cup jobbed
                        /\ session[s] = r.sid \/ s \in undone \cup jobbed
        /\ AtAgent(r) /\ r.task = "job" => IF r.dir \in GitDirs THEN r.sid = {} ELSE s \in jobbed

(* A call that has no answer yet is in no session. *)
Unanswered(r) == r.pc \in {"new", "bot", "dir", "agent"} /\ r.task \in {"none", "reply", "job"}

UnansweredInv(k) ==
    Unanswered(call[k]) => /\ \A s \in Sessions : k \notin session[s] /\ k \notin dropped[s]
                           /\ \A j \in Calls : k \notin call[j].sid

(* A flush at its agent call. *)
Flushing(r) == AtAgent(r) /\ r.task \in {"flush", "checkpoint"}

(* Its draft comes from the log and has the notes as they are, but for what another flush has
   written since; and what it has not, no flush can read any more. *)
DraftInv(k) ==
    LET r == call[k] IN
    Flushing(r) => /\ r.draft \subseteq 1..Len(lines)
                   /\ notes[r.about] \subseteq r.draft \/ k \in overtaken
                   /\ (notes[r.about] \ r.draft) \cap Transcript(lines, r.about) = {}

NotesInv == \A d \in Dirs : notes[d] \subseteq 1..Len(lines)

(* Call j is ahead of k in the queue of lock l. *)
Ahead(j, k, l) == \E m, n \in 1..Len(queue[l]) : m < n /\ queue[l][m] = j /\ queue[l][n] = k

(* Of two flushes of a directory the one behind has all that the one ahead has, but for what
   has left the transcript. *)
DraftOrder ==
    \A j, k \in Calls :
        /\ Flushing(call[j]) /\ Flushing(call[k]) /\ call[j].about = call[k].about
        /\ Ahead(j, k, DirLock(Root))
        => (call[j].draft \ call[k].draft) \cap Transcript(lines, call[j].about) = {}

CallInv(k) == PhaseInv(call[k]) /\ LoadedInv(k) /\ UnansweredInv(k) /\ DraftInv(k)

Inv ==
    /\ TypeOK
    /\ QueueInv
    /\ \A k \in Calls : CallInv(k)
    /\ NotesInv
    /\ DraftOrder
    /\ DroppedStaysDropped

-----------------------------------------------------------------------------
(* The log. *)

(* A step logs a line at most. *)
Speaks == lines' = lines \/ \E d \in Dirs : lines' = Append(lines, d)

(* A transcript is made of lines of the log, and a new line only pushes older ones out of it. *)
LEMMA NewLines ==
    ASSUME ConversationAssumption, lines \in Seq(Dirs), Speaks
    PROVE  /\ lines' \in Seq(Dirs)
           /\ 1..Len(lines) \subseteq 1..Len(lines')
           /\ \A d \in Dirs : /\ Transcript(lines', d) \subseteq 1..Len(lines')
                             /\ Transcript(lines', d) \cap (1..Len(lines)) \subseteq Transcript(lines, d)
<1>1. \A d \in Dirs : Transcript(lines', d) \subseteq 1..Len(lines')
  BY DEF Transcript
<1>2. ASSUME lines' = lines PROVE lines' \in Seq(Dirs) /\ 1..Len(lines) \subseteq 1..Len(lines')
  BY <1>2
<1>3. ASSUME NEW e \in Dirs, lines' = Append(lines, e)
      PROVE  /\ lines' \in Seq(Dirs)
             /\ 1..Len(lines) \subseteq 1..Len(lines')
             /\ \A d \in Dirs :
                   Transcript(lines', d) \cap (1..Len(lines)) \subseteq Transcript(lines, d)
  <2>1. /\ Len(lines) \in Nat /\ Len(lines') = Len(lines) + 1
        /\ lines' \in Seq(Dirs) /\ \A n \in 1..Len(lines) : lines'[n] = lines[n]
    BY <1>3
  <2>2. ASSUME NEW d \in Dirs, NEW n \in 1..Len(lines), n \in Transcript(lines', d)
        PROVE  n \in Transcript(lines, d)
    <3> DEFINE later(said) == {m \in n + 1..Len(said) : said[m] = d}
    <3>1. n > Len(lines') - LogLength /\ lines'[n] = d /\ Cardinality(later(lines')) < ShownLines
      BY <2>2 DEF Transcript
    <3>2. n > Len(lines) - LogLength /\ lines[n] = d
      BY <2>1, <3>1 DEF ConversationAssumption
    <3>3. later(lines) \subseteq later(lines')
      BY <2>1
    <3>4. IsFiniteSet(later(lines'))
      <4>1. IsFiniteSet(n + 1..Len(lines'))
        BY <2>1, FS_Interval
      <4>2. QED BY <4>1, FS_Subset
    <3>5. /\ Cardinality(later(lines)) \in Nat /\ Cardinality(later(lines')) \in Nat
          /\ Cardinality(later(lines)) <= Cardinality(later(lines'))
      <4> HIDE DEF later
      <4>1. QED BY <3>3, <3>4, FS_Subset, FS_CardinalityType
    <3>6. Cardinality(later(lines)) < ShownLines
      <4> HIDE DEF later
      <4>1. QED BY <3>1, <3>5 DEF ConversationAssumption
    <3>7. QED BY <2>2, <3>2, <3>6 DEF Transcript
  <2>3. 1..Len(lines) \subseteq 1..Len(lines')
    BY <2>1
  <2>4. QED BY <2>1, <2>2, <2>3
<1>4. QED BY <1>1, <1>2, <1>3 DEF Speaks

-----------------------------------------------------------------------------
(* Queues. *)

(* q has nobody twice. *)
Once(q) == \A m, n \in 1..Len(q) : q[m] = q[n] => m = n

In(j, q) == \E n \in 1..Len(q) : q[n] = j

Precedes(i, j, q) == \E m, n \in 1..Len(q) : m < n /\ q[m] = i /\ q[n] = j

(* The holder leaves: the others move up. *)
LEMMA TailOnce ==
    ASSUME NEW S, NEW q \in Seq(S), q # <<>>, Once(q)
    PROVE  /\ Tail(q) \in Seq(S) /\ Once(Tail(q))
           /\ \A j : In(j, Tail(q)) <=> In(j, q) /\ j # Head(q)
           /\ \A i, j : Precedes(i, j, Tail(q)) => Precedes(i, j, q)
<1>1. /\ Tail(q) \in Seq(S) /\ Len(q) \in Nat /\ Len(q) >= 1 /\ Len(Tail(q)) = Len(q) - 1
      /\ Head(q) = q[1] /\ \A n \in 1..(Len(q) - 1) : Tail(q)[n] = q[n + 1]
  OBVIOUS
<1>2. Once(Tail(q))
  BY <1>1 DEF Once
<1>3. ASSUME NEW j PROVE In(j, Tail(q)) <=> In(j, q) /\ j # Head(q)
  <2>1. ASSUME In(j, Tail(q)) PROVE In(j, q) /\ j # Head(q)
    <3>1. PICK n \in 1..(Len(q) - 1) : q[n + 1] = j
      BY <1>1, <2>1 DEF In
    <3>2. n + 1 \in 1..Len(q) /\ n + 1 # 1 /\ 1 \in 1..Len(q)
      BY <1>1
    <3>3. QED BY <1>1, <3>1, <3>2 DEF In, Once
  <2>2. ASSUME In(j, q), j # Head(q) PROVE In(j, Tail(q))
    <3>1. PICK n \in 1..Len(q) : q[n] = j
      BY <2>2 DEF In
    <3>2. n - 1 \in 1..(Len(q) - 1) /\ (n - 1) + 1 = n
      BY <1>1, <2>2, <3>1
    <3>3. QED BY <1>1, <3>1, <3>2 DEF In
  <2>3. QED BY <2>1, <2>2
<1>4. ASSUME NEW i, NEW j, Precedes(i, j, Tail(q)) PROVE Precedes(i, j, q)
  <2>1. PICK m, n \in 1..(Len(q) - 1) : m < n /\ q[m + 1] = i /\ q[n + 1] = j
    BY <1>1, <1>4 DEF Precedes
  <2>2. m + 1 \in 1..Len(q) /\ n + 1 \in 1..Len(q) /\ m + 1 < n + 1
    BY <1>1, <2>1
  <2>3. QED BY <2>1, <2>2 DEF Precedes
<1>5. QED BY <1>1, <1>2, <1>3, <1>4

(* A newcomer goes behind the others. *)
LEMMA AppendOnce ==
    ASSUME NEW S, NEW q \in Seq(S), NEW k \in S, Once(q), ~In(k, q)
    PROVE  /\ Append(q, k) \in Seq(S) /\ Append(q, k) # <<>> /\ Once(Append(q, k))
           /\ \A j : In(j, Append(q, k)) <=> In(j, q) \/ j = k
           /\ \A i, j : Precedes(i, j, Append(q, k)) => Precedes(i, j, q) \/ (j = k /\ In(i, q))
           /\ q # <<>> => Head(Append(q, k)) = Head(q)
<1>1. /\ Append(q, k) \in Seq(S) /\ Len(q) \in Nat /\ Len(Append(q, k)) = Len(q) + 1
      /\ Append(q, k)[Len(q) + 1] = k
      /\ \A n \in 1..Len(q) : Append(q, k)[n] = q[n]
      /\ Append(q, k) # <<>>
  OBVIOUS
<1>2. 1..(Len(q) + 1) = (1..Len(q)) \cup {Len(q) + 1}
  BY <1>1
<1>3. Once(Append(q, k))
  BY <1>1, <1>2 DEF Once, In
<1>4. ASSUME NEW j PROVE In(j, Append(q, k)) <=> In(j, q) \/ j = k
  BY <1>1, <1>2 DEF In
<1>5. ASSUME NEW i, NEW j, Precedes(i, j, Append(q, k))
      PROVE  Precedes(i, j, q) \/ (j = k /\ In(i, q))
  <2>1. PICK m, n \in 1..(Len(q) + 1) : m < n /\ Append(q, k)[m] = i /\ Append(q, k)[n] = j
    BY <1>1, <1>5 DEF Precedes
  <2>2. m \in 1..Len(q)
    BY <1>1, <2>1
  <2>3. CASE n = Len(q) + 1
    BY <1>1, <2>1, <2>2, <2>3 DEF In
  <2>4. CASE n \in 1..Len(q)
    BY <1>1, <2>1, <2>2, <2>4 DEF Precedes
  <2>5. QED BY <1>2, <2>3, <2>4
<1>6. q # <<>> => Head(Append(q, k)) = Head(q)
  BY <1>1
<1>7. QED BY <1>1, <1>3, <1>4, <1>5, <1>6

(* Locks of different kinds, bots or directories differ. *)
LEMMA LocksDiffer ==
    /\ Debate \in Locks
    /\ \A b \in Bots : BotLock(b) \in BotLocks /\ BotLock(b) \in Locks /\ BotLock(b) # Debate
    /\ \A d \in Dirs : DirLock(d) \in DirLocks /\ DirLock(d) \in Locks /\ DirLock(d) # Debate
    /\ \A b \in Bots, d \in Dirs : BotLock(b) # DirLock(d)
    /\ \A b, c \in Bots : BotLock(b) = BotLock(c) => b = c
    /\ \A d, e \in Dirs : DirLock(d) = DirLock(e) => d = e
    /\ CallLocks = BotLocks \cup DirLocks /\ CallLocks \subseteq Locks /\ Debate \notin CallLocks
    /\ Locks = CallLocks \cup {Debate}
  BY DEF Locks, BotLocks, DirLocks, Debate, BotLock, DirLock, CallLocks

(* Whose agent a call runs, and where. *)
LEMMA WhoAndWhere ==
    ASSUME ConversationAssumption, NEW r \in Locals, NEW t
    PROVE  /\ Worker(r, t) \in Bots /\ RunsIn(r, t) \in Dirs /\ Root \in Dirs
           /\ t \in {"reply", "handover", "hard"} => Worker(r, t) = r.bot
           /\ t \in {"flush", "checkpoint"} => RunsIn(r, t) = Root
  BY DEF ConversationAssumption, Locals, Worker, RunsIn, Bots

(* A call moves on with the local variables r: from the locks `out`, with the ones it has, to
   those it wants, `in`. *)
Goes(k, r, out, in) ==
    /\ r \in Locals /\ out \subseteq Locks /\ in \subseteq Locks
    /\ call' = [call EXCEPT ![k] = r]
    /\ Requeue(k, out, in)
    /\ \A l \in Locks :
          l \in QueuedFor(r) <=> (l \in QueuedFor(call[k]) /\ l \notin out) \/ l \in in
    /\ \A l \in in : l \in QueuedFor(call[k]) => l \in out
    /\ \A l \in out : l \in QueuedFor(call[k]) => Granted(k, l)
    /\ \A l \in Held(r) : l \in QueuedFor(call[k]) /\ l \notin out /\ Granted(k, l)

LEMMA MoveKeepsQueues ==
    ASSUME TypeOK, QueueInv, NEW k \in Calls, NEW r, NEW out, NEW in, Goes(k, r, out, in)
    PROVE  /\ queue' \in [Locks -> Seq(Calls)]
           /\ QueueInv'
           /\ \A l \in Locks : \A i, j \in Calls :
                 Ahead(i, j, l)' => Ahead(i, j, l) \/ (j = k /\ i # k /\ l \in in)
<1> USE DEF Goes
<1> DEFINE rest(l) == Rest(k, l, out)
           q(l) == queue'[l]
<1>1. ASSUME NEW l \in Locks
      PROVE  /\ queue[l] \in Seq(Calls) /\ Once(queue[l])
             /\ \A j \in Calls : In(j, queue[l]) <=> l \in QueuedFor(call[j])
             /\ q(l) = IF l \in in THEN Append(rest(l), k) ELSE rest(l)
  BY DEF TypeOK, QueueInv, Once, In, Queues, Requeue
<1>2. ASSUME NEW l \in Locks
      PROVE  /\ rest(l) \in Seq(Calls) /\ Once(rest(l))
             /\ \A j \in Calls : In(j, rest(l)) <=> In(j, queue[l]) /\ (j = k => l \notin out)
             /\ \A i, j : Precedes(i, j, rest(l)) => Precedes(i, j, queue[l])
             /\ (l \notin out \/ l \notin QueuedFor(call[k])) => rest(l) = queue[l]
  <2>1. CASE l \in out /\ Granted(k, l)
    <3>1. queue[l] # <<>> /\ Head(queue[l]) = k /\ rest(l) = Tail(queue[l])
      BY <2>1 DEF Granted, Rest
    <3>2. In(k, queue[l])
      BY <1>1, <3>1 DEF In
    <3>3. QED BY <1>1, <2>1, <3>1, <3>2, TailOnce
  <2>2. CASE ~(l \in out /\ Granted(k, l))
    <3>1. rest(l) = queue[l]
      BY <2>2 DEF Rest
    <3>2. l \in out => ~In(k, queue[l])
      BY <1>1, <2>2
    <3>3. QED BY <1>1, <3>1, <3>2
  <2>3. QED BY <2>1, <2>2
<1> HIDE DEF rest
<1>3. ASSUME NEW l \in Locks, l \in in PROVE ~In(k, rest(l))
  BY <1>1, <1>2, <1>3
<1>4. ASSUME NEW l \in Locks
      PROVE  /\ q(l) \in Seq(Calls) /\ Once(q(l))
             /\ \A j \in Calls : In(j, q(l)) <=> In(j, rest(l)) \/ (j = k /\ l \in in)
             /\ \A i, j : Precedes(i, j, q(l))
                          => Precedes(i, j, queue[l]) \/ (j = k /\ l \in in /\ In(i, rest(l)))
             /\ rest(l) # <<>> => q(l) # <<>> /\ Head(q(l)) = Head(rest(l))
  <2>1. CASE l \in in
    <3>1. rest(l) \in Seq(Calls) /\ Once(rest(l)) /\ ~In(k, rest(l)) /\ q(l) = Append(rest(l), k)
      BY <1>1, <1>2, <1>3, <2>1
    <3>2. /\ Append(rest(l), k) \in Seq(Calls) /\ Append(rest(l), k) # <<>>
          /\ Once(Append(rest(l), k))
          /\ \A j : In(j, Append(rest(l), k)) <=> In(j, rest(l)) \/ j = k
          /\ \A i, j : Precedes(i, j, Append(rest(l), k))
                       => Precedes(i, j, rest(l)) \/ (j = k /\ In(i, rest(l)))
          /\ rest(l) # <<>> => Head(Append(rest(l), k)) = Head(rest(l))
      BY <3>1, AppendOnce
    <3> HIDE DEF q
    <3>3. QED BY <1>2, <2>1, <3>1, <3>2
  <2>2. CASE l \notin in
    BY <1>1, <1>2, <2>2
  <2>3. QED BY <2>1, <2>2
<1>5. queue' \in [Locks -> Seq(Calls)]
  <2>1. queue' = [l \in Locks |-> q(l)]
    BY DEF Requeue
  <2>2. QED BY <1>4, <2>1
<1> HIDE DEF q
<1>6. \A l \in Locks : Once(queue'[l])
  BY <1>4 DEF q
<1>7. ASSUME NEW j \in Calls, NEW l \in Locks
      PROVE  Queues(j, l)' <=> l \in QueuedFor(call'[j])
  <2>1. Queues(j, l)' <=> In(j, q(l))
    BY DEF Queues, In, q
  <2>2. CASE j = k
    <3>1. call'[j] = r
      BY <2>2 DEF TypeOK
    <3>2. QED BY <1>1, <1>2, <1>4, <2>1, <2>2, <3>1
  <2>3. CASE j # k
    <3>1. call'[j] = call[j]
      BY <2>3 DEF TypeOK
    <3>2. QED BY <1>1, <1>2, <1>4, <2>1, <2>3, <3>1
  <2>4. QED BY <2>2, <2>3
<1>8. ASSUME NEW j \in Calls, NEW l \in Locks, l \in Held(call'[j])
      PROVE  Granted(j, l)'
  <2>1. Granted(j, l)' <=> q(l) # <<>> /\ Head(q(l)) = j
    BY DEF Granted, q
  <2>2. Granted(j, l) /\ rest(l) = queue[l]
    <3>1. CASE j = k
      <4>1. call'[j] = r
        BY <3>1 DEF TypeOK
      <4>2. QED BY <1>2, <1>8, <3>1, <4>1
    <3>2. CASE j # k
      <4>1. call'[j] = call[j]
        BY <3>2 DEF TypeOK
      <4>2. Granted(j, l) /\ ~Granted(k, l)
        BY <1>8, <3>2, <4>1 DEF QueueInv, Granted
      <4>3. l \notin out \/ l \notin QueuedFor(call[k])
        BY <4>2
      <4>4. QED BY <1>2, <4>2, <4>3
    <3>3. QED BY <3>1, <3>2
  <2>3. QED BY <1>4, <2>1, <2>2 DEF Granted
<1>9. QueueInv'
  BY <1>6, <1>7, <1>8 DEF QueueInv, Once
<1>10. ASSUME NEW l \in Locks, NEW i \in Calls, NEW j \in Calls, Ahead(i, j, l)'
       PROVE  Ahead(i, j, l) \/ (j = k /\ i # k /\ l \in in)
  <2>1. Precedes(i, j, q(l))
    BY <1>10 DEF Ahead, Precedes, q
  <2>2. Precedes(i, j, queue[l]) => Ahead(i, j, l)
    BY DEF Ahead, Precedes
  <2>3. QED BY <1>3, <1>4, <2>1, <2>2
<1>11. QED BY <1>5, <1>9, <1>10

-----------------------------------------------------------------------------
(* Moves of a call. *)

(* A call that may move has all the locks in whose queues it is. *)
AllGranted(k) == \A l \in Locks : l \in QueuedFor(call[k]) => Granted(k, l)

LEMMA MayMoveGranted ==
    ASSUME TypeOK, QueueInv, NEW k \in Calls, PhaseInv(call[k]),
           MayMove(k) \/ call[k].pc \in {"new", "over"}
    PROVE  AllGranted(k)
<1>1. ASSUME NEW l \in Locks, l \in QueuedFor(call[k]) PROVE Granted(k, l)
  <2>1. l \in Held(call[k]) => Granted(k, l)
    BY DEF QueueInv
  <2>2. l \in Held(call[k]) \/ Granted(k, l)
    BY <1>1 DEF QueuedFor, Held, MayMove, PhaseInv, AtAgent
  <2>3. QED BY <2>1, <2>2
<1>2. QED BY <1>1 DEF AllGranted

(* The queues after a move of k. *)
QueueMove(k) ==
    /\ queue' \in [Locks -> Seq(Calls)]
    /\ QueueInv'
    /\ \A i, j \in Calls :
          Ahead(i, j, DirLock(Root))'
          => \/ Ahead(i, j, DirLock(Root))
             \/ j = k /\ i # k /\ DirLock(Root) \notin QueuedFor(call[k])

(* The local variables after it: what is loaded is the stored session or what was loaded
   before, a new draft is made of the log and the notes. *)
RecordMove(k) ==
    LET c == call[k]
        n == call'[k]
    IN  /\ call' \in [Calls -> Locals]
        /\ \A j \in Calls \ {k} : call'[j] = call[j]
        /\ PhaseInv(n)
        /\ Unanswered(n) => Unanswered(c)
        /\ n.sid = {} \/ n.sid = c.sid \/ n.sid = session[Key(n)]
        /\ Loaded(n) => \/ Loaded(c) /\ Key(n) = Key(c) /\ n.sid = c.sid
                        \/ n.sid = session[Key(n)]
        /\ AtAgent(n) /\ n.task = "job"
           => IF n.dir \in GitDirs THEN n.sid = {} ELSE Key(n) \in jobbed'
        /\ Flushing(n) => \/ Flushing(c) /\ n.about = c.about /\ n.draft = c.draft
                          \/ /\ DirLock(Root) \notin QueuedFor(c)
                             /\ n.draft = Transcript(lines', n.about) \cup notes[n.about]

Move(k) == QueueMove(k) /\ RecordMove(k)

LEMMA ToBotMoves ==
    ASSUME ConversationAssumption, Inv, NEW k \in Calls, NEW r \in Locals,
           NEW t \in BotTasks \cup {"hard"}, NEW out \in {{}, CallLocks},
           ToBot(k, r, t, out), r.sid = {}, AllGranted(k),
           t = "turn" => r.round < MaxBotTurns,
           t = "turn" <=> call[k].task \in {"turn", "conclude"},
           \A l \in CallLocks : l \in QueuedFor(call[k]) => l \in out,
           t = "reply" => Unanswered(call[k])
    PROVE  Move(k)
<1> DEFINE n == [r EXCEPT !.pc = "bot", !.task = t]
           in == {BotLock(Worker(r, t))}
<1>1. call' = [call EXCEPT ![k] = n] /\ Requeue(k, out, in)
  BY DEF ToBot, Becomes
<1>2. n \in Locals /\ n.pc = "bot" /\ n.task = t /\ n.sid = {} /\ n.round = r.round /\ n.bot = r.bot
  BY DEF Locals, PcLabels, Tasks, BotTasks
<1>3. Worker(n, t) = Worker(r, t) /\ Worker(r, t) \in Bots
  BY <1>2, WhoAndWhere DEF Worker
<1>4. in \in SUBSET Locks /\ out \in SUBSET Locks /\ in \subseteq CallLocks
  BY <1>3, LocksDiffer
<1>5. call'[k] = n /\ call \in [Calls -> Locals] /\ TypeOK /\ QueueInv
  BY <1>1 DEF Inv, TypeOK
<1> HIDE DEF n
<1>6. ASSUME NEW l \in Locks
      PROVE  l \in QueuedFor(n) <=> (l \in QueuedFor(call[k]) /\ l \notin out) \/ l \in in
  <2>1. l \in QueuedFor(n)
        <=> l = BotLock(Worker(r, t)) \/ (l = Debate /\ t \in {"turn", "conclude"})
    BY <1>2, <1>3 DEF QueuedFor, AtAgent
  <2>2. Debate \in QueuedFor(call[k]) <=> call[k].task \in {"turn", "conclude"}
    <3>1. call[k] \in Locals BY <1>5
    <3>2. QED BY <3>1, WhoAndWhere, LocksDiffer DEF QueuedFor
  <2>3. CASE l \in CallLocks
    BY <2>1, <2>3, LocksDiffer
  <2>4. CASE l = Debate
    BY <1>4, <2>1, <2>2, <2>4, LocksDiffer DEF BotTasks
  <2>5. QED BY <2>3, <2>4, LocksDiffer
<1>7. \A l \in Held(n) : l \in QueuedFor(call[k]) /\ l \notin out /\ Granted(k, l)
  <2>1. \A l \in Held(n) : l = Debate /\ t = "turn"
    BY <1>2 DEF Held, AtAgent, BotTasks
  <2>2. Debate \in QueuedFor(n) => Debate \in QueuedFor(call[k]) /\ Debate \notin out
    BY <1>4, <1>6, LocksDiffer
  <2>3. t = "turn" => Debate \in QueuedFor(n)
    BY <1>2, LocksDiffer DEF QueuedFor
  <2>4. QED BY <2>1, <2>2, <2>3, LocksDiffer DEF AllGranted
<1>8. QueueMove(k)
  <2>1. \A l \in in : l \in QueuedFor(call[k]) => l \in out
    BY <1>4
  <2>2. \A l \in out : l \in QueuedFor(call[k]) => Granted(k, l)
    BY <1>4 DEF AllGranted
  <2>3. DirLock(Root) \in Locks /\ DirLock(Root) \notin in
    BY <1>3, LocksDiffer DEF ConversationAssumption
  <2> HIDE DEF in
  <2>4. Goes(k, n, out, in)
    BY <1>1, <1>2, <1>4, <1>5, <1>6, <1>7, <2>1, <2>2 DEF Goes
  <2>5. /\ queue' \in [Locks -> Seq(Calls)] /\ QueueInv'
        /\ \A l \in Locks : \A i, j \in Calls :
              Ahead(i, j, l)' => Ahead(i, j, l) \/ (j = k /\ i # k /\ l \in in)
    BY <1>5, <2>4, MoveKeepsQueues
  <2>6. QED BY <2>3, <2>5 DEF QueueMove
<1>9. RecordMove(k)
  <2>1. PhaseInv(n)
    BY <1>2 DEF PhaseInv, AtAgent, BotTasks
  <2>2. Unanswered(n) => Unanswered(call[k])
    BY <1>2 DEF Unanswered, BotTasks
  <2>3. ~AtAgent(n)
    BY <1>2 DEF AtAgent
  <2>4. QED BY <1>1, <1>2, <1>5, <2>1, <2>2, <2>3 DEF RecordMove, Loaded, Flushing
<1>10. QED BY <1>8, <1>9 DEF Move

LEMMA ToDirMoves ==
    ASSUME ConversationAssumption, Inv, NEW k \in Calls, NEW r \in Locals,
           NEW t \in BotTasks \cup {"job", "flush", "checkpoint", "conclude"},
           ToDir(k, r, t, {}), AllGranted(k),
           t = "turn" => r.round < MaxBotTurns,
           t = "job" => r.job /\ (r.dir \notin GitDirs => Key(r) \in jobbed'),
           t \in {"turn", "conclude"} <=> call[k].task \in {"turn", "conclude"},
           \A l \in CallLocks :
              l \in QueuedFor(call[k]) <=> t \in BotTasks /\ l = BotLock(Worker(r, t)),
           t \in {"reply", "job"} => Unanswered(call[k]),
           t \in {"flush", "checkpoint"} => r.draft = Transcript(lines', r.about) \cup notes[r.about]
    PROVE  Move(k)
<1> DEFINE sid == IF WithSession(r, t) THEN session[Key(r)] ELSE {}
           n == [r EXCEPT !.sid = sid, !.pc = "dir", !.task = t]
           in == {DirLock(RunsIn(r, t))}
<1>1. call' = [call EXCEPT ![k] = n] /\ Requeue(k, {}, in)
  BY DEF ToDir, Becomes
<1>2. sid \in SUBSET Calls
  BY DEF Inv, TypeOK, Key, Sessions, Locals
<1>3. /\ n \in Locals /\ n.pc = "dir" /\ n.task = t /\ n.sid = sid /\ n.round = r.round
      /\ n.bot = r.bot /\ n.dir = r.dir /\ n.job = r.job /\ n.about = r.about /\ n.draft = r.draft
  BY <1>2 DEF Locals, PcLabels, Tasks, BotTasks
<1>4. /\ Worker(n, t) = Worker(r, t) /\ Worker(r, t) \in Bots
      /\ RunsIn(n, t) = RunsIn(r, t) /\ RunsIn(r, t) \in Dirs /\ Root \in Dirs
  BY <1>3, WhoAndWhere DEF Worker, RunsIn
<1>5. in \in SUBSET Locks /\ in \subseteq DirLocks /\ in \subseteq CallLocks
  BY <1>4, LocksDiffer
<1>6. call'[k] = n /\ call \in [Calls -> Locals] /\ TypeOK /\ QueueInv
  BY <1>1 DEF Inv, TypeOK
<1>7. Key(n) = Key(r) /\ (WithSession(n, t) <=> WithSession(r, t))
  BY <1>3 DEF Key, WithSession
<1> HIDE DEF n, sid
<1>8. Debate \in QueuedFor(call[k]) <=> call[k].task \in {"turn", "conclude"}
  <2>1. call[k] \in Locals BY <1>6
  <2>2. QED BY <2>1, WhoAndWhere, LocksDiffer DEF QueuedFor
<1>9. ASSUME NEW l \in Locks
      PROVE  l \in QueuedFor(n) <=> l \in QueuedFor(call[k]) \/ l \in in
  <2>1. l \in QueuedFor(n) <=> \/ l = Debate /\ t \in {"turn", "conclude"}
                               \/ l = BotLock(Worker(r, t)) /\ t \in BotTasks
                               \/ l \in in
    BY <1>3, <1>4 DEF QueuedFor, AtAgent
  <2>2. CASE l \in CallLocks
    BY <2>1, <2>2, LocksDiffer
  <2>3. CASE l = Debate
    BY <1>4, <1>5, <1>8, <2>1, <2>3, LocksDiffer
  <2>4. QED BY <2>2, <2>3, LocksDiffer
<1>10. \A l \in in : l \notin QueuedFor(call[k])
  BY <1>4, <1>5, LocksDiffer
<1>11. \A l \in Held(n) : l \in QueuedFor(call[k]) /\ Granted(k, l)
  <2>1. ASSUME NEW l \in Held(n) PROVE l \in Locks /\ l \in QueuedFor(call[k])
    <3>1. l \in Locks /\ l \in QueuedFor(n) /\ (l = Debate \/ l = BotLock(Worker(r, t)))
      BY <1>3, <1>4 DEF Held, QueuedFor, AtAgent
    <3>2. l \notin in
      BY <1>4, <3>1, LocksDiffer
    <3>3. QED BY <1>9, <3>1, <3>2
  <2>2. QED BY <2>1 DEF AllGranted
<1>12. QueueMove(k)
  <2>1. DirLock(Root) \in Locks
    BY <1>4, LocksDiffer
  <2> HIDE DEF in
  <2>2. Goes(k, n, {}, in)
    BY <1>1, <1>3, <1>5, <1>6, <1>9, <1>10, <1>11 DEF Goes
  <2>3. /\ queue' \in [Locks -> Seq(Calls)] /\ QueueInv'
        /\ \A l \in Locks : \A i, j \in Calls :
              Ahead(i, j, l)' => Ahead(i, j, l) \/ (j = k /\ i # k /\ l \in in)
    BY <1>6, <2>2, MoveKeepsQueues
  <2>4. QED BY <1>10, <2>1, <2>3 DEF QueueMove
<1>13. RecordMove(k)
  <2>1. PhaseInv(n)
    BY <1>3 DEF PhaseInv, AtAgent, BotTasks, sid, WithSession
  <2>2. Unanswered(n) => Unanswered(call[k])
    BY <1>3 DEF Unanswered, BotTasks
  <2>3. n.sid = {} \/ n.sid = session[Key(n)]
    BY <1>3, <1>7 DEF sid
  <2>4. Loaded(n) => n.sid = session[Key(n)]
    BY <1>3, <1>7 DEF Loaded, sid, WithSession
  <2>5. n.task = "job" => IF n.dir \in GitDirs THEN n.sid = {} ELSE Key(n) \in jobbed'
    BY <1>3, <1>7 DEF sid, WithSession
  <2>6. Flushing(n) => /\ DirLock(Root) \notin QueuedFor(call[k])
                       /\ n.draft = Transcript(lines', n.about) \cup notes[n.about]
    BY <1>3, <1>4, LocksDiffer DEF Flushing, BotTasks
  <2>7. QED BY <1>1, <1>3, <1>6, <2>1, <2>2, <2>3, <2>4, <2>5, <2>6 DEF RecordMove
<1>14. QED BY <1>12, <1>13 DEF Move

(* A call that has not begun, and one that is over. *)
LEMMA FreshTyped ==
    ASSUME ConversationAssumption
    PROVE  Fresh \in Locals /\ Over \in Locals
<1>1. 0 \in 0..MaxBotTurns /\ Low \in Sizes /\ Root \in Dirs
  BY DEF ConversationAssumption, Sizes, Low, HardThreshold
<1>2. Fresh \in Locals
  BY <1>1 DEF Fresh, Locals, PcLabels, Tasks, Bots
<1>3. QED BY <1>2 DEF Over, Locals, PcLabels

LEMMA LeaveMoves ==
    ASSUME ConversationAssumption, Inv, NEW k \in Calls, Leave(k), AllGranted(k)
    PROVE  Move(k) /\ call'[k] = Over
<1>1. call' = [call EXCEPT ![k] = Over] /\ Requeue(k, Locks, {})
  BY DEF Leave
<1>2. Over \in Locals /\ Over.pc = "over" /\ Over.task = "none" /\ Over.sid = {}
  BY FreshTyped DEF Over, Fresh
<1>3. call'[k] = Over /\ call \in [Calls -> Locals] /\ TypeOK /\ QueueInv
  BY <1>1 DEF Inv, TypeOK
<1>4. /\ \A l \in Locks : l \notin QueuedFor(Over)
      /\ \A l \in Held(Over) : FALSE
  BY <1>2 DEF QueuedFor, Held, AtAgent
<1>5. QueueMove(k)
  <2>1. Goes(k, Over, Locks, {})
    BY <1>1, <1>2, <1>4 DEF Goes, AllGranted
  <2>2. /\ queue' \in [Locks -> Seq(Calls)] /\ QueueInv'
        /\ \A l \in Locks : \A i, j \in Calls :
              Ahead(i, j, l)' => Ahead(i, j, l) \/ (j = k /\ i # k /\ l \in {})
    BY <1>3, <2>1, MoveKeepsQueues
  <2>3. DirLock(Root) \in Locks
    BY LocksDiffer DEF ConversationAssumption
  <2>4. QED BY <2>2, <2>3 DEF QueueMove
<1>6. RecordMove(k)
  BY <1>1, <1>2, <1>3 DEF RecordMove, PhaseInv, Unanswered, Loaded, Flushing, AtAgent
<1>7. QED BY <1>3, <1>5, <1>6 DEF Move

LEMMA SendMoves ==
    ASSUME ConversationAssumption, Inv, NEW k \in Calls, NEW r \in Locals,
           Send(k, r), AllGranted(k), AtAgent(call[k]),
           r.task \in {"reply", "job", "turn"}, r.task = call[k].task, r.job = call[k].job
    PROVE  Move(k)
<1> DEFINE n == [r EXCEPT !.sid = {}, !.pc = "sending", !.task = r.task]
<1>1. call' = [call EXCEPT ![k] = n] /\ Requeue(k, CallLocks, {})
  BY DEF Send, Becomes
<1>2. /\ n \in Locals /\ n.pc = "sending" /\ n.task = r.task /\ n.sid = {} /\ n.job = r.job
  BY DEF Locals, PcLabels, Tasks
<1>3. call'[k] = n /\ call \in [Calls -> Locals] /\ TypeOK /\ QueueInv /\ PhaseInv(call[k])
  BY <1>1 DEF Inv, TypeOK, CallInv
<1> HIDE DEF n
<1>4. Debate \in QueuedFor(call[k]) <=> r.task = "turn"
  <2>1. call[k] \in Locals BY <1>3
  <2>2. QED BY <2>1, WhoAndWhere, LocksDiffer DEF QueuedFor
<1>5. ASSUME NEW l \in Locks
      PROVE  /\ l \in QueuedFor(n) <=> l = Debate /\ r.task = "turn"
             /\ l \in Held(n) => l = Debate /\ r.task = "turn"
  BY <1>2 DEF QueuedFor, Held, AtAgent
<1>6. QueueMove(k)
  <2>1. \A l \in Locks :
           l \in QueuedFor(n) <=> (l \in QueuedFor(call[k]) /\ l \notin CallLocks) \/ l \in {}
    BY <1>4, <1>5, LocksDiffer
  <2>2. \A l \in Held(n) : l \in QueuedFor(call[k]) /\ l \notin CallLocks /\ Granted(k, l)
    <3>1. \A l \in Held(n) : l \in Locks BY DEF Held
    <3>2. QED BY <1>4, <1>5, <3>1, LocksDiffer DEF AllGranted
  <2>3. Goes(k, n, CallLocks, {})
    BY <1>1, <1>2, <2>1, <2>2, LocksDiffer DEF Goes, AllGranted
  <2>4. /\ queue' \in [Locks -> Seq(Calls)] /\ QueueInv'
        /\ \A l \in Locks : \A i, j \in Calls :
              Ahead(i, j, l)' => Ahead(i, j, l) \/ (j = k /\ i # k /\ l \in {})
    BY <1>3, <2>3, MoveKeepsQueues
  <2>5. DirLock(Root) \in Locks
    BY LocksDiffer DEF ConversationAssumption
  <2>6. QED BY <2>4, <2>5 DEF QueueMove
<1>7. RecordMove(k)
  <2>1. PhaseInv(n)
    BY <1>2, <1>3 DEF PhaseInv, AtAgent
  <2>2. QED BY <1>1, <1>2, <1>3, <2>1 DEF RecordMove, Unanswered, Loaded, Flushing, AtAgent
<1>8. QED BY <1>6, <1>7 DEF Move

LEMMA EnterDirMoves ==
    ASSUME ConversationAssumption, Inv, NEW k \in Calls, EnterDir(k)
    PROVE  Move(k)
<1> DEFINE c == call[k]
           n == [c EXCEPT !.pc = "agent", !.task = c.task]
<1>1. /\ call' = [call EXCEPT ![k] = n] /\ queue' = queue
      /\ c.pc = "dir" /\ Granted(k, DirLock(RunsIn(c, c.task)))
  BY DEF EnterDir, Becomes
<1>2. /\ c \in Locals /\ PhaseInv(c) /\ LoadedInv(k)
      /\ TypeOK /\ QueueInv /\ call \in [Calls -> Locals]
  BY DEF Inv, TypeOK, CallInv
<1>3. /\ n \in Locals /\ n.pc = "agent" /\ n.task = c.task /\ n.sid = c.sid /\ n.job = c.job
      /\ n.round = c.round /\ n.bot = c.bot /\ n.dir = c.dir
      /\ n.about = c.about /\ n.draft = c.draft
  BY <1>2 DEF Locals, PcLabels
<1>4. /\ Worker(n, n.task) = Worker(c, c.task) /\ RunsIn(n, n.task) = RunsIn(c, c.task)
      /\ Key(n) = Key(c)
  BY <1>3 DEF Worker, RunsIn, Key
<1>5. call'[k] = n
  BY <1>1, <1>2
<1> HIDE DEF n
<1>6. \A l \in Locks : /\ l \in QueuedFor(n) <=> l \in QueuedFor(c)
                       /\ l \in Held(n) => l \in Held(c) \/ l = DirLock(RunsIn(c, c.task))
                       /\ l \in Held(n) => l \in QueuedFor(n)
  BY <1>1, <1>3, <1>4 DEF QueuedFor, Held, AtAgent
<1>7. \A l \in Held(n) : l \in Locks /\ Granted(k, l)
  <2>1. \A l \in Held(n) : l \in Locks
    BY DEF Held
  <2>2. QED BY <1>1, <1>2, <1>6, <2>1 DEF QueueInv
<1>8. QueueMove(k)
  <2>1. Requeue(k, {}, {})
    BY <1>1, <1>2 DEF Requeue, Rest, TypeOK
  <2>2. Goes(k, n, {}, {})
    BY <1>1, <1>3, <1>6, <1>7, <2>1 DEF Goes
  <2>3. /\ queue' \in [Locks -> Seq(Calls)] /\ QueueInv'
        /\ \A l \in Locks : \A i, j \in Calls :
              Ahead(i, j, l)' => Ahead(i, j, l) \/ (j = k /\ i # k /\ l \in {})
    BY <1>2, <2>2, MoveKeepsQueues
  <2>4. DirLock(Root) \in Locks
    BY LocksDiffer DEF ConversationAssumption
  <2>5. QED BY <2>3, <2>4 DEF QueueMove
<1>9. RecordMove(k)
  <2>1. PhaseInv(n)
    BY <1>1, <1>2, <1>3 DEF PhaseInv, AtAgent
  <2>2. Unanswered(n) => Unanswered(c)
    BY <1>1, <1>3 DEF Unanswered
  <2>3. (Loaded(n) <=> Loaded(c)) /\ (Flushing(n) <=> Flushing(c)) /\ AtAgent(c)
    BY <1>1, <1>3 DEF Loaded, Flushing, AtAgent
  <2>4. AtAgent(n) /\ n.task = "job" => IF n.dir \in GitDirs THEN n.sid = {} ELSE Key(n) \in jobbed'
    BY <1>2, <1>3, <1>4, <2>3 DEF LoadedInv, EnterDir
  <2>5. QED BY <1>1, <1>2, <1>3, <1>4, <1>5, <2>1, <2>2, <2>3, <2>4 DEF RecordMove
<1>10. QED BY <1>8, <1>9 DEF Move

-----------------------------------------------------------------------------
(* What a move keeps, by what it does to the memory. *)

(* No two calls are at a chat or handover of the same bot. *)
LEMMA OneLoaded ==
    ASSUME ConversationAssumption, TypeOK, QueueInv, NEW j \in Calls, NEW k \in Calls,
           Loaded(call[j]), Granted(k, BotLock(call[j].bot))
    PROVE  j = k
<1>1. call[j] \in Locals
  BY DEF TypeOK
<1>2. Worker(call[j], call[j].task) = call[j].bot /\ call[j].bot \in Bots
  BY <1>1, WhoAndWhere DEF Loaded, Locals
<1>3. BotLock(call[j].bot) \in Held(call[j])
  BY <1>2, LocksDiffer DEF Held, Loaded, BotTasks
<1>4. BotLock(call[j].bot) \in Locks
  BY <1>2, LocksDiffer
<1>5. QED BY <1>3, <1>4 DEF QueueInv, Granted

(* The drafts of the flushes are in order after a move. *)
LEMMA MoveKeepsOrder ==
    ASSUME ConversationAssumption, Inv, NEW k \in Calls, Move(k), Speaks
    PROVE  DraftOrder'
<1> DEFINE D == DirLock(Root)
           c == call[k]
           n == call'[k]
           said(d) == Transcript(lines, d)
           saidNow(d) == Transcript(lines', d)
<1> SUFFICES ASSUME NEW i \in Calls, NEW j \in Calls, Flushing(call'[i]), Flushing(call'[j]),
                    call'[i].about = call'[j].about, Ahead(i, j, D)'
             PROVE  (call'[i].draft \ call'[j].draft) \cap saidNow(call'[i].about) = {}
  BY DEF DraftOrder
<1>1. D \in Locks
  BY LocksDiffer DEF ConversationAssumption
<1>2. Ahead(i, j, D) \/ (j = k /\ i # k /\ D \notin QueuedFor(c))
  BY DEF Move, QueueMove
<1>3. Ahead(i, j, D) => D \in QueuedFor(call[i]) /\ D \in QueuedFor(call[j])
  <2>1. Ahead(i, j, D) => Queues(i, D) /\ Queues(j, D)
    BY DEF Ahead, Queues
  <2>2. QED BY <1>1, <2>1 DEF Inv, QueueInv
<1> HIDE DEF D
<1>4. \A m \in Calls : m # k => call'[m] = call[m]
  BY DEF Move, RecordMove
<1>5. /\ Flushing(call[i]) => call[i].draft \subseteq 1..Len(lines)
      /\ Flushing(call[i]) /\ Flushing(call[j]) /\ call[i].about = call[j].about /\ Ahead(i, j, D)
         => (call[i].draft \ call[j].draft) \cap said(call[i].about) = {}
  BY DEF Inv, CallInv, DraftInv, DraftOrder, D
<1>6. Flushing(n) => \/ Flushing(c) /\ n.about = c.about /\ n.draft = c.draft
                     \/ D \notin QueuedFor(c) /\ saidNow(n.about) \subseteq n.draft
  BY DEF Move, RecordMove, D
<1>7. \A d \in Dirs : saidNow(d) \cap (1..Len(lines)) \subseteq said(d)
  BY NewLines DEF Inv, TypeOK
<1>8. call'[i].about \in Dirs
  BY DEF Move, RecordMove, Locals
<1> HIDE DEF said, saidNow
<1>9. CASE Ahead(i, j, D)
  <2>1. \A m \in {i, j} :
           Flushing(call[m]) /\ call'[m].about = call[m].about /\ call'[m].draft = call[m].draft
    BY <1>3, <1>4, <1>6, <1>9
  <2>2. QED BY <1>5, <1>7, <1>8, <1>9, <2>1
<1>10. CASE j = k /\ D \notin QueuedFor(c)
  <2>1. Flushing(c) => D \in QueuedFor(c)
    BY <1>1, WhoAndWhere DEF Flushing, QueuedFor, Inv, TypeOK, D
  <2>2. QED BY <1>6, <1>10, <2>1
<1>11. QED BY <1>2, <1>9, <1>10

(* The drafts and notes after a move that writes no notes. *)
LEMMA MoveKeepsDrafts ==
    ASSUME ConversationAssumption, Inv, NEW k \in Calls, Move(k), Speaks,
           notes' = notes, overtaken' = overtaken
    PROVE  NotesInv' /\ \A j \in Calls : DraftInv(j)'
<1>1. /\ 1..Len(lines) \subseteq 1..Len(lines')
      /\ \A d \in Dirs : /\ Transcript(lines', d) \subseteq 1..Len(lines')
                        /\ Transcript(lines', d) \cap (1..Len(lines)) \subseteq Transcript(lines, d)
      /\ \A d \in Dirs : notes[d] \subseteq 1..Len(lines)
  BY NewLines DEF Inv, TypeOK, NotesInv
<1>2. NotesInv'
  BY <1>1 DEF NotesInv
<1>3. ASSUME NEW j \in Calls PROVE DraftInv(j)'
  <2> DEFINE n == call'[j]
             d == n.about
  <2> SUFFICES ASSUME Flushing(n)
               PROVE  /\ n.draft \subseteq 1..Len(lines')
                      /\ notes[d] \subseteq n.draft \/ j \in overtaken
                      /\ (notes[d] \ n.draft) \cap Transcript(lines', d) = {}
    BY DEF DraftInv
  <2>1. d \in Dirs
    BY DEF Move, RecordMove, Locals
  <2>2. \/ Flushing(call[j]) /\ d = call[j].about /\ n.draft = call[j].draft
        \/ n.draft = Transcript(lines', d) \cup notes[d]
    BY DEF Move, RecordMove
  <2>3. CASE Flushing(call[j]) /\ d = call[j].about /\ n.draft = call[j].draft
    <3>1. /\ n.draft \subseteq 1..Len(lines)
          /\ notes[d] \subseteq n.draft \/ j \in overtaken
          /\ (notes[d] \ n.draft) \cap Transcript(lines, d) = {}
      BY <2>3 DEF Inv, CallInv, DraftInv
    <3> HIDE DEF n, d
    <3>2. QED BY <1>1, <2>1, <3>1
  <2>4. CASE n.draft = Transcript(lines', d) \cup notes[d]
    <3> HIDE DEF n, d
    <3>1. QED BY <1>1, <2>1, <2>4
  <2>5. QED BY <2>2, <2>3, <2>4
<1>4. QED BY <1>2, <1>3

(* The drafts and notes when no call moves. *)
LEMMA SpeakingKeeps ==
    ASSUME ConversationAssumption, Inv, Speaks, UNCHANGED <<call, queue, notes, overtaken>>
    PROVE  /\ lines' \in Seq(Dirs)
           /\ QueueInv' /\ DraftOrder' /\ NotesInv' /\ \A j \in Calls : DraftInv(j)'
<1>1. /\ 1..Len(lines) \subseteq 1..Len(lines') /\ lines' \in Seq(Dirs)
      /\ \A d \in Dirs : Transcript(lines', d) \cap (1..Len(lines)) \subseteq Transcript(lines, d)
      /\ \A d \in Dirs : notes[d] \subseteq 1..Len(lines)
      /\ \A j \in Calls : call'[j] = call[j] /\ call[j].about \in Dirs
  BY NewLines DEF Inv, TypeOK, NotesInv, Locals
<1>2. QueueInv' /\ NotesInv'
  BY <1>1 DEF Inv, QueueInv, Queues, Granted, NotesInv
<1>3. ASSUME NEW j \in Calls PROVE DraftInv(j)'
  <2>1. DraftInv(j)
    BY DEF Inv, CallInv
  <2>2. QED BY <1>1, <2>1 DEF DraftInv
<1>4. DraftOrder'
  <2> SUFFICES ASSUME NEW i \in Calls, NEW j \in Calls, Flushing(call[i]), Flushing(call[j]),
                      call[i].about = call[j].about, Ahead(i, j, DirLock(Root))
               PROVE  (call[i].draft \ call[j].draft) \cap Transcript(lines', call[i].about) = {}
    BY DEF DraftOrder, Ahead
  <2>1. /\ call[i].draft \subseteq 1..Len(lines)
        /\ (call[i].draft \ call[j].draft) \cap Transcript(lines, call[i].about) = {}
    BY DEF Inv, CallInv, DraftInv, DraftOrder
  <2>2. QED BY <1>1, <2>1
<1>5. QED BY <1>1, <1>2, <1>3, <1>4

(* What such a move has to leave alone besides. *)
OutsideMemory ==
    /\ notes' = notes /\ overtaken' = overtaken
    /\ Speaks
    /\ channelCwd' \in Dirs
    /\ commands' \in 0..MaxMessages
    /\ undone' = undone
    /\ jobbed \subseteq jobbed' /\ jobbed' \subseteq Sessions

(* A move that leaves the sessions alone. *)
LEMMA MoveKeepsSessions ==
    ASSUME ConversationAssumption, Inv, NEW k \in Calls, Move(k), TypeOK', Speaks,
           session' = session, dropped' = dropped, undone' = undone, jobbed \subseteq jobbed',
           NotesInv', \A j \in Calls : DraftInv(j)'
    PROVE  Inv'
<1> DEFINE c == call[k]
           n == call'[k]
<1>1. /\ \A j \in Calls : j # k => call'[j] = call[j]
      /\ RecordMove(k) /\ QueueMove(k)
  BY DEF Move, RecordMove
<1>3. DraftOrder'
  BY MoveKeepsOrder
<1>4. DroppedStaysDropped'
  BY <1>1 DEF Inv, DroppedStaysDropped
<1>5. ASSUME NEW j \in Calls PROVE PhaseInv(call'[j])
  BY <1>1 DEF RecordMove, Inv, CallInv
<1>6. ASSUME NEW j \in Calls PROVE UnansweredInv(j)'
  <2>1. UnansweredInv(j) /\ (Unanswered(call'[j]) => Unanswered(call[j]))
    BY <1>1 DEF RecordMove, Inv, CallInv
  <2>2. Key(n) \in Sessions
    BY <1>1 DEF RecordMove, Locals, Key, Sessions
  <2>3. ASSUME Unanswered(call[j]), NEW i \in Calls PROVE j \notin call'[i].sid
    BY <1>1, <2>1, <2>2, <2>3 DEF RecordMove, UnansweredInv
  <2>4. QED BY <1>1, <2>1, <2>3 DEF UnansweredInv
<1>7. ASSUME NEW j \in Calls PROVE LoadedInv(j)'
  <2>1. CASE j # k
    <3>1. call'[j] = call[j] /\ LoadedInv(j)
      BY <1>1, <2>1 DEF Inv, CallInv
    <3>2. QED BY <1>1, <3>1 DEF LoadedInv
  <2>2. CASE j = k
    <3>1. LoadedInv(k) /\ DroppedStaysDropped
      BY DEF Inv, CallInv
    <3>2. Key(n) \in Sessions
      BY <1>1 DEF RecordMove, Locals, Key, Sessions
    <3>3. Loaded(n) => \/ Loaded(c) /\ Key(n) = Key(c) /\ n.sid = c.sid
                       \/ n.sid = session[Key(n)]
      BY <1>1 DEF RecordMove
    <3>4. AtAgent(n) /\ n.task = "job"
          => IF n.dir \in GitDirs THEN n.sid = {} ELSE Key(n) \in jobbed'
      BY <1>1 DEF RecordMove
    <3>5. Loaded(n) => /\ session[Key(n)] \subseteq n.sid \/ Key(n) \in jobbed
                       /\ n.sid \cap dropped[Key(n)] = {} \/ Key(n) \in undone \cup jobbed
                       /\ session[Key(n)] = n.sid \/ Key(n) \in undone \cup jobbed
      BY <3>1, <3>2, <3>3 DEF LoadedInv, DroppedStaysDropped
    <3>6. QED BY <1>1, <2>2, <3>4, <3>5 DEF LoadedInv
  <2>3. QED BY <2>1, <2>2
<1>8. QED BY <1>1, <1>3, <1>4, <1>5, <1>6, <1>7 DEF Inv, CallInv, QueueMove

(* A move that leaves all memory alone. *)
LEMMA MoveKeepsInv ==
    ASSUME ConversationAssumption, Inv, NEW k \in Calls, Move(k), UNCHANGED memory, OutsideMemory
    PROVE  Inv'
<1>1. session' = session /\ ctx' = ctx /\ checkpointed' = checkpointed /\ dropped' = dropped
  BY DEF memory
<1>2. TypeOK'
  <2>1. lines' \in Seq(Dirs)
    BY NewLines DEF Inv, TypeOK, OutsideMemory
  <2>2. QED BY <1>1, <2>1 DEF Inv, TypeOK, OutsideMemory, Move, RecordMove, QueueMove
<1>3. NotesInv' /\ \A j \in Calls : DraftInv(j)'
  BY MoveKeepsDrafts DEF OutsideMemory
<1>4. QED BY <1>1, <1>2, <1>3, MoveKeepsSessions DEF OutsideMemory

(* The answer of k is stored: a chat's by the holder of the bot's lock, or a job's. *)
LEMMA SaveKeepsInv ==
    ASSUME ConversationAssumption, Inv, NEW k \in Calls, Move(k), Save(k), OutsideMemory,
           AtAgent(call[k]), call[k].task \in {"reply", "job"}, AllGranted(k),
           WithSession(call[k], call[k].task), call'[k].pc = "sending"
    PROVE  Inv' /\ \A s \in Sessions : session[s] \subseteq session'[s] \/ s \in jobbed
<1> DEFINE c == call[k]
           s == Key(c)
<1>1. /\ session' = [session EXCEPT ![s] = c.sid \cup {k}]
      /\ checkpointed' = checkpointed /\ dropped' = dropped
      /\ ctx' \in [Sessions -> Sizes]
      /\ \A j \in Calls : j # k => call'[j] = call[j]
      /\ RecordMove(k) /\ QueueMove(k)
  BY DEF Save, Move, RecordMove, Inv, TypeOK
<1>2. c \in Locals /\ s \in Sessions /\ c.sid \in SUBSET Calls /\ TypeOK /\ QueueInv
  BY DEF Inv, TypeOK, Key, Sessions, Locals
<1>3. session' \in [Sessions -> SUBSET Calls] /\ session'[s] = c.sid \cup {k}
      /\ \A t \in Sessions : t # s => session'[t] = session[t]
  BY <1>1, <1>2 DEF TypeOK
<1>4. TypeOK'
  <2>1. lines' \in Seq(Dirs)
    BY NewLines DEF Inv, TypeOK, OutsideMemory
  <2>2. QED BY <1>1, <1>3, <2>1 DEF Inv, TypeOK, OutsideMemory, RecordMove, QueueMove
<1>5. DraftOrder' /\ NotesInv' /\ \A j \in Calls : DraftInv(j)'
  BY MoveKeepsOrder, MoveKeepsDrafts DEF OutsideMemory
<1>6. CallInv(k) /\ Unanswered(c) /\ DroppedStaysDropped
  BY DEF Inv, CallInv, Unanswered, AtAgent
<1>7. c.task = "job" => s \in jobbed
  BY <1>6 DEF CallInv, LoadedInv, WithSession
<1>8. c.task = "reply" => Loaded(c) /\ c.bot \in Bots /\ Granted(k, BotLock(c.bot))
  <2>1. Loaded(c) <=> c.task = "reply"
    BY DEF Loaded
  <2>2. c.task = "reply" => Worker(c, c.task) = c.bot /\ c.bot \in Bots
    BY <1>2, WhoAndWhere DEF Locals
  <2>3. c.task = "reply" => BotLock(c.bot) \in QueuedFor(c)
    BY <2>2, LocksDiffer DEF QueuedFor, BotTasks
  <2>4. QED BY <2>1, <2>2, <2>3, LocksDiffer DEF AllGranted
<1>9. session[s] \subseteq c.sid \/ s \in jobbed
  BY <1>6, <1>7, <1>8 DEF CallInv, LoadedInv
<1>10. \/ c.sid \cap dropped[s] = {} /\ k \notin dropped[s]
       \/ s \in undone \cup jobbed
  BY <1>2, <1>6, <1>7, <1>8 DEF CallInv, LoadedInv, UnansweredInv
<1>11. DroppedStaysDropped'
  BY <1>1, <1>3, <1>6, <1>10 DEF DroppedStaysDropped, OutsideMemory
<1>12. ASSUME NEW j \in Calls PROVE PhaseInv(call'[j])
  BY <1>1 DEF RecordMove, Inv, CallInv
<1>13. ASSUME NEW j \in Calls PROVE UnansweredInv(j)'
  <2>1. CASE j = k
    BY <2>1 DEF UnansweredInv, Unanswered
  <2>2. CASE j # k
    <3>1. UnansweredInv(j) /\ call'[j] = call[j] /\ \A i \in Calls : i # k => call'[i] = call[i]
      BY <1>1, <2>2 DEF Inv, CallInv
    <3>2. Unanswered(call[j]) => j \notin c.sid
      BY <3>1 DEF UnansweredInv
    <3>3. Unanswered(call[j]) => \A t \in Sessions : j \notin session'[t]
      BY <1>2, <1>3, <2>2, <3>1, <3>2 DEF UnansweredInv
    <3>4. call'[k].sid = {}
      BY <1>1 DEF RecordMove, PhaseInv, AtAgent
    <3>5. QED BY <1>1, <3>1, <3>3, <3>4 DEF UnansweredInv
  <2>3. QED BY <2>1, <2>2
<1>14. ASSUME NEW j \in Calls PROVE LoadedInv(j)'
  <2>1. CASE j = k
    <3>1. ~AtAgent(call'[k])
      BY DEF AtAgent
    <3>2. QED BY <2>1, <3>1 DEF LoadedInv, Loaded
  <2>2. CASE j # k
    <3>1. call'[j] = call[j] /\ LoadedInv(j) /\ call[j] \in Locals
      BY <1>1, <1>2, <2>2 DEF Inv, CallInv, TypeOK
    <3>2. CASE Key(call[j]) # s
      <4>1. Key(call[j]) \in Sessions
        BY <3>1 DEF Key, Sessions, Locals
      <4>2. QED BY <1>1, <1>3, <3>1, <3>2, <4>1 DEF LoadedInv, OutsideMemory
    <3>3. CASE s \in jobbed /\ Key(call[j]) = s
      BY <3>1, <3>3 DEF LoadedInv, OutsideMemory
    <3>4. CASE s \notin jobbed /\ Key(call[j]) = s
      <4>1. c.task = "reply" /\ call[j].bot = c.bot
        BY <1>7, <3>4 DEF Key
      <4>2. ~Loaded(call[j])
        BY <1>2, <1>8, <2>2, <4>1, OneLoaded
      <4>3. QED BY <3>1, <3>4, <4>2 DEF LoadedInv, OutsideMemory
    <3>5. QED BY <3>2, <3>3, <3>4
  <2>3. QED BY <2>1, <2>2
<1>15. Inv'
  BY <1>1, <1>4, <1>5, <1>11, <1>12, <1>13, <1>14 DEF Inv, CallInv, QueueMove
<1>16. ASSUME NEW t \in Sessions PROVE session[t] \subseteq session'[t] \/ t \in jobbed
  BY <1>3, <1>9
<1>17. QED BY <1>15, <1>16

(* The holder of the bot's lock drops a session, with all turns it has. *)
LEMMA DropKeepsInv ==
    ASSUME ConversationAssumption, Inv, NEW k \in Calls, Move(k), OutsideMemory,
           NEW turns \in SUBSET Calls, Drop(Key(call[k]), turns),
           ~AtAgent(call'[k]), ~Unanswered(call'[k]), call'[k].sid = {},
           Granted(k, BotLock(call[k].bot)), ~Unanswered(call[k]),
           \A j \in turns : ~Unanswered(call[j])
    PROVE  Inv'
<1> DEFINE c == call[k]
           s == Key(c)
<1>1. /\ session' = [session EXCEPT ![s] = {}]
      /\ checkpointed' \in [Sessions -> BOOLEAN]
      /\ dropped' = [dropped EXCEPT ![s] = dropped[s] \cup turns]
      /\ ctx' \in [Sessions -> Sizes]
      /\ \A j \in Calls : j # k => call'[j] = call[j]
      /\ RecordMove(k) /\ QueueMove(k)
      /\ jobbed \subseteq jobbed' /\ undone' = undone
  <2>1. Low \in Sizes
    BY DEF Sizes, Low, HardThreshold
  <2>2. RecordMove(k) /\ QueueMove(k) /\ TypeOK
    BY DEF Move, Inv
  <2>3. QED BY <2>1, <2>2 DEF Drop, RecordMove, TypeOK, OutsideMemory
<1>2. c \in Locals /\ s \in Sessions /\ TypeOK /\ QueueInv /\ DroppedStaysDropped
  BY DEF Inv, TypeOK, Key, Sessions, Locals
<1>3. /\ session' \in [Sessions -> SUBSET Calls] /\ session'[s] = {}
      /\ \A t \in Sessions : t # s => session'[t] = session[t] /\ dropped'[t] = dropped[t]
      /\ dropped' \in [Sessions -> SUBSET Calls] /\ dropped'[s] = dropped[s] \cup turns
  BY <1>1, <1>2 DEF TypeOK
<1>4. TypeOK'
  <2>1. lines' \in Seq(Dirs)
    BY NewLines DEF Inv, TypeOK, OutsideMemory
  <2>2. QED BY <1>1, <1>3, <2>1 DEF Inv, TypeOK, OutsideMemory, RecordMove, QueueMove
<1>5. DraftOrder' /\ NotesInv' /\ \A j \in Calls : DraftInv(j)'
  BY MoveKeepsOrder, MoveKeepsDrafts DEF OutsideMemory
<1>6. DroppedStaysDropped'
  BY <1>1, <1>2, <1>3 DEF DroppedStaysDropped
<1>7. ASSUME NEW j \in Calls PROVE PhaseInv(call'[j])
  BY <1>1 DEF RecordMove, Inv, CallInv
<1>8. ASSUME NEW j \in Calls PROVE UnansweredInv(j)'
  <2>1. CASE j = k
    BY <2>1 DEF UnansweredInv
  <2>2. CASE j # k
    <3>1. UnansweredInv(j) /\ call'[j] = call[j]
      BY <1>1, <2>2 DEF Inv, CallInv
    <3>2. Unanswered(call[j]) => j \notin turns /\ \A i \in Calls : j \notin call'[i].sid
      BY <1>1, <3>1 DEF UnansweredInv
    <3>3. Unanswered(call[j]) => \A t \in Sessions : j \notin session'[t] /\ j \notin dropped'[t]
      BY <1>2, <1>3, <3>1, <3>2 DEF UnansweredInv
    <3>4. QED BY <3>1, <3>2, <3>3 DEF UnansweredInv
  <2>3. QED BY <2>1, <2>2
<1>9. ASSUME NEW j \in Calls PROVE LoadedInv(j)'
  <2>1. CASE j = k
    BY <2>1 DEF LoadedInv, Loaded
  <2>2. CASE j # k
    <3>1. call'[j] = call[j] /\ LoadedInv(j) /\ call[j] \in Locals /\ Key(call[j]) \in Sessions
      BY <1>1, <1>2, <2>2 DEF Inv, CallInv, TypeOK, Key, Sessions, Locals
    <3>2. CASE Key(call[j]) # s
      BY <1>1, <1>3, <3>1, <3>2 DEF LoadedInv
    <3>3. CASE Key(call[j]) = s
      <4>1. call[j].bot = c.bot
        BY <3>3 DEF Key
      <4>2. ~Loaded(call[j])
        BY <1>2, <2>2, <4>1, OneLoaded
      <4>3. QED BY <1>1, <3>1, <3>3, <4>2 DEF LoadedInv
    <3>4. QED BY <3>2, <3>3
  <2>3. QED BY <2>1, <2>2
<1>10. QED BY <1>1, <1>4, <1>5, <1>6, <1>7, <1>8, <1>9 DEF Inv, CallInv, QueueMove

-----------------------------------------------------------------------------
(* The actions. *)

(* Where a call is at its agent or sending, all its locks are its own. *)
LEMMA GrantedAt ==
    ASSUME Inv, NEW k \in Calls, call[k].pc \in {"agent", "sending", "new", "over"}
    PROVE  AllGranted(k)
  BY MayMoveGranted DEF Inv, CallInv, MayMove

(* Which of its locks are an agent call's. *)
LEMMA CallLocksOf ==
    ASSUME ConversationAssumption, Inv, NEW k \in Calls, NEW l \in CallLocks
    PROVE  /\ l \in QueuedFor(call[k]) => call[k].pc = "bot" \/ AtAgent(call[k])
           /\ call[k].pc = "bot" =>
                 (l \in QueuedFor(call[k]) <=> l = BotLock(Worker(call[k], call[k].task)))
  BY LocksDiffer, WhoAndWhere DEF QueuedFor, AtAgent, Inv, TypeOK

(* A call goes on after its memory flush: it leaves, or asks for a verdict. *)
LEMMA GoOnMoves ==
    ASSUME ConversationAssumption, Inv, NEW k \in Calls, NEW r \in Locals, GoOn(k, r),
           AllGranted(k), call[k].task \notin {"turn", "conclude"}
    PROVE  /\ Move(k)
           /\ ~AtAgent(call'[k]) /\ ~Unanswered(call'[k]) /\ call'[k].sid = {}
<1> DEFINE f == [r EXCEPT !.sid = {}]
           n == [f EXCEPT !.pc = "bot", !.task = "verdict"]
<1>1. f \in Locals /\ f.sid = {} /\ n.pc = "bot" /\ n.task = "verdict" /\ n.sid = {}
  BY DEF Locals
<1>2. CASE Leave(k)
  <2>1. Move(k) /\ call'[k] = Over
    BY <1>2, LeaveMoves
  <2>2. QED BY <2>1, FreshTyped DEF Over, Fresh, AtAgent, Unanswered
<1>3. CASE ToBot(k, f, "verdict", CallLocks)
  <2>1. call'[k] = n
    BY <1>3 DEF ToBot, Becomes, Inv, TypeOK
  <2> HIDE DEF f
  <2>2. Move(k)
    BY <1>1, <1>3, ToBotMoves DEF BotTasks
  <2>3. QED BY <1>1, <2>1, <2>2 DEF AtAgent, Unanswered
<1>4. QED BY <1>2, <1>3 DEF GoOn

(* A flush begins, for k that is new or done sending, or is skipped. *)
LEMMA ToFlushMoves ==
    ASSUME ConversationAssumption, Inv, NEW k \in Calls, NEW r \in Locals,
           NEW t \in {"flush", "checkpoint"}, NEW d \in Dirs, ToFlush(k, r, t, d), Speaks,
           call[k].pc \in {"new", "sending"}, call[k].task \notin {"turn", "conclude"}
    PROVE  Move(k)
<1>1. AllGranted(k) /\ TypeOK
  BY GrantedAt DEF Inv
<1>2. CASE GoOn(k, r)
  BY <1>1, <1>2, GoOnMoves
<1>3. CASE ~GoOn(k, r)
  <2> DEFINE said == Transcript(lines', d)
             f == [r EXCEPT !.about = d, !.draft = said \cup notes[d]]
  <2>1. ToDir(k, f, t, {})
    BY <1>3 DEF ToFlush
  <2>2. said \subseteq Nat /\ notes[d] \subseteq Nat
    BY <1>1 DEF TypeOK, Transcript
  <2>3. f \in Locals /\ f.about = d /\ f.draft = Transcript(lines', f.about) \cup notes[f.about]
    BY <2>2 DEF Locals
  <2> HIDE DEF f
  <2>4. \A l \in CallLocks : l \notin QueuedFor(call[k])
    BY CallLocksOf DEF AtAgent
  <2>5. QED BY <1>1, <2>1, <2>3, <2>4, ToDirMoves DEF BotTasks
<1>4. QED BY <1>2, <1>3

(* Whatever a message starts, it is logged. *)
LEMMA SayingSpeaks == ASSUME Inv, Say(channelCwd) PROVE Speaks
  BY DEF Inv, TypeOK, Say, Speaks

(* A message leaves the bound on messages. *)
LEMMA CommandBound ==
    ASSUME ConversationAssumption, Inv, Command
    PROVE  commands' \in 0..MaxMessages
<1> DEFINE S == {k \in Calls : call[k].pc # "new"}
<1>1. IsFiniteSet(Calls)
  BY FS_Interval DEF Calls, ConversationAssumption
<1>2. IsFiniteSet(S)
  BY <1>1, FS_Subset
<1>3. Cardinality(S) \in Nat
  BY <1>2, FS_CardinalityType
<1>4. Messages = Cardinality(S) + commands
  BY DEF Messages
<1>5. commands \in 0..MaxMessages /\ MaxMessages \in Nat
  BY DEF Inv, TypeOK, ConversationAssumption
<1> HIDE DEF S
<1>6. QED BY <1>3, <1>4, <1>5 DEF Command

(* A call that starts: it holds nothing, wants nothing and has loaded nothing. *)
LEMMA StartsNew ==
    ASSUME ConversationAssumption, Inv, NEW k \in Calls, Starts(k)
    PROVE  /\ call[k].pc = "new" /\ call[k].task = "none" /\ call[k].sid = {}
           /\ PhaseInv(call[k]) /\ AllGranted(k) /\ TypeOK /\ QueueInv
<1>1. k >= k
  BY DEF Calls, ConversationAssumption
<1>2. (call[k].pc = "new") = (k >= k)
  BY Zenon DEF Starts
<1>3. call[k].pc = "new"
  BY <1>1, <1>2
<1>4. QED BY <1>3, GrantedAt DEF Inv, CallInv, PhaseInv

LEMMA AskKeeps == ASSUME ConversationAssumption, Inv, NEW k \in Calls, Ask(k) PROVE Inv'
<1>1. call[k].pc = "new" /\ PhaseInv(call[k]) /\ AllGranted(k) /\ TypeOK
  BY StartsNew DEF Ask
<1>2. Move(k)
  <2>1. PICK b \in Bots : ToBot(k, [Fresh EXCEPT !.bot = b, !.dir = channelCwd], "reply", {})
    BY DEF Ask
  <2> DEFINE r == [Fresh EXCEPT !.bot = b, !.dir = channelCwd]
  <2>2. r \in Locals /\ r.sid = {}
    BY <1>1, FreshTyped DEF TypeOK, Locals, Fresh
  <2>3. \A l \in CallLocks : l \notin QueuedFor(call[k])
    BY <1>1, CallLocksOf DEF AtAgent
  <2>4. Unanswered(call[k]) /\ call[k].task = "none"
    BY <1>1 DEF Unanswered, PhaseInv
  <2> HIDE DEF r
  <2>5. ToBot(k, r, "reply", {})
    BY <2>1 DEF r
  <2>6. QED BY <1>1, <2>2, <2>3, <2>4, <2>5, ToBotMoves DEF BotTasks
<1>3. UNCHANGED memory /\ OutsideMemory
  BY <1>1, SayingSpeaks DEF Ask, OutsideMemory, TypeOK, written
<1>4. QED BY <1>2, <1>3, MoveKeepsInv

LEMMA StartJobKeeps == ASSUME ConversationAssumption, Inv, NEW k \in Calls, StartJob(k) PROVE Inv'
<1>1. call[k].pc = "new" /\ PhaseInv(call[k]) /\ AllGranted(k) /\ TypeOK
  BY StartsNew DEF StartJob
<1>2. PICK b \in Bots : LET r == [Fresh EXCEPT !.bot = b, !.dir = channelCwd, !.job = TRUE] IN
          /\ ToDir(k, r, "job", {})
          /\ jobbed' = jobbed \cup (IF WithSession(r, "job") THEN {Key(r)} ELSE {})
  BY DEF StartJob
<1> DEFINE r == [Fresh EXCEPT !.bot = b, !.dir = channelCwd, !.job = TRUE]
<1>3. r \in Locals /\ r.job /\ Key(r) \in Sessions
  BY <1>1, FreshTyped DEF TypeOK, Locals, Fresh, Key, Sessions
<1> HIDE DEF r
<1>4. /\ ToDir(k, r, "job", {})
      /\ jobbed' = jobbed \cup (IF WithSession(r, "job") THEN {Key(r)} ELSE {})
  BY <1>2 DEF r
<1>5. Move(k)
  <2>1. \A l \in CallLocks : l \notin QueuedFor(call[k])
    BY <1>1, CallLocksOf DEF AtAgent
  <2>2. Unanswered(call[k]) /\ call[k].task = "none"
    BY <1>1 DEF Unanswered, PhaseInv
  <2>3. r.dir \notin GitDirs => Key(r) \in jobbed'
    BY <1>4 DEF WithSession
  <2>4. QED BY <1>1, <1>3, <1>4, <2>1, <2>2, <2>3, ToDirMoves DEF BotTasks
<1>6. UNCHANGED memory /\ OutsideMemory
  BY <1>1, <1>3, <1>4, SayingSpeaks DEF StartJob, OutsideMemory, TypeOK, written
<1>7. QED BY <1>5, <1>6, MoveKeepsInv

LEMMA FlushKeeps == ASSUME ConversationAssumption, Inv, NEW k \in Calls, Flush(k) PROVE Inv'
<1> DEFINE c == call[k]
           n == [Fresh EXCEPT !.pc = "sending", !.task = "flush"]
<1>1. c.pc = "new" /\ PhaseInv(c) /\ TypeOK /\ QueueInv
  BY StartsNew DEF Flush
<1>2. n \in Locals /\ n.pc = "sending" /\ n.task = "flush" /\ n.sid = {}
  BY FreshTyped DEF Fresh, Locals, PcLabels, Tasks
<1>3. call' = [call EXCEPT ![k] = n] /\ queue' = queue /\ call \in [Calls -> Locals]
  BY <1>1 DEF Flush, Becomes, TypeOK
<1>4. call'[k] = n
  BY <1>3
<1> HIDE DEF n
<1>5. \A l \in Locks : l \notin QueuedFor(n) /\ l \notin Held(n) /\ l \notin QueuedFor(c)
  BY <1>1, <1>2 DEF QueuedFor, Held, AtAgent, PhaseInv
<1>6. QueueMove(k)
  <2>1. Requeue(k, {}, {})
    BY <1>1, <1>3 DEF Requeue, Rest, TypeOK
  <2>2. Goes(k, n, {}, {})
    BY <1>2, <1>3, <1>5, <2>1 DEF Goes, Held
  <2>3. /\ queue' \in [Locks -> Seq(Calls)] /\ QueueInv'
        /\ \A l \in Locks : \A i, j \in Calls :
              Ahead(i, j, l)' => Ahead(i, j, l) \/ (j = k /\ i # k /\ l \in {})
    BY <1>1, <2>2, MoveKeepsQueues
  <2>4. DirLock(Root) \in Locks
    BY LocksDiffer DEF ConversationAssumption
  <2>5. QED BY <2>3, <2>4 DEF QueueMove
<1>7. RecordMove(k)
  BY <1>2, <1>3, <1>4 DEF RecordMove, PhaseInv, Unanswered, Loaded, Flushing, AtAgent
<1>8. UNCHANGED memory /\ OutsideMemory
  BY <1>1, SayingSpeaks DEF Flush, OutsideMemory, TypeOK, written
<1>9. QED BY <1>6, <1>7, <1>8, MoveKeepsInv DEF Move

LEMMA DiscussKeeps == ASSUME ConversationAssumption, Inv, NEW k \in Calls, Discuss(k) PROVE Inv'
<1> DEFINE c == call[k]
           n == [Fresh EXCEPT !.pc = "discuss", !.task = "turn"]
<1>1. c.pc = "new" /\ PhaseInv(c) /\ TypeOK /\ QueueInv /\ AllGranted(k)
  BY StartsNew DEF Discuss
<1>2. n \in Locals /\ n.pc = "discuss" /\ n.task = "turn" /\ n.sid = {} /\ n.round = 0
  BY FreshTyped DEF Fresh, Locals, PcLabels, Tasks
<1>3. call' = [call EXCEPT ![k] = n] /\ Requeue(k, {}, {Debate}) /\ call \in [Calls -> Locals]
  BY <1>1 DEF Discuss, Becomes, TypeOK
<1>4. call'[k] = n
  BY <1>3
<1> HIDE DEF n
<1>5. /\ \A l \in Locks : l \in QueuedFor(n) <=> l = Debate
      /\ \A l \in Held(n) : FALSE
      /\ \A l \in Locks : l \notin QueuedFor(c)
  BY <1>1, <1>2 DEF QueuedFor, Held, AtAgent, PhaseInv
<1>6. QueueMove(k)
  <2>1. Goes(k, n, {}, {Debate})
    BY <1>2, <1>3, <1>5, LocksDiffer DEF Goes
  <2>2. /\ queue' \in [Locks -> Seq(Calls)] /\ QueueInv'
        /\ \A l \in Locks : \A i, j \in Calls :
              Ahead(i, j, l)' => Ahead(i, j, l) \/ (j = k /\ i # k /\ l \in {Debate})
    BY <1>1, <2>1, MoveKeepsQueues
  <2>3. DirLock(Root) \in Locks /\ DirLock(Root) # Debate
    BY LocksDiffer DEF ConversationAssumption
  <2>4. QED BY <2>2, <2>3 DEF QueueMove
<1>7. RecordMove(k)
  BY <1>2, <1>3, <1>4 DEF RecordMove, PhaseInv, Unanswered, Loaded, Flushing, AtAgent
<1>8. UNCHANGED memory /\ OutsideMemory
  BY <1>1, SayingSpeaks DEF Discuss, OutsideMemory, TypeOK, written
<1>9. QED BY <1>6, <1>7, <1>8, MoveKeepsInv DEF Move

(* The variables that no step of a call but Flushed and the talkative ones changes. *)
LEMMA RestUnchanged ==
    ASSUME Inv, UNCHANGED <<channelCwd, lines, written, commands, undone, jobbed>>
    PROVE  OutsideMemory
  BY DEF Inv, TypeOK, OutsideMemory, Speaks, written

(* A message that starts nothing. *)
LEMMA CommandKeeps ==
    ASSUME ConversationAssumption, Inv, Command, channelCwd' \in Dirs,
           UNCHANGED <<call, queue, memory, written, undone, jobbed>>
    PROVE  Inv'
<1>1. commands' \in 0..MaxMessages /\ Speaks
  BY CommandBound, SayingSpeaks DEF Command
<1>2. /\ lines' \in Seq(Dirs)
      /\ QueueInv' /\ DraftOrder' /\ NotesInv' /\ \A j \in Calls : DraftInv(j)'
  BY <1>1, SpeakingKeeps DEF written
<1>3. TypeOK'
  BY <1>1, <1>2 DEF Inv, TypeOK, memory, written
<1>4. DroppedStaysDropped'
  BY DEF Inv, DroppedStaysDropped, memory
<1>5. \A j \in Calls : CallInv(j)'
  BY <1>2 DEF Inv, CallInv, LoadedInv, UnansweredInv, memory
<1>6. QED BY <1>2, <1>3, <1>4, <1>5 DEF Inv

LEMMA ChatKeeps == ASSUME ConversationAssumption, Inv, Chat PROVE Inv'
  BY CommandKeeps DEF Chat, Inv, TypeOK

LEMMA CdKeeps == ASSUME ConversationAssumption, Inv, NEW k \in Calls, Cd(k) PROVE Inv'
<1>1. /\ call[k].pc = "new" /\ call[k].task = "none" /\ TypeOK
      /\ channelCwd' \in Dirs /\ UNCHANGED <<memory, written, undone, jobbed>>
  BY StartsNew DEF Cd
<1>2. CASE Say(channelCwd) /\ ToFlush(k, Fresh, "flush", channelCwd) /\ UNCHANGED commands
  <2>1. Move(k)
    BY <1>1, <1>2, FreshTyped, SayingSpeaks, ToFlushMoves DEF TypeOK
  <2>2. OutsideMemory
    BY <1>1, <1>2, SayingSpeaks DEF OutsideMemory, TypeOK, written
  <2>3. QED BY <1>1, <2>1, <2>2, MoveKeepsInv
<1>3. CASE Command /\ UNCHANGED <<call, queue>>
  BY <1>1, <1>3, CommandKeeps
<1>4. QED BY <1>2, <1>3 DEF Cd

LEMMA ResetKeeps == ASSUME ConversationAssumption, Inv, Reset PROVE Inv'
<1>1. PICK b \in Bots : LET s == <<b, channelCwd>> IN
          /\ session' = [session EXCEPT ![s] = {}]
          /\ dropped' = [dropped EXCEPT ![s] = @ \cup session[s]]
          /\ undone' = undone \cup (IF UnderWay(s) THEN {s} ELSE {})
  BY DEF Reset
<1> DEFINE s == <<b, channelCwd>>
<1>2. /\ UNCHANGED <<call, queue, ctx, checkpointed, channelCwd, notes, overtaken, jobbed>>
      /\ TypeOK /\ s \in Sessions /\ Speaks
  BY SayingSpeaks DEF Reset, Command, Inv, TypeOK, Sessions, written
<1>3. /\ session' \in [Sessions -> SUBSET Calls] /\ session'[s] = {}
      /\ dropped' \in [Sessions -> SUBSET Calls] /\ dropped'[s] = dropped[s] \cup session[s]
      /\ \A t \in Sessions : t # s => session'[t] = session[t] /\ dropped'[t] = dropped[t]
      /\ undone' \subseteq Sessions /\ undone \subseteq undone' /\ (UnderWay(s) => s \in undone')
  BY <1>1, <1>2 DEF TypeOK
<1> HIDE DEF s
<1>4. /\ lines' \in Seq(Dirs)
      /\ QueueInv' /\ DraftOrder' /\ NotesInv' /\ \A j \in Calls : DraftInv(j)'
  BY <1>2, SpeakingKeeps
<1>5. TypeOK'
  BY <1>2, <1>3, <1>4, CommandBound DEF TypeOK, Reset
<1>6. DroppedStaysDropped'
  BY <1>2, <1>3 DEF Inv, DroppedStaysDropped
<1>7. ASSUME NEW j \in Calls PROVE CallInv(j)'
  <2>1. CallInv(j) /\ call'[j] = call[j] /\ call[j] \in Locals
    BY <1>2 DEF Inv, TypeOK
  <2>2. PhaseInv(call'[j]) /\ DraftInv(j)'
    BY <1>4, <2>1 DEF CallInv
  <2>3. UnansweredInv(j)'
    <3>1. Unanswered(call[j]) => \A t \in Sessions : j \notin session'[t] /\ j \notin dropped'[t]
      BY <1>2, <1>3, <2>1 DEF CallInv, UnansweredInv
    <3>2. QED BY <1>2, <2>1, <3>1 DEF CallInv, UnansweredInv
  <2>4. LoadedInv(j)'
    <3>1. LoadedInv(j) /\ Key(call[j]) \in Sessions
      BY <2>1 DEF CallInv, Locals, Key, Sessions
    <3>2. CASE Key(call[j]) # s
      BY <1>2, <1>3, <3>1, <3>2 DEF LoadedInv
    <3>3. CASE Key(call[j]) = s
      <4>1. call[j].sid = {} \/ s \in undone'
        BY <1>3, <3>3 DEF UnderWay
      <4>2. QED BY <1>2, <1>3, <3>1, <3>3, <4>1 DEF LoadedInv
    <3>4. QED BY <3>2, <3>3
  <2>5. QED BY <2>2, <2>3, <2>4 DEF CallInv
<1>8. QED BY <1>4, <1>5, <1>6, <1>7 DEF Inv

LEMMA EnterDiscussKeeps ==
    ASSUME ConversationAssumption, Inv, NEW k \in Calls, EnterDiscuss(k) PROVE Inv'
<1> DEFINE c == call[k]
           r == [c EXCEPT !.dir = channelCwd]
<1>1. c.pc = "discuss" /\ PhaseInv(c) /\ TypeOK /\ QueueInv /\ MayMove(k)
  BY DEF EnterDiscuss, Inv, CallInv, MayMove
<1>2. AllGranted(k) /\ c.task = "turn" /\ c.sid = {} /\ \A l \in CallLocks : l \notin QueuedFor(c)
  BY <1>1, MayMoveGranted, CallLocksOf DEF PhaseInv, AtAgent
<1>3. r \in Locals /\ r.sid = c.sid /\ r.round = c.round
  <2>1. c \in Locals /\ channelCwd \in Dirs
    BY <1>1 DEF TypeOK
  <2>2. QED BY <2>1 DEF Locals
<1>4. \/ MoreTurns(r) /\ ToBot(k, r, "turn", {})
      \/ ToDir(k, r, "conclude", {})
      \/ Leave(k)
  BY DEF EnterDiscuss
<1> HIDE DEF r
<1>5. Move(k)
  <2>1. CASE MoreTurns(r) /\ ToBot(k, r, "turn", {})
    BY <1>2, <1>3, <2>1, ToBotMoves DEF BotTasks, MoreTurns
  <2>2. CASE ToDir(k, r, "conclude", {})
    BY <1>2, <1>3, <2>2, ToDirMoves DEF BotTasks
  <2>3. CASE Leave(k)
    BY <1>2, <2>3, LeaveMoves
  <2>4. QED BY <1>4, <2>1, <2>2, <2>3
<1>6. QED BY <1>5, RestUnchanged, MoveKeepsInv DEF EnterDiscuss

(* A handover that failed goes on or ends. *)
LEMMA GiveUpMoves ==
    ASSUME ConversationAssumption, Inv, NEW k \in Calls, GiveUp(k), AllGranted(k),
           call[k].task = "handover"
    PROVE  Move(k)
<1> DEFINE r == [call[k] EXCEPT !.sid = {}]
<1>1. call[k] \in Locals /\ r \in Locals /\ r.sid = {}
  <2>1. call[k] \in Locals
    BY DEF Inv, TypeOK
  <2>2. QED BY <2>1 DEF Locals
<1>2. ToBot(k, r, "hard", CallLocks) \/ GoOn(k, call[k])
  BY DEF GiveUp
<1> HIDE DEF r
<1>3. CASE ToBot(k, r, "hard", CallLocks)
  BY <1>1, <1>3, ToBotMoves DEF BotTasks
<1>4. QED BY <1>1, <1>2, <1>3, GoOnMoves

LEMMA EnterBotKeeps ==
    ASSUME ConversationAssumption, Inv, NEW k \in Calls, EnterBot(k) PROVE Inv'
<1> DEFINE c == call[k]
<1>1. c.pc = "bot" /\ PhaseInv(c) /\ TypeOK /\ QueueInv /\ MayMove(k)
  BY DEF EnterBot, Inv, CallInv, MayMove
<1>2. c \in Locals /\ AllGranted(k) /\ OutsideMemory
  BY <1>1, MayMoveGranted, RestUnchanged DEF EnterBot, TypeOK
<1>3. \A l \in CallLocks : l \in QueuedFor(c) <=> l = BotLock(Worker(c, c.task))
  BY <1>1, CallLocksOf
<1>4. CASE ToDir(k, c, c.task, {}) /\ c.task \in BotTasks /\ UNCHANGED memory
  <2>1. Move(k)
    BY <1>1, <1>2, <1>3, <1>4, ToDirMoves DEF BotTasks, PhaseInv, Unanswered
  <2>2. QED BY <1>2, <1>4, <2>1, MoveKeepsInv
<1>5. CASE Leave(k) /\ UNCHANGED memory
  BY <1>2, <1>5, LeaveMoves, MoveKeepsInv
<1>6. CASE c.task = "handover" /\ GiveUp(k) /\ UNCHANGED memory
  BY <1>2, <1>6, GiveUpMoves, MoveKeepsInv
<1>7. CASE c.task = "hard" /\ Drop(Key(c), session[Key(c)]) /\ GoOn(k, c)
  <2>1. Move(k) /\ ~AtAgent(call'[k]) /\ ~Unanswered(call'[k]) /\ call'[k].sid = {}
    BY <1>2, <1>7, GoOnMoves
  <2>2. Key(c) \in Sessions /\ session[Key(c)] \in SUBSET Calls
    BY <1>1, <1>2 DEF TypeOK, Key, Sessions, Locals
  <2>3. Granted(k, BotLock(c.bot))
    BY <1>2, <1>7, WhoAndWhere DEF EnterBot
  <2>4. ~Unanswered(c)
    BY <1>7 DEF Unanswered
  <2>5. \A j \in session[Key(c)] : ~Unanswered(call[j])
    BY <2>2 DEF Inv, CallInv, UnansweredInv
  <2>6. QED BY <1>2, <1>7, <2>1, <2>2, <2>3, <2>4, <2>5, DropKeepsInv
<1>8. QED BY <1>4, <1>5, <1>6, <1>7 DEF EnterBot, BotTasks

LEMMA RepliedKeeps ==
    ASSUME ConversationAssumption, Inv, NEW k \in Calls, Replied(k)
    PROVE  Inv' /\ \A s \in Sessions : session[s] \subseteq session'[s] \/ s \in jobbed
<1> DEFINE c == call[k]
<1>1. /\ c.pc = "agent" /\ c.task \in {"reply", "job"} /\ AtAgent(c)
      /\ c \in Locals /\ AllGranted(k) /\ TypeOK
      /\ UNCHANGED <<channelCwd, written, commands, undone, jobbed>>
  BY GrantedAt DEF Replied, Answered, AtAgent, Inv, TypeOK
<1>2. Send(k, c) => Move(k) /\ call'[k].pc = "sending"
  <2>1. Send(k, c) => Move(k)
    BY <1>1, SendMoves
  <2>2. Send(k, c) => call'[k].pc = "sending"
    BY <1>1 DEF Send, Becomes, Inv, TypeOK, Locals
  <2>3. QED BY <2>1, <2>2
<1>3. OutsideMemory
  <2>1. Say(c.dir) \/ lines' = lines
    BY DEF Replied
  <2>2. Speaks
    BY <1>1, <2>1 DEF Say, Speaks, Locals
  <2>3. QED BY <1>1, <2>2 DEF OutsideMemory, TypeOK, written
<1>4. CASE Send(k, c) /\ WithSession(c, c.task) /\ Save(k)
  BY <1>1, <1>2, <1>3, <1>4, SaveKeepsInv
<1>5. CASE (Send(k, c) \/ Leave(k)) /\ UNCHANGED memory
  <2>1. Move(k)
    BY <1>1, <1>2, <1>5, LeaveMoves
  <2>2. Inv'
    BY <1>3, <1>5, <2>1, MoveKeepsInv
  <2>3. QED BY <1>5, <2>2 DEF memory
<1>6. QED BY <1>4, <1>5 DEF Replied

LEMMA ReplySentKeeps ==
    ASSUME ConversationAssumption, Inv, NEW k \in Calls, ReplySent(k) PROVE Inv'
<1> DEFINE c == call[k]
           size == ctx[Key(c)]
           r == [c EXCEPT !.seen = size]
<1>1. /\ c.pc = "sending" /\ c.task \in {"reply", "job"} /\ PhaseInv(c)
      /\ c \in Locals /\ AllGranted(k) /\ OutsideMemory /\ UNCHANGED memory /\ TypeOK
  BY GrantedAt, RestUnchanged DEF ReplySent, Inv, TypeOK, CallInv
<1>2. c.sid = {} /\ \A l \in CallLocks : l \notin QueuedFor(c)
  BY <1>1, CallLocksOf DEF PhaseInv, AtAgent
<1>3. r \in Locals /\ r.sid = c.sid
  <2>1. size \in Sizes
    BY <1>1 DEF TypeOK, Key, Sessions, Locals
  <2>2. QED BY <1>1, <2>1 DEF Locals
<1>4. \/ ToBot(k, r, "handover", {})
      \/ ToFlush(k, c, "checkpoint", channelCwd)
      \/ GoOn(k, c)
      \/ Leave(k)
  BY DEF ReplySent, TokenFlush, ToHandover
<1> HIDE DEF r
<1>5. Move(k)
  <2>1. CASE ToBot(k, r, "handover", {})
    BY <1>1, <1>2, <1>3, <2>1, ToBotMoves DEF BotTasks
  <2>2. CASE ToFlush(k, c, "checkpoint", channelCwd)
    BY <1>1, <2>2, ToFlushMoves DEF TypeOK, OutsideMemory
  <2>3. CASE GoOn(k, c)
    BY <1>1, <2>3, GoOnMoves
  <2>4. CASE Leave(k)
    BY <1>1, <2>4, LeaveMoves
  <2>5. QED BY <1>4, <2>1, <2>2, <2>3, <2>4
<1>6. QED BY <1>1, <1>5, MoveKeepsInv

LEMMA FlushSentKeeps ==
    ASSUME ConversationAssumption, Inv, NEW k \in Calls, FlushSent(k) PROVE Inv'
<1>1. OutsideMemory /\ UNCHANGED memory /\ call[k] \in Locals /\ channelCwd \in Dirs
  BY RestUnchanged DEF FlushSent, Inv, TypeOK
<1>2. Move(k)
  BY <1>1, ToFlushMoves DEF FlushSent, OutsideMemory
<1>3. QED BY <1>1, <1>2, MoveKeepsInv

LEMMA HandedOverKeeps ==
    ASSUME ConversationAssumption, Inv, NEW k \in Calls, HandedOver(k) PROVE Inv'
<1> DEFINE c == call[k]
<1>1. /\ c.pc = "agent" /\ c.task = "handover" /\ AtAgent(c)
      /\ c \in Locals /\ AllGranted(k) /\ OutsideMemory
  BY GrantedAt, RestUnchanged DEF HandedOver, Answered, AtAgent, Inv, TypeOK
<1>2. CASE Drop(Key(c), c.sid \cup {k}) /\ GoOn(k, c)
  <2>1. Move(k) /\ ~AtAgent(call'[k]) /\ ~Unanswered(call'[k]) /\ call'[k].sid = {}
    BY <1>1, <1>2, GoOnMoves
  <2>2. c.sid \cup {k} \in SUBSET Calls
    BY <1>1 DEF Locals
  <2>3. ~Unanswered(c)
    BY <1>1 DEF Unanswered
  <2>4. \A j \in c.sid \cup {k} : ~Unanswered(call[j])
    BY <2>2, <2>3 DEF Inv, CallInv, UnansweredInv
  <2>5. Granted(k, BotLock(c.bot))
    <3>1. Worker(c, c.task) = c.bot /\ c.bot \in Bots
      BY <1>1, WhoAndWhere DEF Locals
    <3>2. BotLock(c.bot) \in QueuedFor(c)
      BY <1>1, <3>1, LocksDiffer DEF QueuedFor, BotTasks
    <3>3. QED BY <1>1, <3>1, <3>2, LocksDiffer DEF AllGranted
  <2>6. QED BY <1>1, <1>2, <2>1, <2>2, <2>3, <2>4, <2>5, DropKeepsInv
<1>3. CASE GiveUp(k) /\ UNCHANGED memory
  BY <1>1, <1>3, GiveUpMoves, MoveKeepsInv
<1>4. QED BY <1>2, <1>3 DEF HandedOver

LEMMA FlushedKeeps ==
    ASSUME ConversationAssumption, Inv, NEW k \in Calls, Flushed(k)
    PROVE  /\ Inv'
           /\ \A d \in Dirs : LET lost == notes[d] \ notes'[d] IN
                 lost # {} => /\ lost \cap Transcript(lines, d) = {}
                              /\ k \in overtaken \ overtaken' /\ call[k].about = d
<1> DEFINE c == call[k]
           D == DirLock(Root)
<1>1. /\ c.pc = "agent" /\ c.task \in {"flush", "checkpoint"} /\ Flushing(c) /\ GoOn(k, c)
      /\ c \in Locals /\ AllGranted(k) /\ TypeOK /\ QueueInv /\ DraftInv(k)
      /\ UNCHANGED <<session, ctx, dropped, channelCwd, lines, commands, undone, jobbed>>
  BY GrantedAt DEF Flushed, Answered, Flushing, AtAgent, Inv, CallInv, TypeOK
<1>2. Move(k) /\ ~AtAgent(call'[k]) /\ \A j \in Calls : j # k => call'[j] = call[j]
  <2>1. Move(k) /\ ~AtAgent(call'[k])
    BY <1>1, GoOnMoves
  <2>2. QED BY <2>1 DEF Move, RecordMove
<1>3. c.about \in Dirs /\ c.draft \in SUBSET Nat /\ Key(c) \in Sessions
  BY <1>1 DEF Locals, Key, Sessions
<1>4. \/ notes' = notes /\ overtaken' = overtaken \ {k}
      \/ WriteNotes(k, c.about, c.draft)
  BY DEF Flushed
<1>5. /\ notes' \in [Dirs -> SUBSET Nat]
      /\ \A d \in Dirs : d # c.about => notes'[d] = notes[d]
      /\ overtaken \ {k} \subseteq overtaken' /\ k \notin overtaken' /\ overtaken' \subseteq Calls
      /\ \/ notes'[c.about] = notes[c.about]
         \/ notes'[c.about] = c.draft /\ Reading(c.about) \ {k} \subseteq overtaken'
  <2>1. Reading(c.about) \subseteq Calls
    BY DEF Reading
  <2>2. QED BY <1>1, <1>3, <1>4, <2>1 DEF TypeOK, WriteNotes
<1>6. /\ c.draft \subseteq 1..Len(lines)
      /\ notes[c.about] \subseteq c.draft \/ k \in overtaken
      /\ (notes[c.about] \ c.draft) \cap Transcript(lines, c.about) = {}
  BY <1>1 DEF DraftInv
<1>7. ASSUME NEW d \in Dirs, notes[d] \ notes'[d] # {}
      PROVE  /\ (notes[d] \ notes'[d]) \cap Transcript(lines, d) = {}
             /\ k \in overtaken \ overtaken' /\ c.about = d
  BY <1>5, <1>6, <1>7
<1>8. NotesInv'
  BY <1>1, <1>5, <1>6 DEF Inv, NotesInv
<1>9. ASSUME NEW j \in Calls PROVE DraftInv(j)'
  <2>1. CASE j = k
    BY <1>2, <2>1 DEF DraftInv, Flushing
  <2>2. CASE j # k /\ Flushing(call[j]) /\ call[j].about = c.about
    <3>1. D \in Locks /\ call[j] \in Locals
      BY <1>1, LocksDiffer DEF ConversationAssumption, TypeOK
    <3>2. D \in QueuedFor(c) /\ D \in QueuedFor(call[j])
      BY <1>1, <2>2, <3>1, WhoAndWhere DEF QueuedFor, Flushing
    <3>3. Granted(k, D) /\ Queues(j, D)
      BY <1>1, <3>1, <3>2 DEF AllGranted, QueueInv
    <3>4. Ahead(k, j, D)
      <4>1. queue[D] \in Seq(Calls) /\ queue[D] # <<>> /\ Head(queue[D]) = k
        BY <1>1, <3>1, <3>3 DEF TypeOK, Granted
      <4>2. PICK n \in 1..Len(queue[D]) : queue[D][n] = j
        BY <3>3 DEF Queues
      <4>3. Len(queue[D]) \in Nat /\ 1 \in 1..Len(queue[D]) /\ queue[D][1] = k
        BY <4>1
      <4>4. n # 1 /\ 1 < n
        BY <2>2, <4>2, <4>3
      <4>5. QED BY <4>2, <4>3, <4>4 DEF Ahead
    <3>5. (c.draft \ call[j].draft) \cap Transcript(lines, c.about) = {}
      BY <1>1, <2>2, <3>4 DEF Inv, DraftOrder
    <3>6. DraftInv(j) /\ j \in Reading(c.about)
      BY <2>2 DEF Inv, CallInv, Reading, Flushing, AtAgent
    <3>7. QED BY <1>1, <1>2, <1>5, <2>2, <3>5, <3>6 DEF DraftInv
  <2>3. CASE j # k /\ ~(Flushing(call[j]) /\ call[j].about = c.about)
    <3>1. DraftInv(j) /\ call'[j] = call[j] /\ call[j].about \in Dirs
      BY <1>1, <1>2, <2>3 DEF Inv, CallInv, TypeOK, Locals
    <3>2. QED BY <1>1, <1>5, <2>3, <3>1 DEF DraftInv
  <2>4. QED BY <2>1, <2>2, <2>3
<1>10. TypeOK'
  <2>1. checkpointed' \in [Sessions -> BOOLEAN]
    BY <1>1, <1>3 DEF Flushed, TypeOK
  <2>2. QED BY <1>1, <1>2, <1>5, <2>1 DEF TypeOK, Move, RecordMove, QueueMove
<1>11. Inv'
  BY <1>1, <1>2, <1>8, <1>9, <1>10, MoveKeepsSessions DEF Speaks
<1>12. QED BY <1>7, <1>11

LEMMA TurnTakenKeeps ==
    ASSUME ConversationAssumption, Inv, NEW k \in Calls, TurnTaken(k) PROVE Inv'
<1> DEFINE c == call[k]
           r == [c EXCEPT !.round = @ + 1]
<1>1. /\ c.pc = "agent" /\ c.task = "turn" /\ AtAgent(c) /\ PhaseInv(c)
      /\ c \in Locals /\ AllGranted(k) /\ TypeOK /\ UNCHANGED memory
      /\ UNCHANGED <<channelCwd, written, commands, undone, jobbed>>
  BY GrantedAt DEF TurnTaken, Answered, AtAgent, Inv, CallInv, TypeOK
<1>2. r \in Locals /\ r.task = c.task /\ r.job = c.job
  <2>1. c.round + 1 \in 0..MaxBotTurns
    BY <1>1 DEF PhaseInv, Locals, ConversationAssumption
  <2>2. QED BY <1>1, <2>1 DEF Locals
<1>3. (Send(k, r) /\ Say(c.dir)) \/ (Leave(k) /\ lines' = lines)
  BY DEF TurnTaken
<1> HIDE DEF r
<1>4. Move(k)
  <2>1. CASE Send(k, r)
    BY <1>1, <1>2, <2>1, SendMoves
  <2>2. CASE Leave(k)
    BY <1>1, <2>2, LeaveMoves
  <2>3. QED BY <1>3, <2>1, <2>2
<1>5. Speaks
  BY <1>1, <1>3 DEF Say, Speaks, Locals
<1>6. OutsideMemory
  BY <1>1, <1>5 DEF OutsideMemory, TypeOK, written
<1>7. QED BY <1>1, <1>4, <1>6, MoveKeepsInv

LEMMA TurnSentKeeps ==
    ASSUME ConversationAssumption, Inv, NEW k \in Calls, TurnSent(k) PROVE Inv'
<1> DEFINE c == call[k]
<1>1. /\ c.pc = "sending" /\ c.task = "turn" /\ PhaseInv(c)
      /\ c \in Locals /\ AllGranted(k) /\ OutsideMemory /\ UNCHANGED memory
  BY GrantedAt, RestUnchanged DEF TurnSent, Inv, TypeOK, CallInv
<1>2. c.sid = {} /\ \A l \in CallLocks : l \notin QueuedFor(c)
  BY <1>1, CallLocksOf DEF PhaseInv, AtAgent
<1>3. Move(k)
  <2>1. CASE MoreTurns(c) /\ ToBot(k, c, "turn", {})
    BY <1>1, <1>2, <2>1, ToBotMoves DEF BotTasks, MoreTurns
  <2>2. CASE ToDir(k, c, "conclude", {})
    BY <1>1, <1>2, <2>2, ToDirMoves DEF BotTasks
  <2>3. CASE Leave(k)
    BY <1>1, <2>3, LeaveMoves
  <2>4. QED BY <2>1, <2>2, <2>3 DEF TurnSent
<1>4. QED BY <1>1, <1>3, MoveKeepsInv

LEMMA EndedKeeps ==
    ASSUME ConversationAssumption, Inv, NEW k \in Calls, Ended(k) PROVE Inv'
<1>1. AllGranted(k) /\ OutsideMemory /\ UNCHANGED memory /\ Leave(k)
  BY GrantedAt, RestUnchanged DEF Ended, Answered
<1>2. QED BY <1>1, LeaveMoves, MoveKeepsInv

LEMMA EnterDirKeeps ==
    ASSUME ConversationAssumption, Inv, NEW k \in Calls, EnterDir(k) PROVE Inv'
<1>1. OutsideMemory /\ UNCHANGED memory
  BY RestUnchanged DEF EnterDir
<1>2. QED BY <1>1, EnterDirMoves, MoveKeepsInv

-----------------------------------------------------------------------------
(* The invariant holds. *)

(* At the start nobody queues and nothing is stored. *)
LEMMA InitInv == ASSUME ConversationAssumption, Init PROVE Inv
<1>1. /\ \A k \in Calls : call[k] = Fresh
      /\ \A l \in Locks : queue[l] = <<>>
      /\ \A s \in Sessions : session[s] = {} /\ dropped[s] = {}
      /\ \A d \in Dirs : notes[d] = {}
  BY DEF Init
<1>2. Fresh.pc = "new" /\ Fresh.task = "none" /\ Fresh.sid = {}
  BY DEF Fresh
<1>3. TypeOK
  <2>1. Fresh \in Locals /\ Low \in Sizes /\ 0 \in 0..MaxMessages
    BY FreshTyped DEF Sizes, Low, HardThreshold, ConversationAssumption
  <2>2. queue \in [Locks -> Seq(Calls)]
    BY DEF Init
  <2>3. QED BY <2>1, <2>2 DEF Init, TypeOK
<1>4. QueueInv
  BY <1>1, <1>2 DEF QueueInv, QueuedFor, Held, Queues, AtAgent
<1>5. \A k \in Calls : CallInv(k)
  BY <1>1, <1>2 DEF CallInv, PhaseInv, LoadedInv, UnansweredInv, DraftInv, Loaded, Flushing, AtAgent
<1>6. NotesInv /\ DraftOrder /\ DroppedStaysDropped
  BY <1>1, <1>2 DEF NotesInv, DraftOrder, DroppedStaysDropped, Flushing, AtAgent
<1>7. QED BY <1>3, <1>4, <1>5, <1>6 DEF Inv

LEMMA UnchangedKeeps == ASSUME Inv, UNCHANGED vars PROVE Inv'
<1>1. TypeOK' /\ QueueInv'
  BY DEF vars, Inv, TypeOK, QueueInv, Queues, Granted
<1>2. \A k \in Calls : CallInv(k)'
  BY DEF vars, Inv, CallInv, LoadedInv, UnansweredInv, DraftInv
<1>3. NotesInv' /\ DraftOrder' /\ DroppedStaysDropped'
  BY DEF vars, Inv, NotesInv, DraftOrder, Ahead, DroppedStaysDropped
<1>4. QED BY <1>1, <1>2, <1>3 DEF Inv

(* Every step of the system keeps the invariant. *)
LEMMA NextKeepsInv == ASSUME ConversationAssumption, Inv, [Next]_vars PROVE Inv'
<1>1. ASSUME NEW k \in Calls, CallStep(k) PROVE Inv'
  BY <1>1, EnterDiscussKeeps, EnterBotKeeps, EnterDirKeeps, RepliedKeeps, ReplySentKeeps,
     HandedOverKeeps, FlushSentKeeps, FlushedKeeps, TurnTakenKeeps, TurnSentKeeps, EndedKeeps
  DEF CallStep
<1>2. CASE Outside
  BY <1>2, AskKeeps, StartJobKeeps, FlushKeeps, DiscussKeeps, CdKeeps, ChatKeeps, ResetKeeps
  DEF Outside
<1>3. CASE UNCHANGED vars
  BY <1>3, UnchangedKeeps
<1>4. QED BY <1>1, <1>2, <1>3 DEF Next, Idle

-----------------------------------------------------------------------------
(* Nobody waits for ever. *)

(* Whoever waits for a lock waits behind its holder. *)
LEMMA HolderOf ==
    ASSUME TypeOK, QueueInv, NEW k \in Calls, NEW l \in Locks, l \in QueuedFor(call[k])
    PROVE  \E h \in Calls : Granted(h, l) /\ l \in QueuedFor(call[h])
<1>1. Queues(k, l) /\ queue[l] \in Seq(Calls)
  BY DEF QueueInv, TypeOK
<1>2. queue[l] # <<>>
  BY <1>1 DEF Queues
<1>3. Head(queue[l]) \in Calls /\ queue[l][1] = Head(queue[l]) /\ 1 \in 1..Len(queue[l])
  BY <1>1, <1>2
<1>4. Queues(Head(queue[l]), l)
  BY <1>3 DEF Queues
<1>5. QED BY <1>2, <1>3, <1>4 DEF QueueInv, Granted

(* Locks are taken in one order: the debate's, a bot's, a directory's. *)
LEMMA InvNoStandstill == ASSUME ConversationAssumption, Inv PROVE NoStandstill
<1>1. TypeOK /\ QueueInv /\ \A k \in Calls : call[k] \in Locals /\ PhaseInv(call[k])
  BY DEF Inv, TypeOK, CallInv
<1>2. ASSUME NEW l \in Locks, queue[l] # <<>> PROVE call[Head(queue[l])].pc # "over"
  <2>1. queue[l] \in Seq(Calls) /\ Head(queue[l]) \in Calls
    BY <1>1, <1>2 DEF TypeOK
  <2>2. Queues(Head(queue[l]), l)
    <3>1. 1 \in 1..Len(queue[l]) /\ queue[l][1] = Head(queue[l])
      BY <1>2, <2>1
    <3>2. QED BY <3>1 DEF Queues
  <2>3. l \in QueuedFor(call[Head(queue[l])])
    BY <1>1, <2>1, <2>2 DEF QueueInv
  <2>4. QED BY <1>1, <2>1, <2>3 DEF QueuedFor, PhaseInv, AtAgent
<1>3. ASSUME NEW k \in Calls, AtAgent(call[k]) PROVE \E h \in Calls : MayMove(h)
  <2>1. CASE call[k].pc = "agent"
    BY <2>1 DEF MayMove
  <2>2. CASE call[k].pc = "dir"
    <3> DEFINE l == DirLock(RunsIn(call[k], call[k].task))
    <3>1. l \in Locks /\ l \in DirLocks
      BY <1>1, WhoAndWhere, LocksDiffer
    <3>2. l \in QueuedFor(call[k])
      BY <1>3, <3>1 DEF QueuedFor
    <3> HIDE DEF l
    <3>3. PICK h \in Calls : Granted(h, l) /\ l \in QueuedFor(call[h])
      BY <1>1, <3>1, <3>2, HolderOf
    <3>4. AtAgent(call[h]) /\ l = DirLock(RunsIn(call[h], call[h].task))
      BY <1>1, <3>1, <3>3, WhoAndWhere, LocksDiffer DEF QueuedFor, l
    <3>5. QED BY <3>3, <3>4 DEF MayMove, AtAgent
  <2>3. QED BY <1>3, <2>1, <2>2 DEF AtAgent
<1>4. ASSUME NEW k \in Calls, call[k].pc = "bot" PROVE \E h \in Calls : MayMove(h)
  <2> DEFINE l == BotLock(Worker(call[k], call[k].task))
  <2>1. l \in Locks /\ l \in BotLocks
    BY <1>1, WhoAndWhere, LocksDiffer
  <2>2. l \in QueuedFor(call[k])
    BY <1>4, <2>1 DEF QueuedFor
  <2> HIDE DEF l
  <2>3. PICK h \in Calls : Granted(h, l) /\ l \in QueuedFor(call[h])
    BY <1>1, <2>1, <2>2, HolderOf
  <2>4. \/ AtAgent(call[h])
        \/ call[h].pc = "bot" /\ l = BotLock(Worker(call[h], call[h].task))
    BY <1>1, <2>1, <2>3, WhoAndWhere, LocksDiffer DEF QueuedFor, l
  <2>5. QED BY <1>3, <2>3, <2>4 DEF MayMove
<1>5. ASSUME NEW k \in Calls, call[k].pc = "discuss" PROVE \E h \in Calls : MayMove(h)
  <2>1. Debate \in QueuedFor(call[k])
    BY <1>1, <1>5, LocksDiffer DEF QueuedFor, PhaseInv
  <2>2. PICK h \in Calls : Granted(h, Debate) /\ Debate \in QueuedFor(call[h])
    BY <1>1, <2>1, LocksDiffer, HolderOf
  <2>3. call[h].task \in {"turn", "conclude"}
    BY <1>1, <2>2, WhoAndWhere, LocksDiffer DEF QueuedFor
  <2>4. call[h].pc \in PcLabels /\ call[h].pc \notin {"new", "over"}
    BY <1>1, <2>3 DEF PhaseInv, Locals
  <2>5. CASE call[h].pc \in {"discuss", "sending"}
    BY <2>2, <2>5 DEF MayMove
  <2>6. CASE call[h].pc \in {"bot", "dir", "agent"}
    BY <1>3, <1>4, <2>6 DEF AtAgent
  <2>7. QED BY <2>4, <2>5, <2>6 DEF PcLabels
<1>6. ASSUME NEW k \in Calls, call[k].pc \notin {"new", "over"} PROVE \E h \in Calls : MayMove(h)
  <2>1. call[k].pc \in PcLabels
    BY <1>1 DEF Locals
  <2>2. CASE call[k].pc = "sending"
    BY <2>2 DEF MayMove
  <2>3. QED BY <1>3, <1>4, <1>5, <1>6, <2>1, <2>2 DEF PcLabels, AtAgent
<1>7. QED BY <1>2, <1>6 DEF NoStandstill

-----------------------------------------------------------------------------
(* Turns are kept. *)

LEMMA StepKeepsTurns ==
    ASSUME ConversationAssumption, Inv, [Next]_vars, NEW s \in Sessions
    PROVE  session[s] \ session'[s] \subseteq dropped'[s] \/ s \in jobbed
<1>1. CASE session' = session
  BY <1>1
<1>2. ASSUME NEW k \in Calls, Replied(k)
      PROVE  session[s] \ session'[s] \subseteq dropped'[s] \/ s \in jobbed
  BY <1>2, RepliedKeeps
<1>3. ASSUME NEW k \in Calls, NEW turns, Drop(Key(call[k]), turns),
             session[Key(call[k])] \subseteq turns \/ Key(call[k]) \in jobbed
      PROVE  session[s] \ session'[s] \subseteq dropped'[s] \/ s \in jobbed
  BY <1>3 DEF Drop, Inv, TypeOK
<1>4. ASSUME NEW k \in Calls, EnterBot(k)
      PROVE  session[s] \ session'[s] \subseteq dropped'[s] \/ s \in jobbed
  <2>1. UNCHANGED memory \/ Drop(Key(call[k]), session[Key(call[k])])
    BY <1>4 DEF EnterBot
  <2>2. QED BY <1>1, <1>3, <2>1 DEF memory
<1>5. ASSUME NEW k \in Calls, HandedOver(k)
      PROVE  session[s] \ session'[s] \subseteq dropped'[s] \/ s \in jobbed
  <2>1. UNCHANGED memory \/ Drop(Key(call[k]), call[k].sid \cup {k})
    BY <1>5 DEF HandedOver
  <2>2. session[Key(call[k])] \subseteq call[k].sid \/ Key(call[k]) \in jobbed
    BY <1>5 DEF HandedOver, Answered, Inv, CallInv, LoadedInv, Loaded, AtAgent
  <2>3. QED BY <1>1, <1>3, <2>1, <2>2 DEF memory
<1>6. CASE Reset
  BY <1>6 DEF Reset, Inv, TypeOK
<1>7. ASSUME NEW k \in Calls, CallStep(k), session' # session
      PROVE  Replied(k) \/ EnterBot(k) \/ HandedOver(k)
  BY <1>7
  DEF CallStep, memory, EnterDiscuss, EnterDir, ReplySent, FlushSent, Flushed, TurnTaken, TurnSent,
      Ended
<1>8. Outside => session' = session \/ Reset
  BY DEF Outside, memory, Ask, StartJob, Flush, Discuss, Cd, Chat
<1>9. Idle \/ UNCHANGED vars => session' = session
  BY DEF Idle, vars
<1>10. QED BY <1>1, <1>2, <1>4, <1>5, <1>6, <1>7, <1>8, <1>9 DEF Next

-----------------------------------------------------------------------------
(* Notes are kept. *)

LEMMA StepKeepsNotes ==
    ASSUME ConversationAssumption, Inv, [Next]_vars, NEW d \in Dirs
    PROVE  LET lost == notes[d] \ notes'[d] IN
           lost # {} => /\ lost \cap Transcript(lines, d) = {}
                        /\ \E k \in overtaken \ overtaken' : call[k].about = d
<1>1. ASSUME NEW k \in Calls, CallStep(k) PROVE notes' = notes \/ Flushed(k)
  BY <1>1 DEF CallStep, EnterDiscuss, EnterBot, EnterDir, Replied, ReplySent, HandedOver,
              FlushSent, TurnTaken, TurnSent, Ended, written
<1>2. Outside \/ Idle \/ UNCHANGED vars => notes' = notes
  BY DEF Outside, Ask, StartJob, Flush, Discuss, Cd, Chat, Reset, Idle, vars, written
<1>3. CASE notes' = notes
  BY <1>3
<1>4. CASE \E k \in Calls : Flushed(k)
  BY <1>4, FlushedKeeps
<1>5. QED BY <1>1, <1>2, <1>3, <1>4 DEF Next

-----------------------------------------------------------------------------
(* The steps of a call run out. *)

(* What a call that goes on has left, by what it goes on to. *)
LEMMA LeftAfter ==
    ASSUME ConversationAssumption, Inv, NEW k \in Calls, NEW r \in Locals, NEW t, NEW out
    PROVE  /\ call[k] \in Locals /\ PhaseInv(call[k])
           /\ \A l : Becomes(k, r, l, t)
                     => call'[k].pc = l /\ call'[k].task = t /\ call'[k].round = r.round
           /\ ToBot(k, r, t, out)
              => call'[k].pc = "bot" /\ call'[k].task = t /\ call'[k].round = r.round
           /\ ToDir(k, r, t, out)
              => call'[k].pc = "dir" /\ call'[k].task = t /\ call'[k].round = r.round
           /\ Send(k, r)
              => call'[k].pc = "sending" /\ call'[k].task = r.task /\ call'[k].round = r.round
           /\ Leave(k) => call'[k].pc = "over"
<1>1. call \in [Calls -> Locals] /\ PhaseInv(call[k])
  BY DEF Inv, TypeOK, CallInv
<1>2. ASSUME NEW l, NEW f \in Locals, Becomes(k, f, l, t)
      PROVE  call'[k].pc = l /\ call'[k].task = t /\ call'[k].round = f.round
  BY <1>1, <1>2 DEF Becomes, Locals
<1>3. ToDir(k, r, t, out)
      => call'[k].pc = "dir" /\ call'[k].task = t /\ call'[k].round = r.round
  BY <1>1 DEF ToDir, Becomes, Locals
<1>4. Send(k, r)
      => call'[k].pc = "sending" /\ call'[k].task = r.task /\ call'[k].round = r.round
  BY <1>1 DEF Send, Becomes, Locals
<1>5. Leave(k) => call'[k].pc = "over"
  BY <1>1, FreshTyped DEF Leave, Over, Fresh
<1>6. QED BY <1>1, <1>2, <1>3, <1>4, <1>5 DEF ToBot

Less(k) == StepsLeft(call'[k]) < StepsLeft(call[k])

LEMMA LeftIsNumber ==
    ASSUME ConversationAssumption, Inv, NEW k \in Calls PROVE StepsLeft(call[k]) \in Int
<1>1. /\ call[k].pc \in PcLabels /\ call[k].round \in Int /\ MaxBotTurns \in Int
  BY DEF Inv, TypeOK, Locals, ConversationAssumption
<1>2. QED BY <1>1 DEF StepsLeft, PcLabels

(* A call that has not ended has a step left. *)
LEMMA LeavesLess ==
    ASSUME ConversationAssumption, Inv, NEW k \in Calls, Leave(k), call[k].pc # "over"
    PROVE  Less(k)
<1>1. /\ call[k] \in Locals /\ call[k].pc \in PcLabels
      /\ call[k].round \in 0..MaxBotTurns /\ MaxBotTurns \in Nat
  BY DEF Inv, TypeOK, Locals, ConversationAssumption
<1>2. StepsLeft(call[k]) > 0
  BY <1>1 DEF StepsLeft, PcLabels
<1>3. StepsLeft(call'[k]) = 0
  <2>1. call'[k].pc = "over"
    BY <1>1, LeftAfter
  <2>2. QED BY <2>1 DEF StepsLeft
<1>4. QED BY <1>2, <1>3 DEF Less

(* One that goes on after its memory flush has three steps left at most. *)
LEMMA GoesOnLess ==
    ASSUME ConversationAssumption, Inv, NEW k \in Calls, NEW r \in Locals, GoOn(k, r),
           StepsLeft(call[k]) > 3
    PROVE  Less(k)
<1> DEFINE f == [r EXCEPT !.sid = {}]
<1>1. f \in Locals
  BY DEF Locals
<1>2. CASE Leave(k)
  <2>1. call[k].pc # "over"
    BY DEF StepsLeft
  <2>2. QED BY <1>2, <2>1, LeavesLess
<1>3. CASE ToBot(k, f, "verdict", CallLocks)
  <2> HIDE DEF f
  <2>1. call'[k].pc = "bot" /\ call'[k].task = "verdict"
    BY <1>1, <1>3, LeftAfter
  <2>2. StepsLeft(call'[k]) = 3
    BY <2>1 DEF StepsLeft
  <2>3. QED BY <2>2 DEF Less
<1>4. QED BY <1>2, <1>3 DEF GoOn

(* One that turns to a flush has five. *)
LEMMA FlushesLess ==
    ASSUME ConversationAssumption, Inv, NEW k \in Calls, NEW r \in Locals, NEW d \in Dirs,
           NEW t \in {"flush", "checkpoint"}, ToFlush(k, r, t, d), StepsLeft(call[k]) > 5
    PROVE  Less(k)
<1> DEFINE said == Transcript(lines', d)
           f == [r EXCEPT !.about = d, !.draft = said \cup notes[d]]
<1>1. f \in Locals
  <2>1. said \subseteq Nat /\ notes[d] \subseteq Nat
    BY DEF Inv, TypeOK, Transcript
  <2>2. QED BY <2>1 DEF Locals
<1>2. GoOn(k, r) \/ ToDir(k, f, t, {})
  BY DEF ToFlush
<1> HIDE DEF f
<1>3. CASE GoOn(k, r)
  <2>1. StepsLeft(call[k]) \in Int
    BY LeftIsNumber
  <2>2. StepsLeft(call[k]) > 3
    BY <2>1
  <2>3. QED BY <1>3, <2>2, GoesOnLess
<1>4. CASE ToDir(k, f, t, {})
  <2>1. call'[k].pc = "dir" /\ call'[k].task = t
    BY <1>1, <1>4, LeftAfter
  <2>2. StepsLeft(call'[k]) = 5
    BY <2>1 DEF StepsLeft
  <2>3. QED BY <2>2 DEF Less
<1>5. QED BY <1>2, <1>3, <1>4

LEMMA StartsLess ==
    ASSUME ConversationAssumption, Inv, NEW k \in Calls,
           Ask(k) \/ StartJob(k) \/ Flush(k) \/ Discuss(k) \/ Cd(k)
    PROVE  call' = call \/ Less(k)
<1> DEFINE n == call'[k]
<1>1. call[k].pc = "new" /\ MaxBotTurns \in Nat /\ call[k] \in Locals /\ channelCwd \in Dirs
  BY StartsNew DEF Ask, StartJob, Flush, Discuss, Cd, ConversationAssumption, TypeOK
<1>2. StepsLeft(call[k]) = 4 * MaxBotTurns + 12
  BY <1>1 DEF StepsLeft
<1>3. CASE Ask(k)
  <2>1. PICK b \in Bots : ToBot(k, [Fresh EXCEPT !.bot = b, !.dir = channelCwd], "reply", {})
    BY <1>3 DEF Ask
  <2> DEFINE f == [Fresh EXCEPT !.bot = b, !.dir = channelCwd]
  <2>2. ToBot(k, f, "reply", {}) /\ f \in Locals
    BY <2>1, FreshTyped DEF Inv, TypeOK, Locals, Fresh
  <2> HIDE DEF f
  <2>3. n.pc = "bot" /\ n.task = "reply"
    BY <2>2, LeftAfter
  <2>4. QED BY <1>1, <1>2, <2>3 DEF StepsLeft, Less
<1>4. CASE StartJob(k)
  <2>1. PICK b \in Bots :
           ToDir(k, [Fresh EXCEPT !.bot = b, !.dir = channelCwd, !.job = TRUE], "job", {})
    BY <1>4 DEF StartJob
  <2> DEFINE f == [Fresh EXCEPT !.bot = b, !.dir = channelCwd, !.job = TRUE]
  <2>2. ToDir(k, f, "job", {}) /\ f \in Locals
    BY <2>1, FreshTyped DEF Inv, TypeOK, Locals, Fresh
  <2> HIDE DEF f
  <2>3. n.pc = "dir" /\ n.task = "job"
    BY <2>2, LeftAfter
  <2>4. QED BY <1>1, <1>2, <2>3 DEF StepsLeft, Less
<1>5. CASE Discuss(k)
  <2>1. n.pc = "discuss"
    BY <1>5, FreshTyped, LeftAfter DEF Discuss
  <2>2. QED BY <1>1, <1>2, <2>1 DEF StepsLeft, Less
<1>6. CASE Flush(k)
  <2>1. Becomes(k, Fresh, "sending", "flush") /\ Fresh \in Locals
    BY <1>6, FreshTyped DEF Flush
  <2>2. n.pc = "sending" /\ n.task = "flush"
    BY <2>1, LeftAfter
  <2>3. QED BY <1>1, <1>2, <2>2 DEF StepsLeft, Less
<1>7. CASE Cd(k)
  <2>1. StepsLeft(call[k]) > 5
    BY <1>1, <1>2
  <2>2. QED BY <1>1, <1>7, <2>1, FreshTyped, FlushesLess DEF Cd
<1>8. QED BY <1>3, <1>4, <1>5, <1>6, <1>7

LEMMA EntersLess ==
    ASSUME ConversationAssumption, Inv, NEW k \in Calls,
           EnterDiscuss(k) \/ EnterBot(k) \/ EnterDir(k)
    PROVE  Less(k)
<1> DEFINE c == call[k]
           n == call'[k]
<1>1. /\ c \in Locals /\ PhaseInv(c) /\ channelCwd \in Dirs
      /\ c.round \in 0..MaxBotTurns /\ MaxBotTurns \in Nat
  BY DEF Inv, TypeOK, CallInv, Locals, ConversationAssumption
<1>2. CASE EnterDiscuss(k)
  <2> DEFINE r == [c EXCEPT !.dir = channelCwd]
  <2>1. r \in Locals /\ r.round = c.round
    BY <1>1 DEF Locals
  <2>2. ToBot(k, r, "turn", {}) \/ ToDir(k, r, "conclude", {}) \/ Leave(k)
    BY <1>2 DEF EnterDiscuss
  <2> HIDE DEF r
  <2>3. c.pc = "discuss" /\ StepsLeft(c) = 4 * MaxBotTurns + 4 /\ c.round = 0
    BY <1>1, <1>2 DEF EnterDiscuss, StepsLeft, PhaseInv
  <2>4. CASE ToBot(k, r, "turn", {})
    <3>1. n.pc = "bot" /\ n.task = "turn" /\ n.round = 0
      BY <2>1, <2>3, <2>4, LeftAfter
    <3>2. QED BY <1>1, <2>3, <3>1 DEF StepsLeft, Less
  <2>5. CASE ToDir(k, r, "conclude", {})
    <3>1. n.pc = "dir" /\ n.task = "conclude"
      BY <2>1, <2>5, LeftAfter
    <3>2. QED BY <1>1, <2>3, <3>1 DEF StepsLeft, Less
  <2>6. QED BY <2>2, <2>3, <2>4, <2>5, LeavesLess
<1>3. CASE EnterBot(k)
  <2>1. c.pc = "bot"
    BY <1>3 DEF EnterBot
  <2>2. \/ ToDir(k, c, c.task, {}) /\ c.task \in BotTasks
        \/ ToBot(k, [c EXCEPT !.sid = {}], "hard", CallLocks) /\ c.task = "handover"
        \/ GoOn(k, c) /\ c.task \in {"handover", "hard"}
        \/ Leave(k)
    BY <1>3 DEF EnterBot, BotTasks, GiveUp
  <2>3. CASE ToDir(k, c, c.task, {}) /\ c.task \in BotTasks
    <3>1. n.pc = "dir" /\ n.task = c.task /\ n.round = c.round
      BY <1>1, <2>3, LeftAfter
    <3>2. QED BY <1>1, <2>1, <2>3, <3>1 DEF StepsLeft, Less, BotTasks
  <2>4. CASE ToBot(k, [c EXCEPT !.sid = {}], "hard", CallLocks) /\ c.task = "handover"
    <3>1. [c EXCEPT !.sid = {}] \in Locals
      BY <1>1 DEF Locals
    <3>2. n.pc = "bot" /\ n.task = "hard"
      BY <2>4, <3>1, LeftAfter
    <3>3. QED BY <2>1, <2>4, <3>2 DEF StepsLeft, Less
  <2>5. CASE GoOn(k, c) /\ c.task \in {"handover", "hard"}
    <3>1. StepsLeft(c) > 3
      BY <2>1, <2>5 DEF StepsLeft
    <3>2. QED BY <1>1, <2>5, <3>1, GoesOnLess
  <2>6. QED BY <2>1, <2>2, <2>3, <2>4, <2>5, LeavesLess
<1>4. CASE EnterDir(k)
  <2>1. c.pc = "dir" /\ n.pc = "agent" /\ n.task = c.task /\ n.round = c.round
    BY <1>1, <1>4, LeftAfter DEF EnterDir
  <2>2. QED BY <1>1, <2>1 DEF StepsLeft, Less
<1>5. QED BY <1>2, <1>3, <1>4

LEMMA AnswersLess ==
    ASSUME ConversationAssumption, Inv, NEW k \in Calls,
           Replied(k) \/ HandedOver(k) \/ Flushed(k) \/ TurnTaken(k) \/ Ended(k)
    PROVE  Less(k)
<1> DEFINE c == call[k]
           n == call'[k]
<1>1. c \in Locals /\ c.round \in 0..MaxBotTurns /\ MaxBotTurns \in Nat /\ c.pc = "agent"
  BY DEF Inv, TypeOK, Locals, ConversationAssumption, Replied, HandedOver, Flushed, TurnTaken,
         Ended, Answered
<1>2. CASE Leave(k)
  BY <1>1, <1>2, LeavesLess
<1>3. CASE Send(k, c) /\ c.task \in {"reply", "job"}
  <2>1. n.pc = "sending" /\ n.task = c.task
    BY <1>1, <1>3, LeftAfter
  <2>2. QED BY <1>1, <1>3, <2>1 DEF StepsLeft, Less
<1>4. CASE Send(k, [c EXCEPT !.round = @ + 1]) /\ c.task = "turn"
  <2> DEFINE r == [c EXCEPT !.round = @ + 1]
  <2>1. c.round + 1 \in 0..MaxBotTurns
    <3>1. c.round < MaxBotTurns
      BY <1>1, <1>4 DEF Inv, CallInv, PhaseInv
    <3>2. QED BY <1>1, <3>1
  <2>2. r \in Locals /\ r.task = "turn" /\ r.round = c.round + 1
    BY <1>1, <1>4, <2>1 DEF Locals
  <2>3. Send(k, r)
    BY <1>4
  <2> HIDE DEF r
  <2>4. n.pc = "sending" /\ n.task = "turn" /\ n.round = c.round + 1
    BY <2>2, <2>3, LeftAfter
  <2>5. QED BY <1>1, <1>4, <2>1, <2>4 DEF StepsLeft, Less
<1>5. CASE ToBot(k, [c EXCEPT !.sid = {}], "hard", CallLocks) /\ c.task = "handover"
  <2>1. [c EXCEPT !.sid = {}] \in Locals
    BY <1>1 DEF Locals
  <2>2. n.pc = "bot" /\ n.task = "hard"
    BY <1>5, <2>1, LeftAfter
  <2>3. QED BY <1>1, <1>5, <2>2 DEF StepsLeft, Less
<1>6. CASE GoOn(k, c) /\ c.task \in {"handover", "flush", "checkpoint"}
  <2>1. StepsLeft(c) > 3
    BY <1>1, <1>6 DEF StepsLeft
  <2>2. QED BY <1>1, <1>6, <2>1, GoesOnLess
<1>7. QED BY <1>2, <1>3, <1>4, <1>5, <1>6
      DEF Replied, HandedOver, Flushed, TurnTaken, Ended, GiveUp, Answered

LEMMA SentLess ==
    ASSUME ConversationAssumption, Inv, NEW k \in Calls,
           ReplySent(k) \/ FlushSent(k) \/ TurnSent(k)
    PROVE  Less(k)
<1> DEFINE c == call[k]
           n == call'[k]
<1>1. /\ c \in Locals /\ c.round \in 0..MaxBotTurns /\ MaxBotTurns \in Nat
      /\ c.pc = "sending" /\ ctx[Key(c)] \in Sizes /\ channelCwd \in Dirs
  BY DEF Inv, TypeOK, Locals, Key, Sessions, ConversationAssumption, ReplySent, FlushSent, TurnSent
<1>2. CASE Leave(k)
  BY <1>1, <1>2, LeavesLess
<1>3. CASE c.task # "turn"
  <2> DEFINE r == [c EXCEPT !.seen = ctx[Key(c)]]
  <2>1. r \in Locals
    BY <1>1 DEF Locals
  <2>2. \/ ToBot(k, r, "handover", {}) \/ GoOn(k, c) \/ Leave(k)
        \/ \E t \in {"flush", "checkpoint"} : ToFlush(k, c, t, channelCwd)
    BY <1>3 DEF ReplySent, FlushSent, TurnSent, TokenFlush, ToHandover
  <2>3. StepsLeft(c) = 8
    BY <1>1, <1>3 DEF StepsLeft
  <2> HIDE DEF r
  <2>4. CASE ToBot(k, r, "handover", {})
    <3>1. n.pc = "bot" /\ n.task = "handover"
      BY <2>1, <2>4, LeftAfter
    <3>2. StepsLeft(n) = 7
      BY <3>1 DEF StepsLeft
    <3>3. QED BY <2>3, <3>2 DEF Less
  <2>5. StepsLeft(c) > 5 /\ StepsLeft(c) > 3
    BY <2>3
  <2>6. QED BY <1>1, <1>2, <2>2, <2>4, <2>5, GoesOnLess, FlushesLess
<1>4. CASE TurnSent(k)
  <2>1. c.task = "turn" /\ StepsLeft(c) = 4 * (MaxBotTurns - c.round) + 4
    BY <1>1, <1>4 DEF TurnSent, StepsLeft
  <2>2. CASE ToBot(k, c, "turn", {})
    <3>1. n.pc = "bot" /\ n.task = "turn" /\ n.round = c.round
      BY <1>1, <2>2, LeftAfter
    <3>2. QED BY <1>1, <2>1, <3>1 DEF StepsLeft, Less
  <2>3. CASE ToDir(k, c, "conclude", {})
    <3>1. n.pc = "dir" /\ n.task = "conclude"
      BY <1>1, <2>3, LeftAfter
    <3>2. QED BY <1>1, <2>1, <3>1 DEF StepsLeft, Less
  <2>4. QED BY <1>2, <1>4, <2>2, <2>3 DEF TurnSent
<1>5. QED BY <1>3, <1>4 DEF ReplySent, FlushSent

(* A step is a step of one call, or of none. *)
LEMMA StepMakesLess ==
    ASSUME ConversationAssumption, Inv, [Next]_vars, NEW j \in Calls, call'[j] # call[j]
    PROVE  Less(j)
<1>1. ASSUME NEW k \in Calls, call' = [call EXCEPT ![k] = call'[k]], Less(k) PROVE Less(j)
  BY <1>1 DEF Inv, TypeOK
<1>2. ASSUME NEW k \in Calls, NEW r, call' = [call EXCEPT ![k] = r]
      PROVE  call' = [call EXCEPT ![k] = call'[k]]
  BY <1>2 DEF Inv, TypeOK
<1>3. ASSUME NEW k \in Calls, NEW r, NEW l, NEW t, Becomes(k, r, l, t)
      PROVE  call' = [call EXCEPT ![k] = call'[k]]
  BY <1>2, <1>3 DEF Becomes
<1>4. ASSUME NEW k \in Calls, NEW r, NEW t, NEW out,
             ToBot(k, r, t, out) \/ ToDir(k, r, t, out) \/ Send(k, r) \/ Leave(k)
      PROVE  call' = [call EXCEPT ![k] = call'[k]]
  BY <1>2, <1>3, <1>4 DEF ToBot, ToDir, Send, Leave
<1>5. ASSUME NEW k \in Calls, CallStep(k) PROVE call' = [call EXCEPT ![k] = call'[k]]
  BY <1>3, <1>4, <1>5
  DEF CallStep, EnterDiscuss, EnterBot, GiveUp, GoOn, EnterDir, Replied, ReplySent, TokenFlush,
      ToHandover, FlushSent, ToFlush, HandedOver, Flushed, TurnTaken, TurnSent, Ended
<1>6. ASSUME NEW k \in Calls, Ask(k) \/ StartJob(k) \/ Flush(k) \/ Discuss(k) \/ Cd(k), call' # call
      PROVE  call' = [call EXCEPT ![k] = call'[k]]
  BY <1>3, <1>4, <1>6 DEF Ask, StartJob, Flush, Discuss, Cd, ToFlush, GoOn
<1>7. ASSUME NEW k \in Calls, CallStep(k) PROVE Less(k)
  BY <1>7, EntersLess, AnswersLess, SentLess DEF CallStep
<1>8. Chat \/ Reset \/ Idle \/ UNCHANGED vars => call' = call
  BY DEF Chat, Reset, Idle, vars
<1>9. QED BY <1>1, <1>5, <1>6, <1>7, <1>8, StartsLess DEF Next, Outside

-----------------------------------------------------------------------------
(* The sessions implement SessionLog. *)

(* A session, as what has happened to it is seen from outside. *)
Elsewhere(s) == \A t \in Sessions : t # s => session'[t] = session[t] /\ dropped'[t] = dropped[t]

LEMMA LogStutters ==
    ASSUME NEW s \in Sessions, Loose' = Loose, Elsewhere(s),
           s \in Loose \/ (session'[s] = session[s] /\ dropped'[s] = dropped[s])
    PROVE  UNCHANGED Log!logVars
<1>1. Strict(session)' = Strict(session)
  BY DEF Strict, Elsewhere
<1>2. Strict(dropped)' = Strict(dropped)
  BY DEF Strict, Elsewhere
<1>3. QED BY <1>1, <1>2 DEF Log!logVars

LEMMA LogAnswers ==
    ASSUME NEW s \in Sessions \ Loose, NEW k \in Calls, Loose' = Loose, Elsewhere(s),
           \A t \in Sessions : k \notin session[t] /\ k \notin dropped[t],
           session'[s] = session[s] \cup {k}, dropped'[s] = dropped[s]
    PROVE  Log!LogNext
<1>1. Strict(session)' = [Strict(session) EXCEPT ![s] = Strict(session)[s] \cup {k}]
  BY DEF Strict, Elsewhere
<1>2. Strict(dropped)' = Strict(dropped)
  BY DEF Strict, Elsewhere
<1>3. \A t \in Sessions : k \notin Strict(session)[t] \cup Strict(dropped)[t]
  BY DEF Strict
<1>4. Log!Answer(s, k)
  BY <1>1, <1>2, <1>3 DEF Log!Answer
<1>5. QED BY <1>4 DEF Log!LogNext

LEMMA LogForgets ==
    ASSUME NEW s \in Sessions \ Loose, NEW answers \in SUBSET Calls, Loose' = Loose, Elsewhere(s),
           session[s] \subseteq answers, session'[s] = {}, dropped'[s] = dropped[s] \cup answers
    PROVE  Log!LogNext
<1>1. Strict(session)' = [Strict(session) EXCEPT ![s] = {}]
  BY DEF Strict, Elsewhere
<1>2. Strict(dropped)' = [Strict(dropped) EXCEPT ![s] = Strict(dropped)[s] \cup answers]
  BY DEF Strict, Elsewhere
<1>3. Strict(session)[s] \subseteq answers
  BY DEF Strict
<1>4. Log!Forget(s)
  BY <1>1, <1>2, <1>3 DEF Log!Forget
<1>5. QED BY <1>4 DEF Log!LogNext

LEMMA LogLoosens ==
    ASSUME NEW s \in Sessions \ Loose, Loose' = Loose \cup {s}, Elsewhere(s)
    PROVE  Log!LogNext
<1>1. Strict(session)' = [Strict(session) EXCEPT ![s] = {}]
  BY DEF Strict, Elsewhere
<1>2. Strict(dropped)' = [Strict(dropped) EXCEPT ![s] = {}]
  BY DEF Strict, Elsewhere
<1>3. Log!Loosen(s)
  BY <1>1, <1>2 DEF Log!Loosen
<1>4. QED BY <1>3 DEF Log!LogNext

(* A step that has nothing to do with sessions. *)
Apart == UNCHANGED <<session, dropped, undone, jobbed>>

LogStep == Log!LogNext \/ UNCHANGED Log!logVars

LEMMA ApartStutters == ASSUME Apart PROVE LogStep
<1>1. Strict(session)' = Strict(session) /\ Strict(dropped)' = Strict(dropped) /\ Loose' = Loose
  BY DEF Apart, Strict, Loose
<1>2. QED BY <1>1 DEF LogStep, Log!logVars

LEMMA RepliedRefines ==
    ASSUME ConversationAssumption, Inv, NEW k \in Calls, Replied(k) PROVE LogStep
<1> DEFINE c == call[k]
           s == Key(c)
<1>1. /\ c.pc = "agent" /\ c.task \in {"reply", "job"} /\ UNCHANGED <<undone, jobbed>>
      /\ (Save(k) /\ WithSession(c, c.task)) \/ UNCHANGED memory
  BY DEF Replied, Answered
<1>2. CASE UNCHANGED memory
  BY <1>1, <1>2, ApartStutters DEF Apart, memory
<1>3. CASE Save(k) /\ WithSession(c, c.task)
  <2>1. s \in Sessions /\ Loose' = Loose /\ CallInv(k)
    BY <1>1 DEF Inv, TypeOK, Key, Sessions, Locals, Loose
  <2>2. Elsewhere(s) /\ dropped' = dropped /\ session'[s] = c.sid \cup {k}
    BY <1>3, <2>1 DEF Save, Elsewhere, Inv, TypeOK
  <2>3. CASE s \in Loose
    BY <2>1, <2>2, <2>3, LogStutters DEF LogStep
  <2>4. CASE s \notin Loose
    <3>1. c.task = "reply"
      BY <1>1, <1>3, <2>1, <2>4 DEF CallInv, LoadedInv, AtAgent, WithSession, Loose
    <3>2. session[s] = c.sid
      BY <1>1, <2>1, <2>4, <3>1 DEF CallInv, LoadedInv, Loaded, AtAgent, Loose
    <3>3. \A t \in Sessions : k \notin session[t] /\ k \notin dropped[t]
      BY <1>1, <2>1 DEF CallInv, UnansweredInv, Unanswered
    <3>4. QED BY <2>1, <2>2, <2>4, <3>2, <3>3, LogAnswers DEF LogStep
  <2>5. QED BY <2>3, <2>4
<1>4. QED BY <1>1, <1>2, <1>3

(* A session is dropped by a call that has all of its turns. *)
LEMMA DropRefines ==
    ASSUME Inv, NEW k \in Calls, NEW turns \in SUBSET Calls, Drop(Key(call[k]), turns),
           UNCHANGED <<undone, jobbed>>,
           session[Key(call[k])] \subseteq turns \/ Key(call[k]) \in Loose
    PROVE  LogStep
<1> DEFINE s == Key(call[k])
<1>1. s \in Sessions /\ Loose' = Loose
  BY DEF Inv, TypeOK, Key, Sessions, Locals, Loose
<1>2. Elsewhere(s) /\ session'[s] = {} /\ dropped'[s] = dropped[s] \cup turns
  BY <1>1 DEF Drop, Elsewhere, Inv, TypeOK
<1> HIDE DEF s
<1>3. CASE s \in Loose
  BY <1>1, <1>2, <1>3, LogStutters DEF LogStep
<1>4. CASE s \notin Loose
  BY <1>1, <1>2, <1>4, LogForgets DEF LogStep, s
<1>5. QED BY <1>3, <1>4

LEMMA EnterBotRefines ==
    ASSUME Inv, NEW k \in Calls, EnterBot(k) PROVE LogStep
<1>1. /\ UNCHANGED <<undone, jobbed>>
      /\ UNCHANGED memory \/ Drop(Key(call[k]), session[Key(call[k])])
  BY DEF EnterBot
<1>2. session[Key(call[k])] \in SUBSET Calls
  BY DEF Inv, TypeOK, Key, Sessions, Locals
<1>3. CASE UNCHANGED memory
  BY <1>1, <1>3, ApartStutters DEF Apart, memory
<1>4. CASE Drop(Key(call[k]), session[Key(call[k])])
  BY <1>1, <1>2, <1>4, DropRefines
<1>5. QED BY <1>1, <1>3, <1>4

LEMMA HandedOverRefines ==
    ASSUME Inv, NEW k \in Calls, HandedOver(k) PROVE LogStep
<1> DEFINE c == call[k]
<1>1. /\ UNCHANGED <<undone, jobbed>> /\ Loaded(c)
      /\ UNCHANGED memory \/ Drop(Key(c), c.sid \cup {k})
  BY DEF HandedOver, Answered, Loaded, AtAgent
<1>2. c.sid \cup {k} \in SUBSET Calls
  BY DEF Inv, TypeOK, Locals
<1>3. session[Key(c)] \subseteq c.sid \cup {k} \/ Key(c) \in Loose
  BY <1>1 DEF Inv, CallInv, LoadedInv, Loose
<1>4. CASE UNCHANGED memory
  BY <1>1, <1>4, ApartStutters DEF Apart, memory
<1>5. CASE Drop(Key(c), c.sid \cup {k})
  BY <1>1, <1>2, <1>3, <1>5, DropRefines
<1>6. QED BY <1>1, <1>4, <1>5

LEMMA ResetRefines == ASSUME Inv, Reset PROVE LogStep
<1>1. PICK b \in Bots : LET s == <<b, channelCwd>> IN
          /\ session' = [session EXCEPT ![s] = {}]
          /\ dropped' = [dropped EXCEPT ![s] = @ \cup session[s]]
          /\ undone' = undone \cup (IF UnderWay(s) THEN {s} ELSE {})
  BY DEF Reset
<1> DEFINE s == <<b, channelCwd>>
<1>2. s \in Sessions /\ session[s] \in SUBSET Calls
  BY DEF Inv, TypeOK, Sessions
<1>3. Elsewhere(s) /\ session'[s] = {} /\ dropped'[s] = dropped[s] \cup session[s]
  BY <1>1, <1>2 DEF Elsewhere, Inv, TypeOK
<1>4. Loose' = Loose \/ Loose' = Loose \cup {s}
  BY <1>1 DEF Loose, Reset
<1> HIDE DEF s
<1>5. CASE s \in Loose
  <2>1. Loose' = Loose
    BY <1>4, <1>5
  <2>2. QED BY <1>2, <1>3, <1>5, <2>1, LogStutters DEF LogStep
<1>6. CASE s \notin Loose /\ Loose' = Loose
  BY <1>2, <1>3, <1>6, LogForgets DEF LogStep
<1>7. CASE s \notin Loose /\ Loose' = Loose \cup {s}
  BY <1>2, <1>3, <1>7, LogLoosens DEF LogStep
<1>8. QED BY <1>4, <1>5, <1>6, <1>7

LEMMA StartJobRefines ==
    ASSUME ConversationAssumption, Inv, NEW k \in Calls, StartJob(k) PROVE LogStep
<1>1. PICK b \in Bots : LET r == [Fresh EXCEPT !.bot = b, !.dir = channelCwd, !.job = TRUE] IN
          jobbed' = jobbed \cup (IF WithSession(r, "job") THEN {Key(r)} ELSE {})
  BY DEF StartJob
<1> DEFINE r == [Fresh EXCEPT !.bot = b, !.dir = channelCwd, !.job = TRUE]
           s == Key(r)
<1>2. r \in Locals /\ s \in Sessions
  BY FreshTyped DEF Inv, TypeOK, Locals, Fresh, Key, Sessions
<1>3. session' = session /\ dropped' = dropped /\ undone' = undone
  BY DEF StartJob, memory
<1>4. Loose' = Loose \/ Loose' = Loose \cup {s}
  BY <1>1, <1>3 DEF Loose
<1> HIDE DEF s
<1>5. Elsewhere(s)
  BY <1>3 DEF Elsewhere
<1>6. CASE Loose' = Loose
  BY <1>2, <1>3, <1>5, <1>6, LogStutters DEF LogStep
<1>7. CASE Loose' # Loose
  BY <1>2, <1>4, <1>5, <1>7, LogLoosens DEF LogStep
<1>8. QED BY <1>6, <1>7

LEMMA InitLogs == ASSUME Init PROVE Log!LogInit
<1>1. Loose = {} /\ session = [s \in Sessions |-> {}] /\ dropped = [s \in Sessions |-> {}]
  BY DEF Init, Loose
<1>2. QED BY <1>1 DEF Log!LogInit, Strict

LEMMA NextLogs == ASSUME ConversationAssumption, Inv, [Next]_vars PROVE LogStep
<1>1. ASSUME NEW k \in Calls, CallStep(k) PROVE LogStep
  <2>1. Apart \/ Replied(k) \/ EnterBot(k) \/ HandedOver(k)
    BY <1>1 DEF CallStep, Apart, memory, EnterDiscuss, EnterDir, ReplySent, FlushSent, Flushed,
                TurnTaken, TurnSent, Ended
  <2>2. QED BY <2>1, ApartStutters, RepliedRefines, EnterBotRefines, HandedOverRefines
<1>2. CASE Outside
  <2>1. Apart \/ Reset \/ \E k \in Calls : StartJob(k)
    BY <1>2 DEF Outside, Apart, memory, Ask, Flush, Discuss, Cd, Chat
  <2>2. QED BY <2>1, ApartStutters, ResetRefines, StartJobRefines
<1>3. CASE UNCHANGED vars
  BY <1>3, ApartStutters DEF vars, Apart
<1>4. QED BY <1>1, <1>2, <1>3 DEF Next, Idle

-----------------------------------------------------------------------------
(* The theorems of the specification. *)

(* The locks and the memory they guard are consistent in every reachable state. *)
THEOREM Invariance == Spec => []Inv
<1>1. Init => Inv
  BY InitInv, ConversationAssumption
<1>2. Inv /\ [Next]_vars => Inv'
  BY NextKeepsInv, ConversationAssumption
<1>3. QED BY <1>1, <1>2, PTL DEF Spec

(* Every variable stays in its type: in particular no debate has more than MAX_BOT_TURNS turns. *)
THEOREM TypeCorrect == Spec => []TypeOK
<1>1. Inv => TypeOK
  BY DEF Inv
<1>2. QED BY <1>1, Invariance, PTL

(* A session dropped by a handover, the hard cap or !reset is not resumed afterwards. *)
THEOREM DroppedStay == Spec => []DroppedStaysDropped
<1>1. Inv => DroppedStaysDropped
  BY DEF Inv
<1>2. QED BY <1>1, Invariance, PTL

(* The bot's, directory's and debate's locks never leave all calls waiting for each other. *)
THEOREM NobodyStuck == Spec => []NoStandstill
<1>1. Inv => NoStandstill
  BY InvNoStandstill, ConversationAssumption
<1>2. QED BY <1>1, Invariance, PTL

(* No step of a chat, flush or debate loses a turn that a session has. *)
THEOREM TurnsAreKept == Spec => TurnsKept
<1>1. Inv /\ [Next]_vars
      => [\A s \in Sessions : session[s] \ session'[s] \subseteq dropped'[s] \/ s \in jobbed]_vars
  BY StepKeepsTurns, ConversationAssumption
<1>2. QED BY <1>1, Invariance, PTL DEF Spec, TurnsKept

(* A flush overwrites project notes with less than they had only where another one wrote them
   since it read them, and then drops only what has left the transcript. *)
THEOREM NotesAreKept == Spec => NotesKept
<1>1. Inv /\ [Next]_vars
      => [\A d \in Dirs : LET lost == notes[d] \ notes'[d] IN
             lost # {} => /\ lost \cap Transcript(lines, d) = {}
                          /\ \E k \in overtaken \ overtaken' : call[k].about = d]_vars
  BY StepKeepsNotes, ConversationAssumption
<1>2. QED BY <1>1, Invariance, PTL DEF Spec, NotesKept

(* Every step of a call lowers what it has left, and nothing raises it. *)
THEOREM StepsCount == Spec => StepsRunOut
<1>1. Inv /\ [Next]_vars
      => [\A k \in Calls : call'[k] # call[k] => StepsLeft(call'[k]) < StepsLeft(call[k])]_vars
  BY StepMakesLess, ConversationAssumption DEF Less
<1>2. QED BY <1>1, Invariance, PTL DEF Spec, StepsRunOut

(* The bots' sessions implement SessionLog: however the calls of chats, handovers, flushes and
   debates interleave, a session changes as if each of them loaded and stored it in one step. *)
THEOREM Serialised == Spec => ImplementsSessionLog
<1>1. Init => Log!LogInit
  BY InitLogs
<1>2. Inv /\ [Next]_vars => [Log!LogNext]_(Log!logVars)
  BY NextLogs, ConversationAssumption DEF LogStep
<1>3. QED
  BY <1>1, <1>2, Invariance, PTL DEF Spec, ImplementsSessionLog, Log!LogSpec
=============================================================================
