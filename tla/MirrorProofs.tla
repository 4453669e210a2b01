---------------------------- MODULE MirrorProofs ----------------------------
(***************************************************************************)
(* AgentCardMirror implements CardPromise and refreshes its snapshot once  *)
(* per TTL, for any callers, upstream cards, TTL and timeout.              *)
(*                                                                         *)
(* The invariant dates what the mirror has: the snapshot was the           *)
(* upstream's card a TTL before it expires, and a card being read was the  *)
(* upstream's since its fetch began.                                       *)
(***************************************************************************)
EXTENDS Gateway, SequenceTheorems, TLAPS

(* A leaf that names no prover is tried with SMT, then with Zenon.         *)
USE SMTT(20), ZenonT(20)

Tasks == [phase : {"none", "error", "card", "waiting", "fetching", "reading"},
          started : Nat, hops : Nat, version : Nat]

MirrorTyped ==
  /\ clock \in Nat /\ until \in Seq(Nat) /\ Latest <= Len(CardOf)
  /\ cached \in [version : Nat, expires : Nat]
  /\ waiters \in Seq(Callers)
  /\ task \in [Callers -> Tasks]

(* Whoever is queued waits, in one place.                                  *)
QueueOK ==
  /\ \A i \in DOMAIN waiters : task[waiters[i]].phase = "waiting"
  /\ \A i, j \in DOMAIN waiters : waiters[i] = waiters[j] => i = j

(* Version v was the upstream's at some time since t.                      *)
CurrentSince(v, t) == v \in 1..Latest /\ (v = Latest \/ until[v] >= t)

(* One task fetches, for no longer than the timeout, since the snapshot    *)
(* has expired; a card it reads is no older than the snapshot.             *)
Fetching(c) == task[c].phase \in {"fetching", "reading"}

FetchOK ==
  /\ \A c, d \in Callers : Fetching(c) /\ Fetching(d) => c = d
  /\ \A c \in Callers : Fetching(c) =>
       /\ cached.expires <= task[c].started
       /\ task[c].started <= clock /\ clock <= task[c].started + FetchTimeout
  /\ \A c \in Callers : task[c].phase = "reading" =>
       CurrentSince(task[c].version, task[c].started) /\ cached.version <= task[c].version

(* The snapshot is public and was the upstream's a TTL before it expires.  *)
SnapshotOK ==
  /\ cached.version = 0 => cached.expires = 0
  /\ cached.version # 0 =>
       /\ Publishable(cached.version)
       /\ Ttl <= cached.expires /\ cached.expires <= clock + Ttl
       /\ CurrentSince(cached.version, cached.expires - Ttl)

MirrorInv == MirrorTyped /\ QueueOK /\ FetchOK /\ SnapshotOK
-----------------------------------------------------------------------------
(* The tasks.                                                              *)

(* The tasks of CardMirror have the type, and the phases they say.         *)
LEMMA TaskTypes ==
  /\ Waiting \in Tasks /\ Waiting.phase = "waiting"
  /\ Errored \in Tasks /\ Errored.phase = "error"
  /\ Away \in Tasks /\ Away.phase = "none"
  /\ \A v \in Nat : Served(v) \in Tasks /\ Served(v).phase = "card" /\ Served(v).version = v
  /\ \A t \in Nat : /\ Task("fetching", t, 0, 0) \in Tasks
                    /\ Task("fetching", t, 0, 0).phase = "fetching"
                    /\ Task("fetching", t, 0, 0).started = t
BY DEF Waiting, Errored, Away, Served, Task, Tasks

(* One task changes.                                                       *)
LEMMA Becomes ==
  ASSUME MirrorTyped, NEW c \in Callers, NEW t \in Tasks, Become(c, t)
  PROVE  /\ task' \in [Callers -> Tasks] /\ task'[c] = t
         /\ \A d \in Callers : d # c => task'[d] = task[d]
BY DEF MirrorTyped, Become
-----------------------------------------------------------------------------
(* The queue.                                                              *)

(* A task that was not waiting is in nobody's way.                         *)
LEMMA QueueStands ==
  ASSUME MirrorTyped, QueueOK, NEW c \in Callers, NEW t \in Tasks, Become(c, t),
         task[c].phase # "waiting", UNCHANGED waiters
  PROVE  QueueOK' /\ waiters' \in Seq(Callers)
<1>1. \A i \in DOMAIN waiters : waiters[i] \in Callers /\ waiters[i] # c
  BY DEF MirrorTyped, QueueOK
<1> QED BY <1>1, Becomes DEF QueueOK, MirrorTyped

(* A task joins the queue.                                                 *)
LEMMA QueueGrows ==
  ASSUME MirrorTyped, QueueOK, NEW c \in Callers, Become(c, Waiting),
         task[c].phase # "waiting", waiters' = Append(waiters, c)
  PROVE  QueueOK' /\ waiters' \in Seq(Callers)
<1>1. \A i \in DOMAIN waiters : waiters[i] \in Callers /\ waiters[i] # c
  BY DEF MirrorTyped, QueueOK
<1>2. /\ task'[c].phase = "waiting"
      /\ \A d \in Callers : d # c => task'[d] = task[d]
  BY TaskTypes, Becomes
<1>3. /\ waiters' \in Seq(Callers) /\ DOMAIN waiters' = 1..(Len(waiters) + 1)
      /\ waiters'[Len(waiters) + 1] = c
      /\ \A i \in DOMAIN waiters : waiters'[i] = waiters[i]
      /\ DOMAIN waiters = 1..Len(waiters) /\ Len(waiters) \in Nat
  BY AppendProperties DEF MirrorTyped
<1>4. \A i \in DOMAIN waiters' : i \in DOMAIN waiters \/ i = Len(waiters) + 1
  BY <1>3
<1>5. \A i \in DOMAIN waiters' : task'[waiters'[i]].phase = "waiting"
  BY <1>1, <1>2, <1>3, <1>4 DEF QueueOK
<1>6. \A i, j \in DOMAIN waiters' : waiters'[i] = waiters'[j] => i = j
  BY <1>1, <1>3, <1>4 DEF QueueOK
<1> QED BY <1>3, <1>5, <1>6 DEF QueueOK

(* The first in the queue gets the lock.                                   *)
LEMMA QueueShrinks ==
  ASSUME MirrorTyped, QueueOK, NEW c \in Callers, NEW t \in Tasks, Become(c, t),
         waiters # << >>, c = Head(waiters), waiters' = Tail(waiters)
  PROVE  QueueOK' /\ waiters' \in Seq(Callers) /\ task[c].phase = "waiting"
<1>1. /\ waiters' \in Seq(Callers) /\ Len(waiters') = Len(waiters) - 1
      /\ \A i \in DOMAIN waiters' : i + 1 \in DOMAIN waiters /\ waiters'[i] = waiters[i + 1]
      /\ 1 \in DOMAIN waiters /\ c = waiters[1]
      /\ \A i \in DOMAIN waiters' : i \in Nat /\ i > 0
  BY DEF MirrorTyped
<1>2. \A i \in DOMAIN waiters' : waiters'[i] \in Callers /\ waiters'[i] # c
  BY <1>1 DEF QueueOK
<1>3. \A d \in Callers : d # c => task'[d] = task[d]
  BY Becomes
<1>4. \A i \in DOMAIN waiters' : task'[waiters'[i]].phase = "waiting"
  BY <1>1, <1>2, <1>3 DEF QueueOK
<1>5. \A i, j \in DOMAIN waiters' : waiters'[i] = waiters'[j] => i = j
  BY <1>1 DEF QueueOK
<1> QED BY <1>1, <1>4, <1>5 DEF QueueOK

(* A waiter leaves the queue.                                              *)
LEMMA QueueLoses ==
  ASSUME MirrorTyped, QueueOK, NEW c \in Callers, NEW t \in Tasks, Become(c, t),
         NEW k \in DOMAIN waiters, waiters[k] = c, waiters' = Without(waiters, k)
  PROVE  QueueOK' /\ waiters' \in Seq(Callers)
<1> DEFINE at(j) == IF j < k THEN j ELSE j + 1
<1>0. /\ waiters \in Seq(Callers) /\ DOMAIN waiters = 1..Len(waiters) /\ Len(waiters) \in Nat
      /\ k \in 1..Len(waiters)
  BY DEF MirrorTyped
<1>1. \A j \in 1..(Len(waiters) - 1) : at(j) \in DOMAIN waiters /\ at(j) # k
  BY <1>0
<1>2. /\ DOMAIN waiters' = 1..(Len(waiters) - 1)
      /\ \A j \in 1..(Len(waiters) - 1) : waiters'[j] = waiters[at(j)]
  BY DEF Without
<1>3. \A i, j \in 1..(Len(waiters) - 1) : at(i) = at(j) => i = j
  BY <1>0
<1> HIDE DEF at
<1>4. \A j \in DOMAIN waiters' : waiters'[j] \in Callers /\ waiters'[j] # c
  BY <1>0, <1>1, <1>2 DEF QueueOK
<1>5. waiters' \in Seq(Callers)
  BY <1>0, <1>2, <1>4 DEF Without
<1>6. \A d \in Callers : d # c => task'[d] = task[d]
  BY Becomes
<1>7. \A j \in DOMAIN waiters' : task'[waiters'[j]].phase = "waiting"
  BY <1>1, <1>2, <1>4, <1>6 DEF QueueOK
<1>8. \A i, j \in DOMAIN waiters' : waiters'[i] = waiters'[j] => i = j
  BY <1>1, <1>2, <1>3 DEF QueueOK
<1> QED BY <1>5, <1>7, <1>8 DEF QueueOK
-----------------------------------------------------------------------------
(* What a caller sees.                                                     *)

InWork == {"waiting", "fetching", "reading"}
Replies == [c \in Callers |-> Answered(task[c])]

(* How a task answers.                                                     *)
LEMMA AnswerOf ==
  ASSUME NEW t \in Tasks
  PROVE  /\ t.phase \in InWork => Answered(t) = [kind |-> "pending", version |-> 0]
         /\ t.phase = "card" => Answered(t) = [kind |-> "card", version |-> t.version]
         /\ t.phase = "none" => Answered(t) = [kind |-> "none", version |-> 0]
         /\ t.phase = "error" => Answered(t) = [kind |-> "error", version |-> 0]
         /\ t.phase \notin InWork => Answered(t) # [kind |-> "pending", version |-> 0]
<1>1. t.phase \in {"none", "error", "card", "waiting", "fetching", "reading"}
  BY DEF Tasks
<1>2. t.phase \in InWork => Answered(t) = [kind |-> "pending", version |-> 0]
  BY DEF InWork, Answered
<1>3. t.phase = "card" => Answered(t) = [kind |-> "card", version |-> t.version]
  BY DEF Answered
<1>4. t.phase = "none" => Answered(t) = [kind |-> "none", version |-> 0]
  BY DEF Answered
<1>5. t.phase = "error" => Answered(t) = [kind |-> "error", version |-> 0]
  BY DEF Answered
<1>6. ASSUME t.phase \notin InWork PROVE Answered(t).kind # "pending"
  BY <1>1, <1>3, <1>4, <1>5, <1>6 DEF InWork
<1> QED BY <1>2, <1>3, <1>4, <1>5, <1>6

(* One caller's answer changes.                                            *)
LEMMA RepliesStep ==
  ASSUME MirrorTyped, NEW c \in Callers, NEW t \in Tasks, Become(c, t)
  PROVE  Replies' = [Replies EXCEPT ![c] = Answered(t)]
<1>1. \A d \in Callers : task'[d] = IF d = c THEN t ELSE task[d]
  BY Becomes
<1>2. Replies' = [d \in Callers |-> Answered(task'[d])]
  BY DEF Replies
<1>3. \A d \in Callers : Answered(task'[d]) = IF d = c THEN Answered(t) ELSE Answered(task[d])
  BY <1>1
<1> QED BY ZenonT(30), <1>2, <1>3 DEF Replies

(* Serving a version that is public, current since t and no older than the *)
(* snapshot is what the promise allows.                                    *)
LEMMA PromiseServes ==
  ASSUME MirrorInv, NEW c \in Callers, NEW v \in Nat, NEW t \in Int, Become(c, Served(v)),
         cached'.version = v, cached.version <= v, Publishable(v), CurrentSince(v, t),
         clock <= t + (IF Ttl > FetchTimeout THEN Ttl - 1 ELSE FetchTimeout),
         UNCHANGED <<clock, until>>
  PROVE  Promise!Next
<1>1. Replies' = [Replies EXCEPT ![c] = [kind |-> "card", version |-> v]]
  BY TaskTypes, RepliesStep, AnswerOf DEF MirrorInv
<1>2. v \in 1..Latest /\ v \in 1..Len(CardOf) /\ clock \in Nat /\ until \in Seq(Nat)
  BY MirrorAssumption DEF CurrentSince, MirrorInv, MirrorTyped, Latest
<1>3. Promise!Recent(v)
  <2>1. v = Latest \/ (v \in DOMAIN until /\ until[v] \in Nat /\ until[v] >= t)
    BY <1>2 DEF CurrentSince, Latest
  <2> QED BY <1>2, <2>1, MirrorAssumption DEF Promise!Recent, Promise!Latest, Latest
<1>4. v \in {w \in 1..Len(CardOf) : Publishable(w)}
  BY <1>2
<1>5. Promise!Serve(c, v)
  BY <1>1, <1>3, <1>4 DEF Promise!Serve, Promise!Answer, Replies
<1>6. v \in 1..Promise!Latest
  BY <1>2 DEF Promise!Latest, Latest
<1> QED BY <1>5, <1>6 DEF Promise!Next

(* A caller in work gets an error or goes away.                            *)
LEMMA PromiseRefuses ==
  ASSUME MirrorInv, NEW c \in Callers, task[c].phase \in InWork,
         Become(c, Errored) \/ Become(c, Away), UNCHANGED <<clock, until, cached>>
  PROVE  Promise!Next
<1>1. task[c] \in Tasks
  BY DEF MirrorInv, MirrorTyped
<1>2. Replies[c] = [kind |-> "pending", version |-> 0]
  BY <1>1, AnswerOf DEF Replies
<1>3. CASE Become(c, Errored)
  <2>1. Replies' = [Replies EXCEPT ![c] = [kind |-> "error", version |-> 0]]
    BY <1>3, TaskTypes, RepliesStep, AnswerOf DEF MirrorInv
  <2>2. Promise!Refuse(c, Promise!Failed)
    BY <1>2, <2>1 DEF Promise!Refuse, Promise!Failed, Promise!Pending, Promise!Answer, Replies
  <2> QED BY <2>2 DEF Promise!Next
<1>4. CASE Become(c, Away)
  <2>1. Replies' = [Replies EXCEPT ![c] = [kind |-> "none", version |-> 0]]
    BY <1>4, TaskTypes, RepliesStep, AnswerOf DEF MirrorInv
  <2>2. Promise!Refuse(c, Promise!NoAnswer)
    BY <1>2, <2>1 DEF Promise!Refuse, Promise!NoAnswer, Promise!Pending, Promise!Answer, Replies
  <2> QED BY <2>2 DEF Promise!Next
<1> QED BY <1>3, <1>4

(* A caller asks, or is in work and stays so.                              *)
LEMMA PromiseAsks ==
  ASSUME MirrorInv, NEW c \in Callers, NEW t \in Tasks, t.phase \in InWork, Become(c, t),
         UNCHANGED <<clock, until, cached>>
  PROVE  [Promise!Next]_(Promise!vars)
<1>1. task[c] \in Tasks
  BY DEF MirrorInv, MirrorTyped
<1>2. Replies' = [Replies EXCEPT ![c] = [kind |-> "pending", version |-> 0]]
  BY RepliesStep, AnswerOf DEF MirrorInv
<1>3. CASE task[c].phase \in InWork
  <2>1. Replies[c] = [kind |-> "pending", version |-> 0]
    BY <1>1, <1>3, AnswerOf DEF Replies
  <2>2. Replies' = Replies
    BY ZenonT(30), <1>2, <2>1 DEF Replies
  <2> QED BY <2>2 DEF Promise!vars, Replies
<1>4. CASE task[c].phase \notin InWork
  <2>1. Replies[c] # [kind |-> "pending", version |-> 0]
    BY <1>1, <1>4, AnswerOf DEF Replies
  <2>2. Promise!Ask(c)
    BY <1>2, <2>1 DEF Promise!Ask, Promise!Pending, Promise!Answer, Replies
  <2> QED BY <2>2 DEF Promise!Next
<1> QED BY <1>3, <1>4
-----------------------------------------------------------------------------
(* The steps.                                                              *)

Kept == MirrorInv' /\ [Promise!Next]_(Promise!vars)

(* A task that ends up without the lock.                                   *)
LEMMA WithoutLock ==
  ASSUME MirrorInv, NEW c \in Callers, NEW t \in Tasks, Become(c, t),
         t.phase \notin {"fetching", "reading"}, UNCHANGED <<clock, until, cached>>,
         QueueOK', waiters' \in Seq(Callers)
  PROVE  MirrorInv'
<1> USE DEF MirrorInv
<1>1. /\ task' \in [Callers -> Tasks] /\ task'[c] = t
      /\ \A d \in Callers : d # c => task'[d] = task[d]
  BY Becomes
<1>2. MirrorTyped'
  BY <1>1 DEF MirrorTyped, Latest
<1>3. \A d \in Callers : Fetching(d)' => Fetching(d) /\ task'[d] = task[d]
  BY <1>1 DEF Fetching
<1>4. FetchOK'
  BY <1>3 DEF FetchOK, Fetching, CurrentSince, Latest
<1>5. SnapshotOK'
  BY DEF SnapshotOK, CurrentSince, Latest
<1> QED BY <1>2, <1>4, <1>5

(* A valid snapshot is answered.                                           *)
LEMMA FromCache ==
  ASSUME MirrorInv, NEW c \in Callers, Valid, Become(c, Served(cached.version)),
         UNCHANGED <<clock, until, cached>>, QueueOK', waiters' \in Seq(Callers)
  PROVE  Kept
<1> DEFINE v == cached.version
           t == cached.expires - Ttl
<1>1. v \in Nat /\ v # 0 /\ clock < cached.expires /\ cached.expires \in Nat /\ clock \in Nat
  BY DEF Valid, MirrorInv, MirrorTyped
<1>2. MirrorInv'
  BY <1>1, TaskTypes, WithoutLock
<1>3. t \in Int /\ CurrentSince(v, t) /\ Publishable(v)
  BY <1>1, MirrorAssumption DEF MirrorInv, SnapshotOK
<1>4. clock <= t + (IF Ttl > FetchTimeout THEN Ttl - 1 ELSE FetchTimeout)
  BY <1>1, MirrorAssumption
<1>5. cached'.version = v /\ cached.version <= v
  BY <1>1
<1> HIDE DEF v, t
<1>6. Promise!Next
  BY <1>1, <1>3, <1>4, <1>5, PromiseServes DEF v
<1> QED BY <1>2, <1>6 DEF Kept

(* A task with the lock starts to fetch.                                   *)
LEMMA Starts ==
  ASSUME MirrorInv, NEW c \in Callers, ~ Valid, ~ Locked, Refresh(c),
         UNCHANGED <<clock, until, cached>>, QueueOK', waiters' \in Seq(Callers)
  PROVE  Kept
<1> USE DEF MirrorInv
<1>0. PICK t \in Tasks : t.phase = "fetching" /\ t.started = clock /\ Become(c, t)
  BY TaskTypes DEF Refresh, MirrorTyped
<1>1. /\ task' \in [Callers -> Tasks] /\ task'[c] = t
      /\ \A d \in Callers : d # c => task'[d] = task[d]
  BY <1>0, Becomes
<1>2. MirrorTyped'
  BY <1>1 DEF MirrorTyped, Latest
<1>3. \A d \in Callers : ~ Fetching(d)
  BY DEF Locked, Holders, Fetching
<1>4. \A d \in Callers : Fetching(d)' => d = c
  BY <1>1, <1>3 DEF Fetching
<1>5. cached.expires <= clock /\ clock \in Nat
  BY DEF Valid, SnapshotOK, MirrorTyped
<1>6. FetchOK'
  BY <1>0, <1>1, <1>4, <1>5, MirrorAssumption DEF FetchOK, Fetching
<1>7. SnapshotOK'
  BY DEF SnapshotOK, CurrentSince, Latest
<1>8. [Promise!Next]_(Promise!vars)
  BY <1>0, PromiseAsks DEF InWork
<1> QED BY <1>2, <1>6, <1>7, <1>8 DEF Kept

(* public_card, before and after the lock.                                 *)
LEMMA AskKeeps ==
  ASSUME MirrorInv, NEW c \in Callers, Ask(c)
  PROVE  Kept
<1>0. task[c].phase # "waiting" /\ UNCHANGED <<clock, until, cached>>
  BY DEF Ask
<1>1. MirrorTyped /\ QueueOK /\ cached.version \in Nat /\ clock \in Nat
  BY DEF MirrorInv, MirrorTyped
<1>2. CASE Valid /\ Become(c, Served(cached.version)) /\ UNCHANGED waiters
  <2>1. QueueOK' /\ waiters' \in Seq(Callers)
    BY <1>0, <1>1, <1>2, TaskTypes, QueueStands
  <2> QED BY <1>0, <1>2, <2>1, FromCache
<1>3. CASE ~ Valid /\ ~ Locked /\ Refresh(c) /\ UNCHANGED waiters
  <2>1. QueueOK' /\ waiters' \in Seq(Callers)
    BY <1>0, <1>1, <1>3, TaskTypes, QueueStands DEF Refresh
  <2> QED BY <1>0, <1>3, <2>1, Starts
<1>4. CASE Become(c, Waiting) /\ waiters' = Append(waiters, c)
  <2>1. QueueOK' /\ waiters' \in Seq(Callers)
    BY <1>0, <1>1, <1>4, QueueGrows
  <2>2. MirrorInv'
    BY <1>0, <1>4, <2>1, TaskTypes, WithoutLock
  <2>3. [Promise!Next]_(Promise!vars)
    BY <1>0, <1>4, TaskTypes, PromiseAsks DEF InWork
  <2> QED BY <2>2, <2>3 DEF Kept
<1> QED BY <1>2, <1>3, <1>4 DEF Ask, WithLock

(* The lock goes to the first in the queue.                                *)
LEMMA TakeLockKeeps ==
  ASSUME MirrorInv, NEW c \in Callers, TakeLock(c)
  PROVE  Kept
<1>0. /\ UNCHANGED <<clock, until, cached>> /\ ~ Locked
      /\ waiters # << >> /\ c = Head(waiters) /\ waiters' = Tail(waiters)
  BY DEF TakeLock
<1>1. MirrorTyped /\ QueueOK /\ cached.version \in Nat /\ clock \in Nat
  BY DEF MirrorInv, MirrorTyped
<1>2. CASE Valid /\ Become(c, Served(cached.version))
  <2>1. QueueOK' /\ waiters' \in Seq(Callers)
    BY <1>0, <1>1, <1>2, TaskTypes, QueueShrinks
  <2> QED BY <1>0, <1>2, <2>1, FromCache
<1>3. CASE ~ Valid /\ Refresh(c)
  <2>1. QueueOK' /\ waiters' \in Seq(Callers)
    BY <1>0, <1>1, <1>3, TaskTypes, QueueShrinks DEF Refresh
  <2> QED BY <1>0, <1>3, <2>1, Starts
<1> QED BY <1>2, <1>3 DEF TakeLock, WithLock

(* A fetch fails, or its caller is cancelled.                              *)
LEMMA EndsKeep ==
  ASSUME MirrorInv, NEW c \in Callers, FetchFailed(c) \/ Cancelled(c)
  PROVE  Kept
<1>0. UNCHANGED <<clock, until, cached>> /\ task[c].phase \in InWork
  BY DEF FetchFailed, Cancelled, Holders, InWork
<1>1. MirrorTyped /\ QueueOK
  BY DEF MirrorInv
<1>2. ASSUME NEW s \in {Errored, Away}, Become(c, s), c \in Holders, UNCHANGED waiters
      PROVE  MirrorInv'
  <2>1. s \in Tasks /\ s.phase \notin {"fetching", "reading"} /\ task[c].phase # "waiting"
    BY <1>2, TaskTypes DEF Holders
  <2>2. QueueOK' /\ waiters' \in Seq(Callers)
    BY <1>1, <1>2, <2>1, QueueStands
  <2> QED BY <1>0, <1>2, <2>1, <2>2, WithoutLock
<1>3. ASSUME NEW k \in DOMAIN waiters, Become(c, Away), waiters[k] = c,
             waiters' = Without(waiters, k)
      PROVE  MirrorInv'
  <2>1. QueueOK' /\ waiters' \in Seq(Callers)
    BY <1>1, <1>3, TaskTypes, QueueLoses
  <2> QED BY <1>0, <1>3, <2>1, TaskTypes, WithoutLock
<1>4. MirrorInv'
  BY <1>2, <1>3 DEF FetchFailed, Cancelled
<1>5. Promise!Next
  BY <1>0, PromiseRefuses DEF FetchFailed, Cancelled
<1> QED BY <1>4, <1>5 DEF Kept

(* A fetch goes on: the next hop, or the response has begun.               *)
LEMMA GoesOn ==
  ASSUME MirrorInv, NEW c \in Callers, NEW t \in Tasks, Become(c, t),
         task[c].phase = "fetching", t.started = task[c].started,
         \/ t.phase = "fetching"
         \/ t.phase = "reading" /\ t.version = Latest,
         UNCHANGED <<clock, until, cached, waiters>>
  PROVE  Kept
<1> USE DEF MirrorInv
<1>1. /\ task' \in [Callers -> Tasks] /\ task'[c] = t
      /\ \A d \in Callers : d # c => task'[d] = task[d]
  BY Becomes
<1>2. MirrorTyped'
  BY <1>1 DEF MirrorTyped, Latest
<1>3. QueueOK'
  BY QueueStands
<1>4. \A d \in Callers : /\ Fetching(d)' = Fetching(d)
                         /\ task'[d].started = task[d].started
  BY <1>1 DEF Fetching
<1>5. Latest \in Nat \ {0} /\ cached.version \in Nat /\ cached.version <= Latest
  BY DEF Latest, MirrorTyped, SnapshotOK, CurrentSince
<1>6. FetchOK'
  <2>1. \A d \in Callers : task'[d].phase = "reading" =>
          (CurrentSince(task[d].version, task[d].started))' /\ cached'.version <= task'[d].version
    BY <1>1, <1>5 DEF FetchOK, CurrentSince, Latest
  <2> QED BY <1>4, <2>1 DEF FetchOK
<1>7. SnapshotOK'
  BY DEF SnapshotOK, CurrentSince, Latest
<1>8. [Promise!Next]_(Promise!vars)
  BY PromiseAsks DEF InWork
<1> QED BY <1>2, <1>3, <1>6, <1>7, <1>8 DEF Kept

LEMMA FetchKeeps ==
  ASSUME MirrorInv, NEW c \in Callers, Redirected(c) \/ Responded(c)
  PROVE  Kept
<1>0. /\ task[c].phase = "fetching" /\ task[c] \in Tasks
      /\ UNCHANGED <<clock, until, cached, waiters>>
  BY DEF Redirected, Responded, MirrorInv, MirrorTyped
<1>1. Latest \in Nat
  BY DEF MirrorInv, MirrorTyped, Latest
<1>2. CASE Become(c, [task[c] EXCEPT !.hops = @ + 1])
  <2> DEFINE t == [task[c] EXCEPT !.hops = @ + 1]
  <2>1. t \in Tasks /\ t.phase = "fetching" /\ t.started = task[c].started
    BY <1>0 DEF Tasks
  <2> QED BY ZenonT(30), <1>0, <1>2, <2>1, GoesOn
<1>3. CASE Become(c, [task[c] EXCEPT !.phase = "reading", !.version = Latest])
  <2> DEFINE t == [task[c] EXCEPT !.phase = "reading", !.version = Latest]
  <2>1. /\ t \in Tasks /\ t.phase = "reading" /\ t.version = Latest
        /\ t.started = task[c].started
    BY ZenonT(30), <1>0, <1>1 DEF Tasks
  <2> QED BY ZenonT(30), <1>0, <1>3, <2>1, GoesOn
<1>4. CASE Become(c, Errored)
  <2>1. FetchFailed(c)
    BY <1>0, <1>4 DEF FetchFailed, Holders
  <2> QED BY <2>1, EndsKeep
<1> QED BY <1>2, <1>3, <1>4 DEF Redirected, Responded

(* The response is parsed: published with the expiry the fetch's start     *)
(* gives it, or refused.                                                   *)
LEMMA StoreKeeps ==
  ASSUME MirrorInv, NEW c \in Callers, Store(c)
  PROVE  Kept
<1> USE DEF MirrorInv
<1>1. CASE Become(c, Errored) /\ UNCHANGED cached
  <2>1. FetchFailed(c)
    BY <1>1 DEF Store, FetchFailed, Holders
  <2> QED BY <2>1, EndsKeep
<1>2. CASE ~ (Become(c, Errored) /\ UNCHANGED cached)
  <2>0. PICK v, s : v = task[c].version /\ s = task[c].started
    OBVIOUS
  <2>1. /\ Publishable(v) /\ Become(c, Served(v)) /\ UNCHANGED <<clock, until, waiters>>
        /\ cached' = [version |-> v, expires |-> s + Ttl] /\ task[c].phase = "reading"
    BY <1>2, <2>0 DEF Store
  <2>2. v \in Nat /\ s \in Nat /\ clock \in Nat /\ cached.version \in Nat
    BY <2>0 DEF MirrorTyped, Tasks
  <2>3. /\ CurrentSince(v, s) /\ cached.version <= v
        /\ s <= clock /\ clock <= s + FetchTimeout
    BY <2>0, <2>1 DEF FetchOK, Fetching
  <2>4. Promise!Next
    <3>1. clock <= s + (IF Ttl > FetchTimeout THEN Ttl - 1 ELSE FetchTimeout)
      BY <2>2, <2>3, MirrorAssumption
    <3>2. cached'.version = v
      BY <2>1
    <3> QED BY <2>1, <2>2, <2>3, <3>1, <3>2, PromiseServes
  <2>5. /\ task' \in [Callers -> Tasks] /\ task'[c] = Served(v)
        /\ \A d \in Callers : d # c => task'[d] = task[d]
    BY <2>1, <2>2, TaskTypes, Becomes
  <2>6. MirrorTyped'
    BY <2>1, <2>2, <2>5, MirrorAssumption DEF MirrorTyped, Latest
  <2>7. QueueOK'
    BY <2>1, <2>2, TaskTypes, QueueStands
  <2>8. \A d \in Callers : ~ Fetching(d)'
    BY <2>1, <2>2, <2>5, TaskTypes DEF Fetching, FetchOK
  <2>9. FetchOK'
    BY <2>8 DEF FetchOK, Fetching
  <2>10. SnapshotOK'
    <3>1. v # 0
      BY <2>2, <2>3 DEF CurrentSince
    <3>2. CurrentSince(v, s + Ttl - Ttl)'
      BY <2>1, <2>2, <2>3, MirrorAssumption DEF CurrentSince, Latest
    <3> QED BY <2>1, <2>2, <2>3, <3>1, <3>2, MirrorAssumption DEF SnapshotOK, CurrentSince, Latest
  <2> QED BY <2>4, <2>6, <2>7, <2>9, <2>10 DEF Kept
<1> QED BY <1>1, <1>2

(* Time passes; the upstream's card is replaced.                           *)
LEMMA TickKeeps ==
  ASSUME MirrorInv, Tick
  PROVE  Kept
<1> USE DEF MirrorInv, Tick
<1>1. MirrorTyped' /\ QueueOK'
  BY DEF MirrorTyped, QueueOK, Latest
<1>2. \A c \in Callers : Fetching(c)' = Fetching(c)
  BY DEF Fetching
<1>3. \A c \in Callers : Fetching(c) => clock' <= task[c].started + FetchTimeout
  BY MirrorAssumption DEF Fetching, Holders, MirrorTyped, Tasks
<1>4. FetchOK'
  BY <1>2, <1>3 DEF FetchOK, MirrorTyped, Tasks, CurrentSince, Latest
<1>5. SnapshotOK'
  BY MirrorAssumption DEF SnapshotOK, CurrentSince, Latest, MirrorTyped
<1>6. Promise!Time
  BY DEF Promise!Time
<1> QED BY <1>1, <1>4, <1>5, <1>6 DEF Kept, Promise!Next

LEMMA UpstreamKeeps ==
  ASSUME MirrorInv, UpstreamChanges
  PROVE  Kept
<1> USE DEF MirrorInv
<1>0. /\ Latest < Len(CardOf) /\ until' = Append(until, clock)
      /\ UNCHANGED <<clock, cached, waiters, task>>
  BY DEF UpstreamChanges
<1>1. until \in Seq(Nat) /\ clock \in Nat /\ Latest' = Latest + 1 /\ Latest \in Nat \ {0}
  BY <1>0 DEF MirrorTyped, Latest
<1>2. MirrorTyped' /\ QueueOK'
  BY <1>0, <1>1, MirrorAssumption DEF MirrorTyped, QueueOK
<1>3. ASSUME NEW v, NEW t \in Int, CurrentSince(v, t), t <= clock
      PROVE  CurrentSince(v, t)'
  <2>1. v \in 1..Latest
    BY <1>3 DEF CurrentSince
  <2>2. until'[v] >= t
    BY <1>0, <1>1, <1>3, <2>1 DEF CurrentSince, Latest
  <2> QED BY <1>1, <2>1, <2>2 DEF CurrentSince
<1>4. FetchOK'
  <2>1. \A c \in Callers : task[c].started \in Int
    BY DEF MirrorTyped, Tasks
  <2>2. \A c \in Callers : task[c].phase = "reading" =>
          CurrentSince(task[c].version, task[c].started)'
    BY <1>0, <1>3, <2>1 DEF FetchOK, Fetching
  <2> QED BY <1>0, <2>2 DEF FetchOK, Fetching
<1>5. SnapshotOK'
  <2>1. cached.version # 0 => CurrentSince(cached.version, cached.expires - Ttl)'
    BY <1>0, <1>1, <1>3, MirrorAssumption DEF SnapshotOK, MirrorTyped
  <2> QED BY <1>0, <2>1 DEF SnapshotOK
<1>6. Promise!Replaced
  BY <1>0 DEF Promise!Replaced
<1> QED BY <1>2, <1>4, <1>5, <1>6 DEF Kept, Promise!Next
-----------------------------------------------------------------------------
(* The theorems.                                                           *)

LEMMA MirrorStarts == GatewayInit => MirrorInv /\ Promise!Init
<1> SUFFICES ASSUME Init PROVE MirrorInv /\ Promise!Init
  BY DEF GatewayInit
<1>1. MirrorTyped
  BY TaskTypes, MirrorAssumption DEF Init, MirrorTyped, Latest
<1>2. QueueOK /\ FetchOK /\ SnapshotOK
  BY TaskTypes DEF Init, QueueOK, FetchOK, Fetching, SnapshotOK
<1>3. \A c \in Callers : Answered(task[c]) = [kind |-> "none", version |-> 0]
  BY TaskTypes, AnswerOf DEF Init
<1>4. Promise!Init
  BY <1>3 DEF Init, Promise!Init, Promise!NoAnswer, Promise!Answer
<1> QED BY <1>1, <1>2, <1>4 DEF MirrorInv

LEMMA MirrorSteps == MirrorInv /\ [GatewayNext]_vars => Kept
<1> SUFFICES ASSUME MirrorInv, [GatewayNext]_vars PROVE Kept
  OBVIOUS
<1>1. CASE MirrorNext
  <2>1. CASE Tick
    BY <2>1, TickKeeps
  <2>2. CASE UpstreamChanges
    BY <2>2, UpstreamKeeps
  <2>3. ASSUME NEW c \in Callers, MirrorStep(c) PROVE Kept
    BY <2>3, AskKeeps, TakeLockKeeps, FetchKeeps, EndsKeep, StoreKeeps DEF MirrorStep
  <2> QED BY <1>1, <2>1, <2>2, <2>3 DEF MirrorNext
<1>2. CASE UNCHANGED mirrorVars
  <2>1. MirrorInv'
    BY <1>2 DEF mirrorVars, MirrorInv, MirrorTyped, QueueOK, FetchOK, Fetching, SnapshotOK,
                CurrentSince, Latest
  <2>2. UNCHANGED Promise!vars
    BY <1>2 DEF mirrorVars, Promise!vars
  <2> QED BY <2>1, <2>2 DEF Kept
<1> QED BY <1>1, <1>2 DEF GatewayNext, vars

(* Whatever the callers, the upstream's cards, the TTL and the timeout,    *)
(* the gateway's mirror does what CardPromise says of GET /agent-card: a   *)
(* served card may be shown in public, was the upstream's card within the  *)
(* horizon, and is never older than one served before.                     *)
THEOREM CardsAsPromisedHolds == Spec => CardsAsPromised
<1>1. MirrorInv /\ [GatewayNext]_vars => MirrorInv' /\ [Promise!Next]_(Promise!vars)
  BY MirrorSteps DEF Kept
<1> QED BY <1>1, MirrorStarts, PTL DEF Spec, CardsAsPromised, Promise!Spec

(* However many callers find the snapshot expired, the double check under  *)
(* _cache_lock lets one of them fetch, and the snapshot is replaced only   *)
(* by a fetch that began after it had expired.                             *)
THEOREM OneRefreshPerTtlHolds == Spec => OneRefreshPerTtl
<1>1. MirrorInv /\ [GatewayNext]_vars => MirrorInv'
  BY MirrorSteps DEF Kept
<1>2. ASSUME MirrorInv, MirrorInv', [GatewayNext]_vars
      PROVE  [/\ cached' # cached =>
                   \A c \in Holders : task[c].started >= cached.expires
              /\ \A c, d \in Callers : c \in Holders' /\ d \in Holders' => c = d]_vars
  <2>1. \A c \in Holders : task[c].started >= cached.expires
    BY <1>2 DEF Holders, MirrorInv, MirrorTyped, Tasks, FetchOK, Fetching
  <2>2. \A c, d \in Callers : c \in Holders' /\ d \in Holders' => c = d
    BY <1>2 DEF Holders, MirrorInv, FetchOK, Fetching
  <2> QED BY <2>1, <2>2
<1> QED BY <1>1, <1>2, MirrorStarts, PTL DEF Spec, OneRefreshPerTtl
=============================================================================
