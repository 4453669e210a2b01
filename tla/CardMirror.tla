----------------------------- MODULE CardMirror -----------------------------
(***************************************************************************)
(* AgentCardMirror of kin_gateway/agent_card.py: a snapshot of the         *)
(* upstream agent's card, filtered for the public, cached for a TTL and    *)
(* refreshed under an asyncio.Lock.  The callers are the tasks that run    *)
(* mirrored_agent_card of app.py.                                          *)
(*                                                                         *)
(* The event loop switches tasks at an await only: at the lock, and in     *)
(* _refresh while the card is being fetched.  The upstream card changes    *)
(* whenever it likes; its version v has the content CardOf[v].             *)
(***************************************************************************)
EXTENDS Integers, Sequences

CONSTANTS Callers,         \* tasks that ask for the card
          CardOf,          \* the versions of the upstream card, in order
          ApprovedSkills,  \* settings.agent_card.approved_skill_ids
          Ttl,             \* settings.agent_card.cache_ttl_seconds
          FetchTimeout,    \* settings.agent_card.fetch_timeout_seconds
          MaxRedirects,    \* settings.agent_card.max_redirects
          MaxClock         \* bound on the time a behaviour covers

ASSUME MirrorAssumption ==
  /\ Ttl \in Nat /\ FetchTimeout \in Nat \ {0}
  /\ MaxRedirects \in Nat /\ MaxClock \in Nat
  /\ Len(CardOf) \in Nat \ {0}

VARIABLES clock,    \* time.monotonic()
          until,    \* when each replaced upstream version was replaced
          cached,   \* _cached and _cache_expires_at
          waiters,  \* the tasks queued at _cache_lock, first come first
          task      \* what each caller is doing

mirrorVars == <<clock, until, cached, waiters, task>>

Latest == Len(until) + 1

Task(phase, started, hops, version) ==
  [phase |-> phase, started |-> started, hops |-> hops, version |-> version]
Waiting == Task("waiting", 0, 0, 0)
Errored == Task("error", 0, 0, 0)
Away == Task("none", 0, 0, 0)
Served(v) == Task("card", 0, 0, v)

Holders == {c \in Callers : task[c].phase \in {"fetching", "reading"}}
Locked == Holders # {}

-----------------------------------------------------------------------------
(* The public card                                                         *)

ImplementedInterfaces == {"JSONRPC 1.0", "HTTP+JSON 1.0"}

PublicForm(card) ==
  [interfaces |-> card.interfaces \cap ImplementedInterfaces,
   skills |-> card.skills \cap ApprovedSkills]

(* _refresh after the fetch: the parts the gateway implements and approves *)
(* are kept, and a card with nothing left, or with a reference to the      *)
(* private origin, is refused.                                             *)
Publishable(v) ==
  LET public == PublicForm(CardOf[v])
  IN  /\ CardOf[v].valid
      /\ public.interfaces # {}
      /\ public.skills # {}
      /\ ~CardOf[v].privateReference

-----------------------------------------------------------------------------
(* public_card                                                             *)

Init ==
  /\ clock = 0
  /\ until = << >>
  /\ cached = [version |-> 0, expires |-> 0]
  /\ waiters = << >>
  /\ task = [c \in Callers |-> Away]

Become(c, t) == task' = [task EXCEPT ![c] = t]

Valid == cached.version # 0 /\ clock < cached.expires

(* With the lock: look at the cache again, then fetch.                     *)
Refresh(c) == Become(c, Task("fetching", clock, 0, 0))

(* Faulty variant: the cache is not looked at again under the lock.        *)
WithLockUnchecked(c) == Refresh(c)

WithLock(c) ==
  \/ Valid /\ Become(c, Served(cached.version))
  \/ ~Valid /\ Refresh(c)

(* The part of public_card before the first await: a valid snapshot is     *)
(* answered at once, otherwise the lock is taken or waited for.            *)
Ask(c) ==
  /\ task[c].phase \notin {"waiting", "fetching", "reading"}
  /\ \/ Valid /\ Become(c, Served(cached.version)) /\ UNCHANGED waiters
     \/ ~Valid /\ ~Locked /\ waiters = << >> /\ WithLock(c) /\ UNCHANGED waiters
     \/ /\ ~Valid /\ (Locked \/ waiters # << >>)
        /\ Become(c, Waiting)
        /\ waiters' = Append(waiters, c)
  /\ UNCHANGED <<clock, until, cached>>

TakeLock(c) ==
  /\ ~Locked
  /\ waiters # << >> /\ c = Head(waiters)
  /\ waiters' = Tail(waiters)
  /\ WithLock(c)
  /\ UNCHANGED <<clock, until, cached>>

-----------------------------------------------------------------------------
(* _refresh                                                                *)

(* Faulty variant: redirects are not counted.                              *)
RedirectedAlways(c) ==
  /\ task[c].phase = "fetching"
  /\ task[c].hops <= MaxRedirects
  /\ Become(c, [task[c] EXCEPT !.hops = @ + 1])
  /\ UNCHANGED <<clock, until, cached, waiters>>

(* _fetch_document follows a same-origin redirect while it may.            *)
Redirected(c) ==
  /\ task[c].phase = "fetching"
  /\ \/ /\ task[c].hops < MaxRedirects
        /\ Become(c, [task[c] EXCEPT !.hops = @ + 1])
     \/ /\ task[c].hops >= MaxRedirects
        /\ Become(c, Errored)
  /\ UNCHANGED <<clock, until, cached, waiters>>

(* The upstream answers with its card of this moment; _bounded_body reads  *)
(* it, which takes time.                                                   *)
Responded(c) ==
  /\ task[c].phase = "fetching"
  /\ Become(c, [task[c] EXCEPT !.phase = "reading", !.version = Latest])
  /\ UNCHANGED <<clock, until, cached, waiters>>

(* Faulty variant: no timeout until the response has begun.                *)
FetchMayHang(c) ==
  /\ task[c].phase = "reading"
  /\ Become(c, Errored)
  /\ UNCHANGED <<clock, until, cached, waiters>>

(* A target that is not allowed, credentials that are missing, an HTTP     *)
(* error, a body too large, or fetch_timeout_seconds gone by: every        *)
(* exception leaves public_card as AgentCardMirrorError and the lock is    *)
(* released; the old snapshot stays.                                       *)
FetchFailed(c) ==
  /\ c \in Holders
  /\ Become(c, Errored)
  /\ UNCHANGED <<clock, until, cached, waiters>>

(* Faulty variant: the TTL is counted from the end of the fetch.           *)
StoreLate(c) ==
  /\ task[c].phase = "reading"
  /\ LET v == task[c].version IN
     \/ /\ Publishable(v)
        /\ cached' = [version |-> v, expires |-> clock + Ttl]
        /\ Become(c, Served(v))
     \/ ~Publishable(v) /\ Become(c, Errored) /\ UNCHANGED cached
  /\ UNCHANGED <<clock, until, waiters>>

(* The body is complete: the snapshot is cached from the time the caller   *)
(* got the lock, and answered; or the card is not fit for the public.      *)
Store(c) ==
  /\ task[c].phase = "reading"
  /\ LET v == task[c].version IN
     \/ /\ Publishable(v)
        /\ cached' = [version |-> v, expires |-> task[c].started + Ttl]
        /\ Become(c, Served(v))
     \/ ~Publishable(v) /\ Become(c, Errored) /\ UNCHANGED cached
  /\ UNCHANGED <<clock, until, waiters>>

Without(seq, i) == [j \in 1..(Len(seq) - 1) |-> IF j < i THEN seq[j] ELSE seq[j + 1]]

(* The caller's task is cancelled: `async with` releases the lock, or the  *)
(* waiter leaves the queue.                                                *)
Cancelled(c) ==
  /\ task[c].phase \in {"waiting", "fetching", "reading"}
  /\ Become(c, Away)
  /\ \/ c \in Holders /\ UNCHANGED waiters
     \/ \E i \in DOMAIN waiters : waiters[i] = c /\ waiters' = Without(waiters, i)
  /\ UNCHANGED <<clock, until, cached>>

-----------------------------------------------------------------------------
(* Time and the upstream                                                   *)

(* asyncio.timeout ends a fetch no later than FetchTimeout after its start.*)
Tick ==
  /\ clock < MaxClock
  /\ \A c \in Holders : clock < task[c].started + FetchTimeout
  /\ clock' = clock + 1
  /\ UNCHANGED <<until, cached, waiters, task>>

UpstreamChanges ==
  /\ Latest < Len(CardOf)
  /\ until' = Append(until, clock)
  /\ UNCHANGED <<clock, cached, waiters, task>>

MirrorStep(c) ==
  \/ Ask(c) \/ TakeLock(c) \/ Redirected(c) \/ Responded(c)
  \/ FetchFailed(c) \/ Store(c) \/ Cancelled(c)

MirrorNext ==
  \/ \E c \in Callers : MirrorStep(c)
  \/ Tick
  \/ UpstreamChanges

(* A task that has the lock runs on, and the lock goes to the next waiter: *)
(* the fetch has a timeout and the event loop runs every ready task.       *)
MirrorFairness ==
  \A c \in Callers :
    WF_mirrorVars(TakeLock(c)) /\ WF_mirrorVars(FetchFailed(c) \/ Store(c))
=============================================================================
