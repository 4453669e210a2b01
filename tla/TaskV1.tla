------------------------------- MODULE TaskV1 -------------------------------
(***************************************************************************)
(* Version 1 tasks: one question asked by one node of another, the         *)
(* messages the two exchange about it, the draft that the agent backend    *)
(* of the receiving node writes for its owner, and the relay mailbox that  *)
(* carries what cannot be delivered directly (kin.node.routes and the ask, *)
(* respond and fetch commands of kin.cli).                                 *)
(*                                                                         *)
(* A process is the command line of a node (named by the node) or a        *)
(* request being handled (a slot).  Every process is at most at one await: *)
(* between two awaits a handler of the node's event loop is not disturbed  *)
(* by the other handlers of that loop, only by the command line, which is  *)
(* another operating system process on the same database.                  *)
(***************************************************************************)
EXTENDS Integers, Sequences, SequencesExt, FiniteSets

CONSTANTS
    Asker, Answerer,     \* the two nodes
    Slots,               \* requests that can be in progress
    PolicyNodes,         \* nodes whose owner changes the policy for the other
    DraftTypes,          \* message types the backends answer with
    MaxTaskMessages,     \* MAX_TASK_MESSAGES
    MaxTasks,            \* tasks the answering node creates
    MaxSends,            \* messages composed, the first question included
    MaxFaults            \* timeouts, stopped processes and expired mail

Nodes == {Asker, Answerer}
Peer(n) == IF n = Asker THEN Answerer ELSE Asker
Procs == Nodes \cup Slots

ASSUME TaskAssumption ==
    /\ Asker # Answerer
    /\ Nodes \cap Slots = {}
    /\ PolicyNodes \subseteq Nodes
    /\ DraftTypes \subseteq {"question", "answer", "proposal"}
    /\ {MaxTaskMessages, MaxTasks, MaxSends, MaxFaults} \subseteq Nat

\* Task identifiers.  Tasks are numbered by the node that creates them; the
\* identifier that ask makes up for a task it queues is QueuedId.
NoTask == 0
QueuedId == MaxTasks + 1

Closed == {"completed", "failed"}
Statuses == {"submitted", "working", "input-required", "queued-relay"} \cup Closed
Types == {"question", "answer", "proposal", "finalize_proposal", "finalize_accept"}

VARIABLES
    rows,       \* tasks and messages tables: task id -> row, for each node
    level,      \* contacts.autonomy_level of the other node
    verified,   \* contacts.fingerprint_verified_at of the other node is set
    serving,    \* the node's server runs and can be reached
    mailbox,    \* the relay's mailbox of each node, oldest message first
    processed,  \* processed_relay_messages
    proc,       \* the processes
    log,        \* what became of each message (not part of the system)
    sends,      \* messages composed
    faults,     \* faults so far
    stopped     \* the server of a node has been stopped while at work

vars == <<rows, level, verified, serving, mailbox, processed, proc, log,
          sends, faults, stopped>>

\* A request as it travels: kind is the route, path the task named in it,
\* ref the identifier the asking node knows the task by, when it is carried.
Mail(kind, path, ref, type) ==
    [kind |-> kind, path |-> path, ref |-> ref, type |-> type, id |-> sends + 1]
NoMail == [kind |-> "none", path |-> NoTask, ref |-> NoTask, type |-> "none", id |-> 0]

NoReply == [status |-> "none", task |-> NoTask]
Reply(status, task) == [status |-> status, task |-> task]
Refused == Reply("refused", NoTask)        \* an HTTP error status
Broken == Reply("broken", NoTask)          \* httpx.RequestError

\* Faulty variant: an error status counts as accepted.
AcceptedAny(r) == r # NoReply

\* The status of an answered task: 200.
Accepted(r) == r.status \in Statuses

\* pc: where the process is; job: the command, or how the request came in;
\* env: the request being handled; out: the request being sent, and on and
\* reply the request handler that was called and its answer.
Idle(n) == [pc |-> "idle", job |-> "none", node |-> n, task |-> NoTask,
            env |-> NoMail, out |-> NoMail, on |-> {}, reply |-> NoReply,
            inbox |-> <<>>, level |-> "always_ask", since |-> FALSE]

NewRow(status, origin, messages) ==
    [status |-> status, draft |-> "none", origin |-> origin, peer |-> NoTask,
     received |-> messages, own |-> 0]

Init ==
    /\ rows = [n \in Nodes |-> <<>>]
    /\ level = [n \in Nodes |-> "always_ask"]
    /\ verified \in {v \in [Nodes -> BOOLEAN] : v[Asker]}
    /\ serving = [n \in Nodes |-> TRUE]
    /\ mailbox = [n \in Nodes |-> <<>>]
    /\ processed = [n \in Nodes |-> {}]
    /\ proc = [p \in Procs |-> Idle(IF p \in Nodes THEN p ELSE Asker)]
    /\ log = [i \in 1..MaxSends |-> [applied |-> 0, doubts |-> 0, fate |-> "none"]]
    /\ sends = 0
    /\ faults = 0
    /\ stopped = [n \in Nodes |-> FALSE]

Set(n, t, row) == [rows EXCEPT ![n] = (t :> row) @@ @]
Fault == faults < MaxFaults /\ faults' = faults + 1
Doubt(i) == [log EXCEPT ![i].doubts = @ + 1]
Fate(i, f) == [log EXCEPT ![i].fate = f]
Applied(i) == [log EXCEPT ![i].applied = @ + 1]

\* Handlers of one event loop alternate only at their awaits.
LoopFree(s) ==
    \A r \in Slots \ {s} : ~ (/\ proc[r].node = proc[s].node
                              /\ proc[r].job = "http"
                              /\ proc[s].job = "http"
                              /\ proc[r].pc = "checked")

\* The slots are alike: a request takes one that is free.
FreeSlot ==
    LET free == {s \in Slots : proc[s].pc = "idle"}
    IN IF free = {} THEN {} ELSE {CHOOSE s \in free : TRUE}

\* The process that waits for slot s receives r; the slot is free again.
Answer(s, r) ==
    [p \in Procs |-> IF p = s THEN Idle(Asker)
                     ELSE IF s \in proc[p].on
                          THEN [proc[p] EXCEPT !.reply = r, !.on = {}]
                          ELSE proc[p]]
-----------------------------------------------------------------------------
(* Handling a request: process_create_task and process_send_message.       *)

\* process_create_task up to its await: the contact must be verified; the task
\* and the goal message are stored in one transaction.  The policy for
\* automatic answers is read here and used after the await.
process_create_task(s) ==
    LET n == proc[s].node
        t == Cardinality(DOMAIN rows[n]) + 1
        e == proc[s].env
    IN /\ proc[s].pc = "arrived" /\ e.kind = "create" /\ LoopFree(s)
       /\ \/ /\ ~ verified[n]
             /\ proc' = Answer(s, Refused)
             /\ UNCHANGED <<rows, log>>
          \/ /\ verified[n] /\ t <= MaxTasks
             /\ rows' = Set(n, t, NewRow("submitted", e.ref, 1))
             /\ log' = Applied(e.id)
             /\ proc' = [proc EXCEPT ![s].pc = "backend", ![s].task = t,
                                     ![s].level = level[n],
                                     ![s].since = level[n] = "auto_relay_info"]
       /\ UNCHANGED <<level, verified, serving, mailbox, processed, sends, faults, stopped>>

\* The task a message is about: the row it names, the row whose peer_task_id it
\* names, or the queued row it refers back to.
Target(n, e) ==
    LET named == {t \in DOMAIN rows[n] : t = e.path \/ rows[n][t].peer = e.path}
    IN IF named # {} THEN CHOOSE t \in named : TRUE
       ELSE IF e.ref # NoTask /\ e.ref \in DOMAIN rows[n] THEN e.ref ELSE NoTask

\* Faulty variant: the path is recorded for a row it names already.
ReconciledAlways(n, t, e) == [rows[n][t] EXCEPT !.peer = e.path]

\* A queued row that a message refers back to learns the peer's id of the task.
Reconciled(n, t, e) ==
    IF t = e.path \/ rows[n][t].peer = e.path THEN rows[n][t]
    ELSE [rows[n][t] EXCEPT !.peer = e.path]

LimitReached(row) == row.received + row.own >= MaxTaskMessages

\* process_send_message up to the count of the messages.  A reference to a
\* queued row is stored before anything is checked.
process_send_message(s) ==
    LET n == proc[s].node
        e == proc[s].env
        t == Target(n, e)
        row == Reconciled(n, t, e)
    IN /\ proc[s].pc = "arrived" /\ e.kind = "message" /\ LoopFree(s)
       /\ \/ /\ t = NoTask
             /\ proc' = Answer(s, Refused)
             /\ UNCHANGED rows
          \/ /\ t # NoTask /\ (row.status \in Closed \/ ~ verified[n])
             /\ rows' = Set(n, t, row)
             /\ proc' = Answer(s, Refused)
          \/ /\ t # NoTask /\ row.status \notin Closed /\ verified[n]
             /\ IF LimitReached(row)
                THEN /\ rows' = Set(n, t, [row EXCEPT !.status = "failed"])
                     /\ proc' = Answer(s, Reply("failed", t))
                ELSE /\ rows' = Set(n, t, row)
                     /\ proc' = [proc EXCEPT ![s].pc = "checked", ![s].task = t]
       /\ log' = IF \E p \in Procs : s \in proc[p].on /\ proc'[p].reply.status = "failed"
                 THEN Applied(e.id) ELSE log
       /\ UNCHANGED <<level, verified, serving, mailbox, processed, sends, faults, stopped>>

\* The message is stored, and with it the status its type gives the task.  An
\* ordinary message leaves the task "working" while the backend drafts.
store_message(s) ==
    LET n == proc[s].node
        t == proc[s].task
        e == proc[s].env
        row == [rows[n][t] EXCEPT !.received = @ + 1]
    IN /\ proc[s].pc = "checked"
       /\ log' = Applied(e.id)
       /\ \/ /\ e.type = "finalize_accept"
             /\ rows' = Set(n, t, [row EXCEPT !.status = "completed", !.draft = "none"])
             /\ proc' = Answer(s, Reply("completed", t))
          \/ /\ e.type = "finalize_proposal"
             /\ rows' = Set(n, t, [row EXCEPT !.status = "input-required",
                                              !.draft = "finalize_proposal"])
             /\ proc' = Answer(s, Reply("input-required", t))
          \/ /\ e.type \notin {"finalize_accept", "finalize_proposal"}
             /\ rows' = Set(n, t, [row EXCEPT !.status = "working"])
             /\ proc' = [proc EXCEPT ![s].pc = "backend",
                                     ![s].since = level[n] = "auto_relay_info"]
       /\ UNCHANGED <<level, verified, serving, mailbox, processed, sends, faults, stopped>>

\* Faulty variant: the owner's policy is not looked at.
MayRelayAny(s, type) ==
    proc[s].env.type = "question" /\ type = "answer"

\* The policy that decides whether an answer may leave without the owner: as
\* read before the await for a new task, as it is now for a message.
MayRelay(s, type) ==
    LET n == proc[s].node
        policy == IF proc[s].env.kind = "create" THEN proc[s].level ELSE level[n]
    IN policy = "auto_relay_info" /\ proc[s].env.type = "question" /\ type = "answer"

\* The backend answers: the draft is stored whatever the row holds by now.
\* auto_relay_information_response composes the answer at once.
DraftReady(s, type) ==
    LET n == proc[s].node
        t == proc[s].task
        row == rows[n][t]
        drafted == [row EXCEPT !.status = "input-required", !.draft = type]
        path == IF row.peer # NoTask THEN row.peer ELSE t
    IN /\ proc[s].pc = "backend" /\ LoopFree(s)
       /\ rows' = Set(n, t, drafted)
       /\ \/ /\ MayRelay(s, type) /\ sends < MaxSends
             /\ sends' = sends + 1
             /\ proc' = [proc EXCEPT ![s].pc = "post",
                                     ![s].out = Mail("message", path, row.origin, "answer")]
          \/ /\ ~ MayRelay(s, type) \/ sends = MaxSends
             /\ proc' = Answer(s, Reply("input-required", t))
             /\ UNCHANGED sends
       /\ UNCHANGED <<level, verified, serving, mailbox, processed, log, faults, stopped>>

\* Faulty variant: the exception of the backend is not caught.
DraftFailedUncaught(s) ==
    /\ proc[s].pc = "backend" /\ LoopFree(s)
    /\ proc' = Answer(s, Refused)
    /\ UNCHANGED <<rows, level, verified, serving, mailbox, processed, log, sends, faults, stopped>>

\* The backend fails; every exception is caught and closes the task.
DraftFailed(s) ==
    LET n == proc[s].node
        t == proc[s].task
    IN /\ proc[s].pc = "backend" /\ LoopFree(s)
       /\ rows' = Set(n, t, [rows[n][t] EXCEPT !.status = "failed"])
       /\ proc' = Answer(s, Reply("failed", t))
       /\ UNCHANGED <<level, verified, serving, mailbox, processed, log, sends, faults, stopped>>

-----------------------------------------------------------------------------
(* Sending a request: common to ask, respond and automatic answers.        *)

\* The request reaches the other node's server, or no connection is made.
Post(p) ==
    LET n == proc[p].node
        m == Peer(n)
    IN /\ proc[p].pc = "post"
       /\ \/ /\ serving[m]
             /\ \E s \in FreeSlot :
                  proc' = [proc EXCEPT ![p].pc = "wait", ![p].on = {s},
                                       ![s] = [Idle(m) EXCEPT !.pc = "arrived",
                                                              !.job = "http",
                                                              !.env = proc[p].out]]
          \/ /\ ~ serving[m]
             /\ proc' = [proc EXCEPT ![p].pc = "wait", ![p].reply = Broken]
       /\ UNCHANGED <<rows, level, verified, serving, mailbox, processed, log, sends, faults, stopped>>

\* httpx gives up waiting; the request goes on where it is.
TimesOut(p) ==
    /\ proc[p].pc = "wait" /\ proc[p].on # {} /\ Fault
    /\ proc' = [proc EXCEPT ![p].on = {}, ![p].reply = Broken]
    /\ log' = Doubt(proc[p].out.id)
    /\ UNCHANGED <<rows, level, verified, serving, mailbox, processed, sends, stopped>>

\* No answer: the same request goes to the relay's mailbox of the other node,
\* or the relay cannot be reached either.  Only ask puts its reference in.
Fallback(p) ==
    LET m == Peer(proc[p].node)
        e == IF proc[p].job = "ask" THEN [proc[p].out EXCEPT !.ref = QueuedId]
             ELSE proc[p].out
    IN /\ proc[p].pc = "wait" /\ proc[p].reply = Broken
       /\ mailbox' = [mailbox EXCEPT ![m] = Append(@, e)]
       /\ proc' = [proc EXCEPT ![p].reply = Reply("queued-relay", QueuedId)]
       /\ log' = Fate(e.id, "queued")
       /\ UNCHANGED <<rows, level, verified, serving, processed, sends, faults, stopped>>

RelayUnreachable(p) ==
    /\ proc[p].pc = "wait" /\ proc[p].reply = Broken /\ Fault
    /\ proc' = [proc EXCEPT ![p].reply = Refused]
    /\ UNCHANGED <<rows, level, verified, serving, mailbox, processed, log, sends, stopped>>

\* The answer is in, from the peer or from the relay.
Answered(p) ==
    proc[p].pc = "wait" /\ proc[p].on = {} /\ proc[p].reply # Broken

\* ask stores the task under the identifier the peer gave it, or under its own
\* when the question is queued; a refusal stores nothing.
AskDone(n) ==
    LET r == proc[n].reply
    IN /\ proc[n].job = "ask" /\ Answered(n)
       /\ rows' = IF Accepted(r) THEN Set(n, r.task, NewRow(r.status, NoTask, 0)) ELSE rows
       /\ proc' = [proc EXCEPT ![n] = Idle(n)]
       /\ UNCHANGED <<level, verified, serving, mailbox, processed, log, sends, faults, stopped>>

\* respond stores its message and the status the peer answered with; an
\* acceptance delivered directly completes the task.  Whatever draft the row
\* holds by now is cleared.
RespondDone(n) ==
    LET r == proc[n].reply
        t == proc[n].task
        status == IF proc[n].out.type = "finalize_accept" /\ r.status # "queued-relay"
                  THEN "completed" ELSE r.status
    IN /\ proc[n].job = "respond" /\ Answered(n)
       /\ rows' = IF Accepted(r)
                  THEN Set(n, t, [rows[n][t] EXCEPT !.status = status, !.draft = "none",
                                                    !.own = @ + 1])
                  ELSE rows
       /\ proc' = [proc EXCEPT ![n] = Idle(n)]
       /\ UNCHANGED <<level, verified, serving, mailbox, processed, log, sends, faults, stopped>>

\* The automatic answer is stored like one of the owner's; when it could not
\* be sent the draft stays for the owner.
RelayedDone(s) ==
    LET n == proc[s].node
        t == proc[s].task
        r == proc[s].reply
    IN /\ Answered(s) /\ LoopFree(s)
       /\ \/ /\ Accepted(r)
             /\ rows' = Set(n, t, [rows[n][t] EXCEPT !.status = r.status, !.draft = "none",
                                                     !.own = @ + 1])
             /\ proc' = Answer(s, Reply(r.status, t))
          \/ /\ ~ Accepted(r)
             /\ proc' = Answer(s, Reply("input-required", t))
             /\ UNCHANGED rows
       /\ UNCHANGED <<level, verified, serving, mailbox, processed, log, sends, faults, stopped>>
-----------------------------------------------------------------------------
(* The owner's commands.                                                   *)

\* ask: one question, put to a verified contact.
Ask(n) ==
    /\ n = Asker /\ proc[n].pc = "idle" /\ sends = 0 /\ verified[n]
    /\ sends' = sends + 1
    /\ proc' = [proc EXCEPT ![n] = [Idle(n) EXCEPT !.job = "ask", !.pc = "post",
                                                   !.out = Mail("create", NoTask, NoTask, "question")]]
    /\ UNCHANGED <<rows, level, verified, serving, mailbox, processed, log, faults, stopped>>

\* respond reads the row and shows the owner its draft.
Respond(n, t) ==
    /\ proc[n].pc = "idle"
    /\ rows[n][t].status = "input-required" /\ rows[n][t].draft # "none"
    /\ proc' = [proc EXCEPT ![n] = [Idle(n) EXCEPT !.job = "respond", !.pc = "prompt", !.task = t,
                                      !.env = [NoMail EXCEPT !.type = rows[n][t].draft,
                                                             !.path = rows[n][t].peer,
                                                             !.ref = rows[n][t].origin]]]
    /\ UNCHANGED <<rows, level, verified, serving, mailbox, processed, log, sends, faults, stopped>>

\* The owner's choice: accept or reject a proposal to finalize, send another
\* draft as it is or edited, or propose to finalize with it.
OwnerChoices(type) ==
    IF type = "finalize_proposal" THEN {"finalize_accept", "proposal"}
    ELSE {type, "finalize_proposal"}

Choose(n, type) ==
    LET seen == proc[n].env
        path == IF seen.path # NoTask THEN seen.path ELSE proc[n].task
    IN /\ proc[n].job = "respond" /\ proc[n].pc = "prompt"
       /\ type \in OwnerChoices(seen.type) /\ sends < MaxSends
       /\ sends' = sends + 1
       /\ proc' = [proc EXCEPT ![n].pc = "post", ![n].out = Mail("message", path, seen.ref, type)]
       /\ UNCHANGED <<rows, level, verified, serving, mailbox, processed, log, faults, stopped>>

\* Cancelled at the prompt, or an invalid choice.
Cancel(n) ==
    /\ proc[n].job = "respond" /\ proc[n].pc = "prompt"
    /\ proc' = [proc EXCEPT ![n] = Idle(n)]
    /\ UNCHANGED <<rows, level, verified, serving, mailbox, processed, log, sends, faults, stopped>>

\* contact-policy, and the verification of the other node's fingerprint.
ContactPolicy(n) ==
    /\ n \in PolicyNodes
    /\ level' = [level EXCEPT ![n] = IF @ = "always_ask" THEN "auto_relay_info" ELSE "always_ask"]
    /\ proc' = [p \in Procs |-> IF proc[p].node = n /\ level'[n] = "auto_relay_info"
                                   /\ proc[p].pc = "backend"
                                THEN [proc[p] EXCEPT !.since = TRUE] ELSE proc[p]]
    /\ UNCHANGED <<rows, verified, serving, mailbox, processed, log, sends, faults, stopped>>

Verify(n) ==
    /\ ~ verified[n]
    /\ verified' = [verified EXCEPT ![n] = TRUE]
    /\ UNCHANGED <<rows, level, serving, mailbox, processed, proc, log, sends, faults, stopped>>
-----------------------------------------------------------------------------
(* fetch: the mailbox is read once; each message is checked against the    *)
(* processed ones, handled in this process, and marked; those marked are   *)
(* acknowledged together at the end.                                       *)

Fetch(n) ==
    /\ proc[n].pc = "idle" /\ mailbox[n] # <<>>
    /\ proc' = [proc EXCEPT ![n] = [Idle(n) EXCEPT !.job = "fetch", !.pc = "next",
                                                   !.inbox = mailbox[n]]]
    /\ UNCHANGED <<rows, level, verified, serving, mailbox, processed, log, sends, faults, stopped>>

\* The received identifiers stay in the process: the position in the inbox is
\* its task field.
Current(n) == proc[n].inbox[proc[n].task + 1]
Advance(n) == [proc EXCEPT ![n].task = @ + 1, ![n].pc = "next", ![n].reply = NoReply]

FetchNext(n) ==
    LET e == Current(n)
    IN /\ proc[n].job = "fetch" /\ proc[n].pc = "next"
       /\ proc[n].task < Len(proc[n].inbox)
       /\ \/ /\ e.id \in processed[n]
             /\ proc' = Advance(n)
             /\ UNCHANGED <<processed, log>>
          \/ /\ e.id \notin processed[n] /\ ~ verified[n]
             /\ processed' = [processed EXCEPT ![n] = @ \cup {e.id}]
             /\ log' = Fate(e.id, "unverified")
             /\ proc' = Advance(n)
          \/ /\ e.id \notin processed[n] /\ verified[n] /\ e.kind = "session"
             /\ processed' = [processed EXCEPT ![n] = @ \cup {e.id}]
             /\ log' = Fate(e.id, "malformed")
             /\ proc' = Advance(n)
          \/ /\ e.id \notin processed[n] /\ verified[n] /\ e.kind # "session"
             /\ \E s \in FreeSlot :
                  proc' = [proc EXCEPT ![n].pc = "handling", ![n].on = {s},
                                       ![s] = [Idle(n) EXCEPT !.pc = "arrived",
                                                              !.job = "fetch", !.env = e]]
             /\ UNCHANGED <<processed, log>>
       /\ UNCHANGED <<rows, level, verified, serving, mailbox, sends, faults, stopped>>

\* Faulty variant: what was handled is not marked.
FetchMarkNone(n) ==
    /\ proc[n].job = "fetch" /\ proc[n].pc = "handling" /\ proc[n].reply # NoReply
    /\ proc' = Advance(n)
    /\ UNCHANGED <<rows, level, verified, serving, mailbox, processed, log, sends, faults, stopped>>

\* Marked only when it was handled with status 200.
FetchMark(n) ==
    /\ proc[n].job = "fetch" /\ proc[n].pc = "handling" /\ proc[n].reply # NoReply
    /\ processed' = [processed EXCEPT ![n] = IF Accepted(proc[n].reply)
                                             THEN @ \cup {Current(n).id} ELSE @]
    /\ proc' = Advance(n)
    /\ UNCHANGED <<rows, level, verified, serving, mailbox, log, sends, faults, stopped>>

\* Faulty variant: all that was received is acknowledged before it is handled.
FetchAckReceived(n) ==
    /\ proc[n].job = "fetch" /\ proc[n].pc = "next"
    /\ mailbox' = [mailbox EXCEPT ![n] = SelectSeq(@, LAMBDA e : ~ Contains(proc[n].inbox, e))]
    /\ proc' = [proc EXCEPT ![n] = Idle(n)]
    /\ UNCHANGED <<rows, level, verified, serving, processed, log, sends, faults, stopped>>

\* The relay deletes what is acknowledged; the acknowledgement may not arrive.
FetchAck(n) ==
    /\ proc[n].job = "fetch" /\ proc[n].pc = "next"
    /\ proc[n].task = Len(proc[n].inbox)
    /\ \/ /\ mailbox' = [mailbox EXCEPT ![n] =
                           SelectSeq(@, LAMBDA e : e.id \notin processed[n]
                                                   \/ ~ Contains(proc[n].inbox, e))]
          /\ UNCHANGED faults
       \/ Fault /\ UNCHANGED mailbox
    /\ proc' = [proc EXCEPT ![n] = Idle(n)]
    /\ UNCHANGED <<rows, level, verified, serving, processed, log, sends, stopped>>
-----------------------------------------------------------------------------
(* The relay, the servers and the sessions that share the mailbox.         *)

\* A session envelope is queued for a node, by the transport of version 1.1.
SessionMail(n) ==
    /\ sends < MaxSends /\ sends > 0
    /\ \A m \in Nodes : \A i \in DOMAIN mailbox[m] : mailbox[m][i].kind # "session"
    /\ sends' = sends + 1
    /\ mailbox' = [mailbox EXCEPT ![n] = Append(@, Mail("session", NoTask, NoTask, "none"))]
    /\ log' = Fate(sends + 1, "queued")
    /\ UNCHANGED <<rows, level, verified, serving, processed, proc, faults, stopped>>

\* The server's background loop takes session envelopes from the mailbox and
\* acknowledges them one by one; it leaves the messages of tasks there.
PollSessions(n) ==
    \E i \in DOMAIN mailbox[n] :
        /\ serving[n] /\ mailbox[n][i].kind = "session"
        /\ mailbox' = [mailbox EXCEPT ![n] = RemoveAt(@, i)]
        /\ log' = Applied(mailbox[n][i].id)
        /\ UNCHANGED <<rows, level, verified, serving, processed, proc, sends, faults, stopped>>

\* Mail is deleted seven days after it was queued.
Expire(n) ==
    /\ mailbox[n] # <<>> /\ Fault
    /\ log' = Fate(Head(mailbox[n]).id, "expired")
    /\ mailbox' = [mailbox EXCEPT ![n] = Tail(@)]
    /\ UNCHANGED <<rows, level, verified, serving, processed, proc, sends, stopped>>

\* The server ends, and with it the requests it was handling.
ServerStops(n) ==
    LET lost == {s \in Slots : proc[s].node = n /\ proc[s].job = "http" /\ proc[s].pc # "idle"}
    IN /\ serving[n] /\ Fault
       /\ serving' = [serving EXCEPT ![n] = FALSE]
       /\ stopped' = [stopped EXCEPT ![n] = @ \/ lost # {}]
       /\ proc' = [p \in Procs |->
                     IF p \in lost THEN Idle(Asker)
                     ELSE IF proc[p].on \cap lost # {}
                          THEN [proc[p] EXCEPT !.on = {}, !.reply = Broken]
                          ELSE proc[p]]
       /\ log' = [i \in DOMAIN log |->
                    IF \E p \in Procs : proc[p].on \cap lost # {} /\ proc[p].out.id = i
                    THEN [log[i] EXCEPT !.doubts = @ + 1] ELSE log[i]]
       /\ UNCHANGED <<rows, level, verified, mailbox, processed, sends>>

ServerStarts(n) ==
    /\ ~ serving[n]
    /\ serving' = [serving EXCEPT ![n] = TRUE]
    /\ UNCHANGED <<rows, level, verified, mailbox, processed, proc, log, sends, faults, stopped>>

\* The command ends between two of its statements, with the handler it runs.
CommandDies(n) ==
    LET lost == {s \in Slots : proc[s].node = n /\ proc[s].job = "fetch"}
    IN /\ proc[n].pc # "idle" /\ Fault
       /\ proc' = [p \in Procs |-> IF p = n THEN Idle(n) ELSE IF p \in lost THEN Idle(Asker) ELSE proc[p]]
       /\ stopped' = [stopped EXCEPT ![n] = @ \/ lost # {}]
       /\ log' = IF proc[n].pc = "handling" THEN Doubt(Current(n).id) ELSE log
       /\ UNCHANGED <<rows, level, verified, serving, mailbox, processed, sends>>
-----------------------------------------------------------------------------
HandlerStep ==
    \E s \in Slots :
        \/ process_create_task(s)
        \/ process_send_message(s)
        \/ store_message(s)
        \/ \E type \in DraftTypes : DraftReady(s, type)
        \/ DraftFailed(s)
        \/ RelayedDone(s)

SendStep ==
    \E p \in Procs :
        \/ Post(p)
        \/ TimesOut(p)
        \/ Fallback(p)
        \/ RelayUnreachable(p)

CommandStep ==
    \E n \in Nodes :
        \/ Ask(n)
        \/ AskDone(n)
        \/ \E t \in DOMAIN rows[n] : Respond(n, t)
        \/ \E type \in Types : Choose(n, type)
        \/ Cancel(n)
        \/ RespondDone(n)
        \/ ContactPolicy(n)
        \/ Verify(n)
        \/ Fetch(n)
        \/ FetchNext(n)
        \/ FetchMark(n)
        \/ FetchAck(n)

WorldStep ==
    \E n \in Nodes :
        \/ SessionMail(n)
        \/ PollSessions(n)
        \/ Expire(n)
        \/ ServerStops(n)
        \/ ServerStarts(n)
        \/ CommandDies(n)

Next == HandlerStep \/ SendStep \/ CommandStep \/ WorldStep

Spec == Init /\ [][Next]_vars
-----------------------------------------------------------------------------
Processes ==
    [pc : {"idle", "arrived", "checked", "backend", "post", "wait", "prompt", "next",
           "handling"},
     job : {"none", "http", "fetch", "ask", "respond"}, node : Nodes, task : Nat,
     env : [kind : {"none", "create", "message", "session"}, path : Nat, ref : Nat,
            type : Types \cup {"none"}, id : Nat],
     out : [kind : {"none", "create", "message"}, path : Nat, ref : Nat,
            type : Types \cup {"none"}, id : 0..MaxSends],
     on : SUBSET Slots,
     reply : [status : Statuses \cup {"none", "refused", "broken"}, task : Nat],
     inbox : Seq([kind : {"create", "message", "session"}, path : Nat, ref : Nat,
                  type : Types \cup {"none"}, id : 1..MaxSends]),
     level : {"always_ask", "auto_relay_info"}, since : BOOLEAN]

TypeOK ==
    /\ \A n \in Nodes : \A t \in DOMAIN rows[n] :
          /\ t \in 1..QueuedId
          /\ rows[n][t].status \in Statuses
          /\ rows[n][t].draft \in Types \cup {"none"}
          /\ {rows[n][t].origin, rows[n][t].peer} \subseteq 0..QueuedId
          /\ {rows[n][t].received, rows[n][t].own} \subseteq Nat
    /\ proc \in [Procs -> Processes]
    /\ sends \in 0..MaxSends /\ faults \in 0..MaxFaults

\* Mail queued for a node waits in its mailbox until the node has applied it,
\* dropped it because its sender was not a verified contact, or it expired
\* (fetch marks a message before the relay is told to delete it, and only one
\* it handled).  Envelopes of sessions are excepted: fetch takes them for
\* malformed tasks.
TaskMailKept ==
    \A i \in 1..sends :
        log[i].fate = "queued" =>
            \/ \E n \in Nodes : \E j \in DOMAIN mailbox[n] : mailbox[n][j].id = i
            \/ log[i].applied > 0

\* A message is applied again only when its sender, or the fetch that handled
\* it, lost sight of the first attempt: a timeout, a broken connection or a
\* command that died before it marked the message.
AppliedOncePerDoubt ==
    \A i \in 1..sends : log[i].applied <= 1 + log[i].doubts

\* A task is "submitted" or "working" only while a handler works on it, unless
\* the process of that handler was stopped: no exception of a backend leaves
\* a task behind.
NoTaskStuck ==
    \A n \in Nodes : \A t \in DOMAIN rows[n] :
        rows[n][t].status \in {"submitted", "working"} =>
            \/ stopped[n]
            \/ \E s \in Slots : /\ proc[s].node = n /\ proc[s].task = t
                                /\ proc[s].pc = "backend"

\* What leaves a node without its owner is the answer to a question, and the
\* owner's policy allowed it at some moment since the question came in.
AutoOnlyInforms ==
    \A s \in Slots :
        proc[s].out # NoMail => /\ proc[s].env.type = "question"
                                /\ proc[s].out.type = "answer"
                                /\ proc[s].since

\* A queued row and the peer's task it was reconciled with refer to each other.
ReconciledIsMutual ==
    \A n \in Nodes : \A t \in DOMAIN rows[n] :
        rows[n][t].peer # NoTask =>
            /\ rows[n][t].peer \in DOMAIN rows[Peer(n)]
            /\ rows[Peer(n)][rows[n][t].peer].origin = t
=============================================================================
