----------------------------- MODULE IngestRace -----------------------------
(***************************************************************************)
(* One node's database under concurrent writers.  The HTTP handler, the    *)
(* background loop, agent turns and CLI commands each hold a SQLite        *)
(* connection of their own, and ingest_envelope is a series of separate    *)
(* SELECTs and committed writes.  Here every one of those statements is a  *)
(* step, so that the steps of several workers interleave; SessionStore's   *)
(* IngestEnvelope is the same operation in one step.                       *)
(*                                                                         *)
(* UNIQUE(session_id, event_order) makes the order of an event its place   *)
(* in the log.                                                             *)
(***************************************************************************)
EXTENDS SessionStore

CONSTANTS Me,           \* the node's owner
          Workers,      \* connections to the database
          Openings,     \* the stored sessions the workers may find
          Mail,         \* envelopes of the peer that may be delivered
          Drafts,       \* own messages: records agent, kind, body
          NodeTargets,  \* targets of node commands
          OwnerActions, \* owner commands
          MaxJobs,      \* bound on the jobs taken up
          NoJob         \* an idle worker

ASSUME WorkersAssumption == Me \in Users /\ MaxJobs \in Nat

VARIABLES store,  \* the stored session
          job,    \* what each worker is doing
          begun   \* jobs taken up so far

vars == <<store, job, begun>>

(* A job: its program counter, the envelope, what has been read, and, for  *)
(* the comparison with the atomic operation, the session it started from   *)
(* and whether any other worker has written since.                         *)
Job(pc) == [pc |-> pc, env |-> NoJob, read |-> NoJob, from |-> NoJob, alone |-> TRUE]

Init ==
  /\ store \in Openings
  /\ job = [w \in Workers |-> NoJob]
  /\ begun = 0

At(w, pc) == job[w] # NoJob /\ job[w].pc = pc
Env(w) == job[w].env

Goto(w, pc) == job' = [job EXCEPT ![w].pc = pc]
Reads(w, pc, r) == job' = [job EXCEPT ![w].pc = pc, ![w].read = r]
Done(w) == Goto(w, "done")
Drop(w) == job' = [job EXCEPT ![w] = NoJob]

(* A committed write: every other job under way has been disturbed.        *)
Disturbed(w, j) == [v \in Workers |->
  IF v = w THEN j
  ELSE IF job[v] = NoJob THEN NoJob
  ELSE [job[v] EXCEPT !.alone = FALSE, !.from = NoJob]]

Writes(w, pc, s) ==
  /\ store' = s
  /\ job' = Disturbed(w, [job[w] EXCEPT !.pc = pc])

-----------------------------------------------------------------------------
(* Taking up a job                                                         *)

Begin(w, j) ==
  /\ job[w] = NoJob
  /\ begun < MaxJobs
  /\ begun' = begun + 1
  /\ job' = [job EXCEPT ![w] = j]
  /\ UNCHANGED store

Deliver(w, e) == Begin(w, [Job("row") EXCEPT !.env = e])
Send(w, draft) == Begin(w, [Job("number") EXCEPT !.read = draft])
NodeCommand(w, target) == Begin(w, [Job("node_read") EXCEPT !.read = target])
OwnerCommand(w, action) == Begin(w, [Job("owner_read") EXCEPT !.read = action])

(* SELECT COALESCE(MAX(sequence), 0) + 1: the number of an own message.    *)
Number(w) ==
  LET d == job[w].read IN
  /\ At(w, "number")
  /\ job' = [job EXCEPT ![w].pc = "row",
       ![w].env = NextEnvelope(Me, store, d.agent, d.kind, d.body)]
  /\ UNCHANGED <<store, begun>>

-----------------------------------------------------------------------------
(* ingest_envelope, statement by statement                                 *)

ReadRow(w) ==
  /\ At(w, "row")
  /\ job' = [job EXCEPT ![w].pc = IF Verified(store, Env(w)) THEN "slot" ELSE "done",
                        ![w].from = store, ![w].alone = TRUE]
  /\ UNCHANGED <<store, begun>>

CheckSlot(w) ==
  /\ At(w, "slot")
  /\ Goto(w, IF CheckSequenceConflict(store.log, Env(w)) = "new"
             THEN "status" ELSE "done")
  /\ UNCHANGED <<store, begun>>

(* reconstruct_session_state: the row, then the sequences, then the turns. *)
ReadStatus(w) ==
  /\ At(w, "status")
  /\ Reads(w, "seqs", ReconstructSessionState(store))
  /\ UNCHANGED <<store, begun>>

ReadSequences(w) ==
  /\ At(w, "seqs")
  /\ Reads(w, "turns", [job[w].read EXCEPT
                          !.seqs = ReconstructSessionState(store).seqs])
  /\ UNCHANGED <<store, begun>>

(* The last read, and the reducer's judgement on what has been read.       *)
Judge(w) ==
  LET st == UnderReview([job[w].read EXCEPT !.turn = CurrentTurn(store.log)], Env(w))
      next == ProcessPeerEnvelope(st, Env(w))
  IN  /\ At(w, "turns")
      /\ IF PeerEnvelopeAdmitted(st, Env(w))
         THEN Reads(w, IF Env(w).kind = "ACCEPTANCE" THEN "agent" ELSE "append",
                    SettledStatus(Me, next.status, Env(w)))
         ELSE Done(w)
      /\ UNCHANGED <<store, begun>>

SetAgent(w) ==
  /\ At(w, "agent")
  /\ Writes(w, "append", [store EXCEPT !.agent[Receiver] = Env(w).body])
  /\ UNCHANGED begun

(* append_session_event checks the slot again; a duplicate found here      *)
(* still goes on to the status.                                            *)
CheckAppend(w) ==
  /\ At(w, "append")
  /\ Goto(w, CASE CheckSequenceConflict(store.log, Env(w)) = "new" -> "order"
               [] CheckSequenceConflict(store.log, Env(w)) = "duplicate" -> "update"
               [] OTHER -> "done")
  /\ UNCHANGED <<store, begun>>

ReadOrder(w) ==
  /\ At(w, "order")
  /\ job' = [job EXCEPT ![w].pc = "insert",
                        ![w].read = [status |-> @, order |-> Len(store.log) + 1]]
  /\ UNCHANGED <<store, begun>>

(* An order taken meanwhile is an IntegrityError.                          *)
Insert(w) ==
  LET r == job[w].read IN
  /\ At(w, "insert")
  /\ IF r.order = Len(store.log) + 1
     THEN /\ store' = [store EXCEPT !.log = Append(@, Env(w))]
          /\ job' = Disturbed(w, [job[w] EXCEPT !.pc = "update", !.read = r.status])
     ELSE Drop(w) /\ UNCHANGED store
  /\ UNCHANGED begun

(* Faulty variant: the new status is not saved.                            *)
StatusForgotten(w) ==
  /\ At(w, "update")
  /\ Done(w)
  /\ UNCHANGED <<store, begun>>

UpdateStatus(w) ==
  /\ At(w, "update")
  /\ Writes(w, "done", [store EXCEPT !.status = job[w].read])
  /\ UNCHANGED begun

Return(w) ==
  /\ At(w, "done")
  /\ Drop(w)
  /\ UNCHANGED <<store, begun>>

-----------------------------------------------------------------------------
(* Commands                                                                *)

(* _apply_node_command_transition reads the status, then writes it.        *)
NodeRead(w) ==
  /\ At(w, "node_read")
  /\ IF IsValidTransition(store.status, job[w].read)
     THEN Goto(w, "node_write") ELSE Drop(w)
  /\ UNCHANGED <<store, begun>>

NodeWrite(w) ==
  /\ At(w, "node_write")
  /\ Writes(w, "done", [store EXCEPT !.status = job[w].read])
  /\ UNCHANGED begun

(* pause_session and resume_session: read, write, then a STATUS_EVENT      *)
(* under the agent that was read.                                          *)
OwnerRead(w) ==
  /\ At(w, "owner_read")
  /\ IF OwnerCommandAllowed(store.status, job[w].read)
     THEN Reads(w, "owner_write",
            [target |-> OwnerCommandTarget[job[w].read],
             draft |-> [agent |-> ReconstructSessionState(store).agent[Me],
                        kind |-> "STATUS_EVENT", body |-> job[w].read]])
     ELSE Drop(w)
  /\ UNCHANGED <<store, begun>>

(* Faulty variant: the command is stored in place of its target.           *)
OwnerWriteCommand(w) ==
  LET r == job[w].read IN
  /\ At(w, "owner_write")
  /\ store' = [store EXCEPT !.status = r.draft.body]
  /\ job' = Disturbed(w, [job[w] EXCEPT !.pc = "number", !.read = r.draft])
  /\ UNCHANGED begun

OwnerWrite(w) ==
  LET r == job[w].read IN
  /\ At(w, "owner_write")
  /\ store' = [store EXCEPT !.status = r.target]
  /\ job' = Disturbed(w, [job[w] EXCEPT !.pc = "number", !.read = r.draft])
  /\ UNCHANGED begun

(* The process dies; what it committed stays.                              *)
Crash(w) ==
  /\ job[w] # NoJob
  /\ Drop(w)
  /\ UNCHANGED <<store, begun>>

Next ==
  \E w \in Workers :
    \/ \E e \in Mail : Deliver(w, e)
    \/ \E draft \in Drafts : Send(w, draft)
    \/ \E target \in NodeTargets : NodeCommand(w, target)
    \/ \E action \in OwnerActions : OwnerCommand(w, action)
    \/ Number(w) \/ ReadRow(w) \/ CheckSlot(w)
    \/ ReadStatus(w) \/ ReadSequences(w) \/ Judge(w)
    \/ SetAgent(w) \/ CheckAppend(w) \/ ReadOrder(w) \/ Insert(w)
    \/ UpdateStatus(w) \/ Return(w)
    \/ NodeRead(w) \/ NodeWrite(w) \/ OwnerRead(w) \/ OwnerWrite(w)
    \/ Crash(w)

Spec == Init /\ [][Next]_vars

-----------------------------------------------------------------------------
(* The stored session and the program counters keep their shape.           *)
TypeOK ==
  /\ store.status \in Statuses
  /\ \A i \in DOMAIN store.log : store.log[i].actor \in Users
  /\ \A w \in Workers : job[w] = NoJob \/ job[w].pc \in
       {"number", "row", "slot", "status", "seqs", "turns", "agent", "append",
        "order", "insert", "update", "done",
        "node_read", "node_write", "owner_read", "owner_write"}
  /\ begun \in 0 .. MaxJobs

(* An ingest_envelope during which no other connection writes has the      *)
(* effect of the one-step IngestEnvelope of SessionStore.                  *)
UndisturbedIsAtomic ==
  \A w \in Workers :
    At(w, "done") /\ job[w].alone /\ job[w].from # NoJob =>
      store = IngestEnvelope(Me, job[w].from, FALSE, Env(w)).sess

(* However the workers interleave or die, no sequence number of an owner   *)
(* is skipped in the stored transcript (OUT_OF_ORDER in the reducer).      *)
NoGaps ==
  \A u \in Users :
    {store.log[i].seq : i \in EventsOf(store.log, u)} = 1 .. LastSequence(store.log, u)

(* KIN-V1.1-MASTER-SPEC.md:847: "terminal states are immutable".           *)
TerminalImmutable ==
  [][store.status \in TerminalStates => store'.status = store.status]_vars
=============================================================================
