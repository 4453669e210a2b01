# KIN: a TLA+ development

KIN connects the agents of people who know each other. Every owner runs a
**node** (`kin-node`), nodes talk to each other directly over HTTP or through an
untrusted **relay** (`kin-relay`), and a small **gateway** (`kin_gateway`) fronts
one upstream A2A agent. This directory holds TLA+ modules translated from that
code, TLC configurations that check them on small instances, and TLAPS proofs of
the main results for every value of the constants.

The core so far is the version 1.1 **session**: two owners, two nodes, one signed
transcript on each side, and everything that can delay, repeat, reorder or lose
the envelopes between them.

## 1. Inventory

| Part | Source | State | Operations | Status |
|---|---|---|---|---|
| Session reducer | `kin/session/{transition_matrix,reducer}.py` | none (pure) | judge an envelope, a node command, an owner command | modelled |
| Envelope ingestion, event log | `kin/transport/v11.py`, `kin/audit/writer.py` | `sessions`, `session_events` | `ingest_envelope`, `append_session_event`, `check_sequence_conflict` | partly |
| Session transport | `kin/transport/v11.py` | `outbound_envelope_queue` | dispatch, respond, send, pause, resume, cancel, `retry_outbound_queue`, `poll_relay_and_process` | partly |
| Turn orchestrator | `kin/session/orchestrator.py` | none of its own | `advance_session_turn`, `tag_in_handoff`, `send_status_nudge` | partly |
| Owner approvals, policy | `kin/policy/*` | `approvals`, policy rows | evaluate, decide, consume, expire | partly |
| Node service | `kin/node/{app,routes}.py` | none of its own | `/v1.1/sessions`, background loop, version 1 task routes | partly |
| Relay | `kin-relay/` | mailboxes, directory | deposit, fetch, acknowledge, purge, register, lookup | partly |
| Owner actions | `kin/tui/local_state.py`, CLI | none of its own | human message and wrappers of the transport | partly |
| Gateway proxy | `kin_gateway/app.py` and others | session records | proxy a request, stream, record | planned |
| Agent card mirror | `kin_gateway/agent_card.py` | cached card | single-flight refresh | planned |
| Version 1 tasks | `kin/node/routes.py` | tasks, messages | create, message, draft, auto-relay | planned |
| Artifacts | `kin/artifacts/` | artifacts, imports | offer, accept, import, patch | planned |
| Agent registry, peer cards | `kin/agent_registry/` | agents, cards | enable, disable, publish, fetch | planned |
| Schema migrations | `kin/storage/migrations.py` | `schema_migrations` | `run_migrations` | planned |
| History, adapters, identity and vault, terminal UI | | | | not modelled |

The exact file lists and the reason for every part left out are in
`PROJECT.json` under `components`.

**How the parts interact.** An owner's command or an agent turn builds the next
envelope of its owner (`MAX(sequence) + 1`), ingests it into the node's *own*
database first, and then posts it to the peer. The peer's handler runs the same
`ingest_envelope`. When the POST fails the caller uploads to the relay, and when
that fails too the envelope goes into the durable queue. Every five seconds a
background loop retries the queue rows that are due and goes through the relay
inbox. Nothing coordinates the two databases except the sequence numbers.

**What is hard about it.**

- A POST is three separate steps: own commit, peer's commit, reaction to the
  reply. The reply, the request or the process can be lost between any two.
- The same envelope may travel by direct call, queue and relay at once, and
  later envelopes may overtake earlier ones.
- Foreground commands, agent turns, HTTP handlers and the background loop each
  use a SQLite connection of their own, and one `ingest_envelope` is a series of
  separate reads and commits.
- An adapter may run for minutes between the checks of a turn and the ingest of
  its message.
- Each node expires sessions by its own clock, and only when an envelope or a
  retry meets the deadline.

`PROJECT.json` lists each hazard at its line under `hazards`, with the properties
that would catch it going wrong, or the planned module that will.

## 2. Modules

| Module | What it is |
|---|---|
| `SessionReducer` | The transition matrix and the reducer, as pure operators |
| `SessionStore` | What a node stores of a session; `ingest_envelope` as a function from a stored session to the next |
| `SessionProtocol` | Two nodes, relay, queues and threads; the safety and liveness properties |
| `IngestRace` | One node's database: every SELECT and committed write of `ingest_envelope` and of the status commands is a step of one of several workers |
| `SessionLemmas` | Lemmas on the operators of the first three modules |
| `SessionSteps` | The inductive invariant; what each kind of step does to the stored sessions |
| `SessionProofs` | The invariant is inductive, and the theorems that follow from it |
| `AcceptanceProofs` | No session starts without the invited owner |
| `MCSession`, `MCIngestRace` | Instances for TLC |

### State and code

| Variable of `SessionProtocol` | In the code |
|---|---|
| `sess[n].status`, `.agent` | the row of `sessions`; `"none"` while there is no row |
| `sess[n].log` | the rows of `session_events` that carry a sequence, in `event_order` |
| `due[n]` | `expires_at` has passed on the node's clock |
| `queue[n]` | `outbound_envelope_queue` |
| `pending[n]` | number of undecided approvals |
| `mailbox[n]` | the relay's mailbox of the user |
| `call[n][t]` | where a thread stands: an owner command (`fg`), an agent turn (`turn`), the background loop (`bg`) |

Actions carry the names of the functions they model (`Dispatch`,
`SendSessionMessage`, `RetryRow`, `PollMessage`, `TurnInvoke`, ...); `map` in
`PROJECT.json` gives the lines of each. `Dispatch`, the sends and the retries stop
at the POST; `PostHandled`, `PostReplyLost` and `PostUnreachable` are its three
outcomes; `PostAccepted`, `PostRejected`, `RelayAccepted` and `RelayUnavailable`
are what the caller does next. `Crash` ends a thread between any two steps and
leaves what it has committed.

Definitions headed "Faulty variant" are not part of the model. They are altered
forms of the definition that follows them, kept to show that the properties notice
the change (`mutants` in `PROJECT.json`).

### Abstractions

- **Payloads** are model values; equal bodies mean equal content hashes.
  Signatures and encryption are ideal, and both users are paired.
- **Ingest is one step** in `SessionProtocol`. `IngestRace` takes it apart, and its
  invariant `UndisturbedIsAtomic` says that an ingest during which no other
  connection writes has exactly the effect of the one-step operator. What
  `SessionProtocol` shows is therefore about ingests that do not overlap on one
  node; overlapping ones are the business of `IngestRace`.
- **Adapters** are a nondeterministic choice among their outcomes: a message, no
  message, a retryable or hard error, a request for approval.
- **Backoff** is left out: any pending row may be the next one due.
- A **5xx** reply counts as a lost reply, which is what the caller does with it.
- The **turn limit** is the same at both nodes: it travels in the invitation.
- The **relay** drops mail after seven days, the lifetime of a session, so not
  before the session of the sender is due.
- **Accept, decline and clarify** are the invited owner's. The checks of
  `dispatch_session` before it writes anything (capabilities, stale card) are the
  action not being taken.
- **Artifact messages** are not among the kinds an agent turn produces yet.
- **Approval expiry** is left out; an undecided approval may stay so for ever.

## 3. Runs

| Run | Checks | Instance |
|---|---|---|
| `handshake` | `TypeOK`, `LogContiguous`, `PeerPrefix`, `Custody`, `DeliveredIsProcessed`, `NeverSilentlyActivated` | from nothing: dispatch, accept, decline, clarify, expiry; two messages an owner, one mail a mailbox; the background loop crashes |
| `control` | `PeerPrefix`, `OutcomeSigned`, `TerminalImmutable` | an accepted session: human messages, tag-in, pause, resume, cancel, expiry; three messages an owner, two mails; calls and background loop crash |
| `turns` | `TurnBound`, `OutcomeSigned`, `LogContiguous`, `TerminalImmutable` | an accepted session: agent turns of both owners, approvals, used-up budgets, resume; turn limit 3, reached |
| `liveness` | `FirstMessageArrives` | dispatch and accept under `FairSpec`; the background loop crashes |
| `race` | `TypeOK`, `UndisturbedIsAtomic`, `NoGaps` | two workers, three jobs, two peer messages, own answer, cancel, acceptance, a node command, pause and resume; crashes |
| `clarification` | violates `FirstMessageArrives` | finding 1 |
| `abandoned` | violates `QueuePreserved` | finding 2 |
| `resume` | violates `ResumeNeedsOwner` | finding 3 |
| `pause` | violates `Custody` | finding 4 |
| `race_terminal` | violates `TerminalImmutable` of `IngestRace` | finding 5 |

**What the passing runs show.** However deliveries are repeated, reordered, lost or
cut short: each owner's events are stored once each, in order, without a gap; what a
node holds of its peer is a prefix of what the peer holds of itself; a committed
handshake envelope is always somewhere until the session closes; a "delivered" row
has been processed by the peer; a finished session stays finished and ends in the
event that ended it; turn limits hold on both transcripts; nothing is under way
before the invited owner has accepted; and the invitation and its acceptance
arrive.

Custody and arrival are shown for crashes of the background loop only. When the
process of an owner's command dies between its own commit and the queueing of the
envelope, nothing sends that envelope again; `control` lets this happen, and shows that
even then the transcripts do not fork.

**Bounds.** Two users, up to two agents on one side and one on the other. Two
messages of one owner are enough for one to overtake another, three for one to
arrive between two others. One mail a mailbox lets mail and direct call carry the
same envelope; with two, mail is polled in an order other than that of its making.
A turn limit of 3 after the invitation leaves two turns, one for each node, or both
for one. `MaxApprovals = 1` and `MaxSequence` are guards of the actions (`HasRoom`),
so a bound stops new messages and never the delivery of one already made. The runs
`control` and `turns` start at `AcceptedInit`, the state a session reaches when an
invitation and its acceptance have been delivered directly, so that their
bounds go to what happens after it. `CHECK_DEADLOCK FALSE` is set because a finished
session, or one that waits for its owners, may rest.

**Fairness** (`Fairness` in `SessionProtocol`). A call in progress goes on, because
every HTTP call has a timeout (weak fairness of `Delivery`). The background loop of
`node/app.py` runs every five seconds for as long as the node runs, and takes up
each due row and the inbox again and again (strong fairness of each row's retry, of
`PollFetch` and of `PollMessage`, because a crash interrupts them). Of infinitely
many POSTs by the loop, one reaches the peer and is answered (strong fairness of
`PostHandled` for `bg`): that is the assumption about the network, and without it no
protocol delivers anything. Owners and agents are never assumed to act.

### Findings

1. `clarification`: when a *retried* invitation is taken by the relay, its row becomes
   `relayed` but the session stays `sent`; from there the peer's clarification or
   decline is an invalid transition and is refused at every delivery.
2. `abandoned`: a queued DECLINE or FINAL_RESULT is abandoned at its first retry,
   because its own ingest has already ended the sender's session.
3. `resume`: a peer's message, or the message of a turn begun before the pause, makes
   a paused session active.
4. `pause`: the STATUS_EVENT of a pause takes a sequence number and is never sent,
   so the owner's later messages are out of order at the peer.
5. `race_terminal`: a CANCEL that commits between another ingest's reads and its
   status UPDATE is overwritten.

Each one is quoted against the document it disagrees with in `PROJECT.json`. Further
differences met while reading, not yet turned into runs: two own messages numbered
at once get the same sequence number, since UNIQUE covers `event_order` only
(KIN-V1.1-MASTER-SPEC.md:876); the invited owner cannot cancel once both agents are
known, because `cancel_session` signs with the sender's agent id (line 429);
a tag-in is announced to the peer but not applied there (line 393); the terminal UI's
pause, resume and cancel pass a keyword the transport functions do not take.

## 4. Proofs

All theorems are about `SessionProtocol!Spec` and hold for every roster, every turn
limit from 1 to 12, every bound and every choice of crashing threads. They use
`UsersAssumption`, `MaxTurnsAssumption`, `RosterAssumption`, `TurnKindsAssumption`
and `BoundsAssumption`, which TLC evaluates in every run of `MCSession`.

| Theorem | States |
|---|---|
| `Inductive` | `Spec => []IInv` |
| `TypeCorrect` | `Spec => []TypeOK` |
| `LogsAreContiguous` | `Spec => []LogContiguous` |
| `TurnsAreBounded` | `Spec => []TurnBound` |
| `OutcomesAreSigned` | `Spec => []OutcomeSigned` |
| `TerminalSessionsAreImmutable` | `Spec => TerminalImmutable` |
| `NoSilentActivation` | `Spec => []NeverSilentlyActivated` |

**The argument.** `TypeOK` is not inductive: nothing in it says that a poll in
progress points into its mailbox, that the payload of an ACCEPTANCE is an agent, or
that a node without a session row has nothing queued, undecided or under way. `IInv`
adds these (`PollInRange`, `HonestEnvelopes`, `NothingBeforeSession`).

`SessionLemmas` reduces every change of a stored session to one relation,
`LegalChange`: the log stays, or grows by one envelope the reducer admitted; a
terminal status and its log stay; an ending is reached only by the event that signs
it; the turn count stays within the limit. `IngestEffect`, `NodeCommandEffect`,
`OwnerCommandEffect`, `OwnerStatusEventEffect` and `AgentChange` show that each
operator makes legal changes only. `SessionSteps` defines `IInv` and lifts these
to a step of the protocol (`SessStep`); `SessionProofs` has one lemma per action for
`SessStep /\ IInv'`, and the theorems follow from `SessStep`.

`NeverSilentlyActivated` relates the *initiator's* status to the *receiver's*
transcript, and needs to know that an acceptance found anywhere (in a call, a queue
row, a mailbox, a transcript) has been recorded by the receiver first. That is
`AcceptanceRecorded`, proved along with it in `AInv`.

`IInv` and `AcceptanceRecorded` were checked with TLC on the instances of
`handshake`, `control` and `turns` before they were proved.

**Only model-checked.** `FirstMessageArrives`: liveness under fairness is out of the
prover's reach. `PeerPrefix`, `Custody` and `DeliveredIsProcessed`: not proved yet;
`DeliveredIsProcessed` needs care, since a repeated envelope is recognised by its
payload alone. Everything about `IngestRace`.

## 5. Plan

Order of the next steps:

1. `Approvals` and policy: `approve_once` read and consumed by two evaluations,
   `decide_approval` with its two commits apart, expiry of approvals; composed with
   the statuses of `SessionReducer`.
2. `TaskV1`: the version 1 task routes around an awaited backend: limits counted before
   a message is added, unconditional updates after the await, drafts and auto-relay.
3. `Gateway`: the life cycle of a proxied request and its stream, its session record
   on every error path and on disconnection; `CardMirror`: the single-flight cache
   against an abstract specification of a cache that never serves an expired card.
4. `Artifacts`: offer, accept and import with a one-time approval; patch application
   as a pure algorithm against a reference definition; ARTIFACT kinds in agent turns.
5. `Migrations`: a crash between a script and its record; `Registry`: published cards
   and the peers' stale copies.
6. An abstract specification of a session (two append-only logs, one a prefix of the
   other on each side) that `SessionProtocol` implements by refinement, with
   `PeerPrefix` proved on the way; `NoGaps` of `IngestRace` proved for any number of
   workers; theorems for the modules of steps 1 to 5.

The new modules need runs of their own; `control` and `turns` can be merged, and the
differences listed after the findings checked, as they come.

**Not modelled.** Session history (append-only records derived from the transcript),
identity and vault (ideal cryptography), adapters (their outcomes are
nondeterministic), rendering and key handling of the terminal UI, the relay's
directory, audit log entries, outcome cards, and everything that only formats or logs.
