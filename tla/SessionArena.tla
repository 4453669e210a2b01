---------------------------- MODULE SessionArena ----------------------------
(***************************************************************************)
(* One session's local record and the Session Arena that shows it.         *)
(*                                                                         *)
(* The record is the table session_events: the ingesting process appends   *)
(* signed messages (and, after a final result, the outcome card), the      *)
(* owner appends private notes, checkpoints and decisions.  The arena      *)
(* (tui/widgets/session_arena.py) loads the newest page and the local      *)
(* history with two queries, loads older pages on demand, and has a        *)
(* polling thread that fetches what is new with two queries and a cursor.  *)
(* Other processes commit between any two queries.                         *)
(*                                                                         *)
(* An event is its event_order (here counted from 1), and a list of events *)
(* is the set of its orders.  The choice of an event_order and its insert  *)
(* are one step (IngestRace is about that window).  audit_events rows, the *)
(* cached groups of the timeline and its layout are left out.              *)
(***************************************************************************)
EXTENDS Integers, Sequences, FiniteSets

CONSTANTS
    PageSize,   \* event_page_size
    MaxLog      \* bound on the events of the session

ASSUME ArenaAssumption == PageSize \in Nat \ {0} /\ MaxLog \in Nat

VARIABLES
    eventLog,   \* session_events of the session, by event_order
    done,       \* the session's status is terminal
    ingest,     \* the ingesting process, between its commits
    arena,      \* the widget: its events, whether older ones remain, the timeline
    main,       \* load_arena_data, between its two queries
    poll,       \* the polling thread and its cursor
    floor,      \* every event from here on belongs to a page that was loaded
    overtaken,  \* committed between two queries of one refresh, below the newer one's result
    skipped,    \* jumped by a page that began below a local record
    slipped     \* records committed between a replay and its outcome card

recordVars == <<eventLog, done, ingest, slipped>>
viewVars == <<arena, main, poll, floor, overtaken, skipped>>
arenaVars == <<recordVars, viewVars>>

\* A checkpoint or a decision of the owner is a record.
EventKinds == {"message", "final", "note", "record", "outcome"}

\* visibility = 'local_only' is what the owner's own entries have.
PeerVisible(k) == k \in {"message", "final"}

SessionEvent(kind, evidence) == [kind |-> kind, evidence |-> evidence]

\* Orders of the events of log l with a kind in ks.
OrdersOf(l, ks) == {i \in DOMAIN l : l[i].kind \in ks}

Visible == OrdersOf(eventLog, {"message", "final"})
History == OrdersOf(eventLog, {"record", "outcome"})

Newest(S) == IF S = {} THEN 0 ELSE CHOOSE m \in S : \A o \in S : o <= m
Oldest(S) == CHOOSE m \in S : \A o \in S : m <= o

IngestIdle == [pc |-> "idle", evidence |-> {}]
MainIdle == [pc |-> "idle", page |-> {}, older |-> FALSE]
PollOff == [pc |-> "off", max |-> 0, got |-> {}, top |-> 0]

-----------------------------------------------------------------------------
(* The record.                                                             *)

\* Faulty variant: private notes are replayed as well.
replay_session_all(l) == DOMAIN l

\* replay_session: everything but private notes.
replay_session(l) == {i \in DOMAIN l : l[i].kind # "note"}

\* export_session: local entries only on request.
export_session(l, include_private_notes) ==
    {i \in DOMAIN l : include_private_notes \/ PeerVisible(l[i].kind)}

append_session_event(event) == eventLog' = Append(eventLog, event)

\* A signed message is ingested; a final result makes the session terminal in
\* a second commit, and then the outcome card is derived.
IngestMessage(kind) ==
    /\ Len(eventLog) < MaxLog
    /\ ~ done /\ ingest = IngestIdle
    /\ append_session_event(SessionEvent(kind, {}))
    /\ ingest' = IF kind = "final" THEN [IngestIdle EXCEPT !.pc = "stored"] ELSE ingest
    /\ UNCHANGED <<done, slipped, viewVars>>

IngestCompletes ==
    /\ ingest.pc = "stored"
    /\ done' = TRUE
    /\ ingest' = [ingest EXCEPT !.pc = "completed"]
    /\ UNCHANGED <<eventLog, slipped, viewVars>>

\* create_outcome_card: no card yet, status terminal, replay ...
OutcomeReplays ==
    /\ ingest.pc = "completed"
    /\ ingest' = IF OrdersOf(eventLog, {"outcome"}) # {} \/ ~ done THEN IngestIdle
                 ELSE [pc |-> "replayed", evidence |-> replay_session(eventLog)]
    /\ UNCHANGED <<eventLog, done, slipped, viewVars>>

\* ... and then the card is appended with the digest of that replay.
OutcomeAppends ==
    /\ Len(eventLog) < MaxLog
    /\ ingest.pc = "replayed"
    /\ append_session_event(SessionEvent("outcome", ingest.evidence))
    /\ ingest' = IngestIdle
    /\ slipped' = replay_session(eventLog) \ ingest.evidence
    /\ UNCHANGED <<done, viewVars>>

\* The process stops between two commits; the peer's retry is a duplicate.
IngestStops ==
    /\ ingest # IngestIdle
    /\ ingest' = IngestIdle
    /\ UNCHANGED <<eventLog, done, slipped, viewVars>>

-----------------------------------------------------------------------------
(* The arena's main thread.                                                *)

\* get_session_events_page: the newest PageSize visible events below an order.
get_session_events_page(before) ==
    LET below == {o \in Visible : o < before}
        rows == {o \in below : Cardinality({p \in below : p >= o}) <= PageSize}
    IN [page |-> rows, older |-> rows # below]

\* load_arena_data: first query.
LoadPage ==
    LET got == get_session_events_page(Len(eventLog) + 1) IN
    /\ main' = [pc |-> "paged", page |-> got.page, older |-> got.older]
    /\ UNCHANGED <<arena, poll, floor, overtaken, skipped>>

\* load_arena_data: second query, and the widgets are rebuilt.
LoadHistory ==
    LET events == main.page \cup History IN
    /\ main.pc = "paged"
    /\ arena' = [arena EXCEPT !.events = events, !.older = main.older, !.shown = events]
    /\ main' = MainIdle
    /\ floor' = IF main.older THEN Oldest(main.page) ELSE 1
    /\ overtaken' = {o \in Visible : o > Newest(main.page) /\ o < Newest(History)}
    /\ skipped' = {}
    /\ UNCHANGED <<recordVars, poll>>

\* What the owner does in the arena: the entry is appended, then all is reloaded.
\* (The first query may see more than the entry: it is a step of its own.)
OwnerWrites(kind) ==
    /\ Len(eventLog) < MaxLog
    /\ main = MainIdle /\ poll.pc # "off"
    /\ append_session_event(SessionEvent(kind, {}))
    /\ main' = [MainIdle EXCEPT !.pc = "written"]
    /\ UNCHANGED <<done, ingest, slipped, arena, poll, floor, overtaken, skipped>>

\* Local entries are possible on a terminal session too.
create_private_note == OwnerWrites("note")
create_checkpoint == OwnerWrites("record")
create_decision == OwnerWrites("record")

\* A signed message of the owner's, which a terminal session refuses.
send_human_message == ~ done /\ OwnerWrites("message")

get_private_notes == OrdersOf(eventLog, {"note"})

\* The text of a note is sent as a message; the note stays as it is.
promote_private_note == get_private_notes # {} /\ send_human_message

Reload ==
    /\ main.pc = "written"
    /\ LoadPage
    /\ UNCHANGED recordVars

\* The session's tab is opened for the first time.
OpenArena ==
    /\ main = MainIdle /\ ~ arena.built
    /\ arena' = [arena EXCEPT !.built = TRUE]
    /\ main' = [MainIdle EXCEPT !.pc = "written"]
    /\ UNCHANGED <<recordVars, poll, floor, overtaken, skipped>>

\* on_mount: the thread starts from the events the widget holds.
StartPolling ==
    /\ arena.built /\ main = MainIdle /\ poll.pc = "off"
    /\ poll' = [PollOff EXCEPT !.pc = "sleep", !.max = Newest(arena.events)]
    /\ UNCHANGED <<recordVars, arena, main, floor, overtaken, skipped>>

\* on_unmount: another tab; what a thread of the old generation fetched is
\* dropped, and the widget is kept.
StopPolling ==
    /\ main = MainIdle /\ poll.pc # "off"
    /\ poll' = PollOff
    /\ UNCHANGED <<recordVars, arena, main, floor, overtaken, skipped>>

\* load_older_events: the page below the oldest event held, of either query.
load_older_events ==
    LET from == Oldest(arena.events)
        got == get_session_events_page(from)
    IN /\ main = MainIdle /\ poll.pc # "off"
       /\ arena.older /\ arena.events # {}
       /\ arena' = [arena EXCEPT !.events = @ \cup got.page, !.older = got.older,
                                 !.shown = arena.events \cup got.page]
       /\ floor' = IF got.older THEN Oldest(got.page) ELSE 1
       /\ skipped' = skipped \cup {o \in Visible : from < o /\ o < floor}
       /\ UNCHANGED <<recordVars, main, poll, overtaken>>

\* enter_replay_mode / exit_replay_mode.
EnterReplay(upto) ==
    /\ main = MainIdle /\ poll.pc # "off"
    /\ ~ arena.replay /\ upto \in arena.events
    /\ arena' = [arena EXCEPT !.replay = TRUE, !.shown = {o \in arena.events : o <= upto}]
    /\ UNCHANGED <<recordVars, main, poll, floor, overtaken, skipped>>

ExitReplay ==
    /\ main = MainIdle /\ poll.pc # "off"
    /\ arena.replay
    /\ arena' = [arena EXCEPT !.replay = FALSE, !.shown = arena.events]
    /\ UNCHANGED <<recordVars, main, poll, floor, overtaken, skipped>>

-----------------------------------------------------------------------------
(* The polling thread.  What it has seen is what is below its cursor or was *)
(* in the widget when it started: seen_ids only keeps it from reporting an  *)
(* event twice.                                                             *)

PollReads ==
    /\ poll.pc = "sleep"
    /\ poll' = [poll EXCEPT !.pc = "read", !.top = Len(eventLog),
                            !.got = {o \in Visible : o > poll.max}]
    /\ UNCHANGED <<recordVars, arena, main, floor, overtaken, skipped>>

\* The second query; the cursor moves to the newest of both.
PollReadsHistory ==
    LET got == poll.got \cup History
        max == Newest(got \cup {poll.max})
    IN /\ poll.pc = "read"
       /\ poll' = [poll EXCEPT !.pc = "post", !.got = got, !.max = max]
       /\ overtaken' = overtaken \cup {o \in Visible : poll.top < o /\ o < max}
       /\ UNCHANGED <<recordVars, arena, main, floor, skipped>>

\* Faulty variant: what arrives during a replay is dropped.
append_events_live(got) ==
    arena' = IF arena.replay THEN arena
             ELSE [arena EXCEPT !.events = @ \cup got, !.shown = @ \cup got]

\* append_events, run by the main thread.
append_events(got) ==
    arena' = [arena EXCEPT !.events = @ \cup got,
                           !.shown = IF arena.replay THEN @ ELSE @ \cup got]

PollPosts ==
    /\ poll.pc = "post" /\ main = MainIdle
    /\ append_events(poll.got)
    /\ poll' = [poll EXCEPT !.pc = "sleep", !.got = {}, !.top = 0]
    /\ UNCHANGED <<recordVars, main, floor, overtaken, skipped>>

-----------------------------------------------------------------------------
ArenaInit ==
    /\ eventLog = <<>> /\ done = FALSE /\ ingest = IngestIdle /\ slipped = {}
    /\ arena = [built |-> FALSE, events |-> {}, older |-> FALSE, shown |-> {}, replay |-> FALSE]
    /\ main = MainIdle /\ poll = PollOff
    /\ floor = 1 /\ overtaken = {} /\ skipped = {}

ArenaNext ==
    \/ \E kind \in {"message", "final"} : IngestMessage(kind)
    \/ IngestCompletes \/ OutcomeReplays \/ OutcomeAppends \/ IngestStops
    \/ create_private_note \/ create_checkpoint \/ create_decision
    \/ send_human_message \/ promote_private_note
    \/ Reload \/ LoadHistory \/ OpenArena \/ StartPolling \/ StopPolling
    \/ load_older_events
    \/ \E upto \in 1..MaxLog : EnterReplay(upto)
    \/ ExitReplay
    \/ PollReads \/ PollReadsHistory \/ PollPosts

ArenaSpec == ArenaInit /\ [][ArenaNext]_arenaVars

ArenaTypeOK ==
    LET Orders == 1..MaxLog IN
    /\ eventLog \in Seq([kind : EventKinds, evidence : SUBSET Orders]) /\ Len(eventLog) <= MaxLog
    /\ done \in BOOLEAN
    /\ ingest \in [pc : {"idle", "stored", "completed", "replayed"}, evidence : SUBSET Orders]
    /\ arena \in [built : BOOLEAN, events : SUBSET Orders, older : BOOLEAN,
                  shown : SUBSET Orders, replay : BOOLEAN]
    /\ main \in [pc : {"idle", "written", "paged"}, page : SUBSET Orders, older : BOOLEAN]
    /\ poll \in [pc : {"off", "sleep", "read", "post"}, max : 0..MaxLog,
                 got : SUBSET Orders, top : 0..MaxLog]
    /\ floor \in 1..(MaxLog + 1)
    /\ overtaken \in SUBSET Orders /\ skipped \in SUBSET Orders /\ slipped \in SUBSET Orders

\* What the arena shows is what was signed.  Between refreshes, every signed
\* event from the oldest loaded page up to the poller's cursor is in the
\* arena, through owner writes, reloads, paging, replay and changes of tab
\* (session_arena.py load_arena_data, load_older_events, append_events and the
\* polling worker); out of replay the timeline shows all of them.  The two
\* exceptions are what the cursors jump: an event committed between the two
\* queries of one refresh with a local record after it, and events above a local
\* record that is older than the loaded page.
ArenaMissesNothing ==
    (arena.built /\ main = MainIdle /\ poll.pc = "sleep") =>
        /\ \A o \in Visible : (floor <= o /\ o <= poll.max)
               => o \in arena.events \cup overtaken \cup skipped
        /\ ~ arena.replay => arena.shown = arena.events

\* The outcome card is evidence of what was signed.  There is at most one, on a
\* terminal session; its replay holds every signed event before it, so an
\* export of the session shows all it counts, and no private note is in it
\* (session/history.py create_outcome_card).  Owner records that are committed
\* between the replay and the card are the only other events it may lack.
OutcomeIsEvidence ==
    /\ Cardinality(OrdersOf(eventLog, {"outcome"})) <= 1
    /\ \A i \in OrdersOf(eventLog, {"outcome"}) :
           LET before == SubSeq(eventLog, 1, i - 1) IN
           /\ done
           /\ eventLog[i].evidence \cap OrdersOf(eventLog, {"note"}) = {}
           /\ export_session(before, FALSE) \subseteq eventLog[i].evidence
           /\ eventLog[i].evidence \cup slipped = replay_session(before)
=============================================================================
