---------------------------- MODULE CardPromise ----------------------------
(***************************************************************************)
(* What AgentCardMirror.public_card promises a reader of the gateway's     *)
(* agent card, without saying how: a card served is the public form of a   *)
(* card the upstream agent itself published, recent, and never older than  *)
(* one served before.                                                      *)
(***************************************************************************)
EXTENDS Integers, Sequences

CONSTANTS Callers,      \* the tasks that ask for the card
          Horizon,      \* how long ago a served card may have been replaced
          PublicVersions   \* the upstream versions that may be shown in public

VARIABLES clock,   \* time.monotonic()
          until,   \* when each replaced upstream version was replaced
          served,  \* the newest version served so far, 0 before the first
          reply    \* each caller's answer: its kind, and the version of a card

vars == <<clock, until, served, reply>>

Latest == Len(until) + 1

Answer(kind, v) == [kind |-> kind, version |-> v]
NoAnswer == Answer("none", 0)
Pending == Answer("pending", 0)
Failed == Answer("error", 0)

Recent(v) == v = Latest \/ until[v] >= clock - Horizon

Init ==
  /\ clock = 0
  /\ until = << >>
  /\ served = 0
  /\ reply = [c \in Callers |-> NoAnswer]

Time ==
  /\ clock' = clock + 1
  /\ UNCHANGED <<until, served, reply>>

Replaced ==
  /\ until' = Append(until, clock)
  /\ UNCHANGED <<clock, served, reply>>

Ask(c) ==
  /\ reply[c] # Pending
  /\ reply' = [reply EXCEPT ![c] = Pending]
  /\ UNCHANGED <<clock, until, served>>

Serve(c, v) ==
  /\ v \in PublicVersions
  /\ v >= served
  /\ Recent(v)
  /\ reply' = [reply EXCEPT ![c] = Answer("card", v)]
  /\ served' = v
  /\ UNCHANGED <<clock, until>>

(* The caller gets an error or gives up.                                   *)
Refuse(c, how) ==
  /\ reply[c] = Pending
  /\ reply' = [reply EXCEPT ![c] = how]
  /\ UNCHANGED <<clock, until, served>>

Next ==
  \/ Time
  \/ Replaced
  \/ \E c \in Callers :
       \/ Ask(c)
       \/ \E v \in 1..Latest : Serve(c, v)
       \/ Refuse(c, Failed)
       \/ Refuse(c, NoAnswer)

Spec == Init /\ [][Next]_vars
=============================================================================
