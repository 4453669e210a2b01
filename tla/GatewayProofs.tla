--------------------------- MODULE GatewayProofs ---------------------------
(***************************************************************************)
(* What the gateway reports of an attempt is what happened, for any number *)
(* of attempts and of chunks.                                              *)
(*                                                                         *)
(* RecordIsTruthful is about attempts that are over; the invariant says    *)
(* for every phase before that what the eventual report will rest on.      *)
(***************************************************************************)
EXTENDS Gateway, TLAPS

(* A leaf that names no prover is tried with SMT, then with Zenon.         *)
USE SMTT(20), ZenonT(20)

(* The reports that forward_body makes.                                    *)
StreamVerdicts == {"forwarded", "upstream_disconnected", "upstream_timeout",
                   "client_disconnected"}

ProxyTyped ==
  /\ phase \in [Requests -> {"idle", "credentials", "sending", "reading", "yielded",
                             "closing", "done"}]
  /\ stream \in [Requests -> BOOLEAN]
  /\ verdict \in [Requests -> StreamVerdicts]
  /\ tracker \in [Requests -> Outcomes \cup {"open"}]
  /\ records \in [Requests -> Nat]
  /\ upstream \in [Requests -> {"none", "open", "closed", "left_open"}]
  /\ origin \in [Requests -> {"live", "ended", "failed", "silent"}]
  /\ client \in [Requests -> {"here", "gone"}]
  /\ answer \in [Requests -> {"none", "refused", "502", "500", "started", "complete",
                              "broken"}]
  /\ read \in [Requests -> Nat] /\ sent \in [Requests -> Nat]

(* Before it is over nothing is reported, and the upstream is touched only *)
(* once there are credentials for it.                                      *)
Unreported(r) ==
  /\ tracker[r] = "open" /\ records[r] = 0
  /\ upstream[r] = IF phase[r] \in {"idle", "credentials"} THEN "none" ELSE "open"
  /\ phase[r] \in {"idle", "credentials", "sending"} => sent[r] = 0 /\ read[r] = 0
  /\ phase[r] = "reading" => sent[r] = read[r]
  /\ phase[r] = "yielded" => sent[r] + 1 = read[r]

(* An outcome that is about to be reported is what happened.               *)
Deserved(r, outcome) ==
  /\ outcome \in {"unsupported_version", "unsupported_operation"} =>
       upstream[r] = "none" /\ answer[r] = "refused"
  /\ outcome = "upstream_unavailable" => answer[r] = "502" /\ sent[r] = 0
  /\ outcome = "upstream_disconnected" => origin[r] = "failed"
  /\ outcome = "upstream_timeout" => origin[r] # "ended" /\ answer[r] = "broken"
  /\ outcome = "client_disconnected" => client[r] = "gone"
  /\ outcome = "forwarded" /\ client[r] = "here" => answer[r] = "complete" /\ sent[r] = read[r]

Attempt(r) ==
  /\ phase[r] # "done" => Unreported(r)
  /\ phase[r] = "closing" => Deserved(r, verdict[r])
  /\ phase[r] = "done" =>
       /\ upstream[r] # "open" /\ records[r] <= 1
       /\ tracker[r] = "open" => records[r] = 0
       /\ tracker[r] # "open" => Deserved(r, tracker[r])

ProxyInv == ProxyTyped /\ \A r \in Requests : Attempt(r)

-----------------------------------------------------------------------------
(* The steps of one attempt leave the others alone.                        *)
Others(r) ==
  \A q \in Requests \ {r} :
    /\ phase'[q] = phase[q] /\ stream'[q] = stream[q] /\ verdict'[q] = verdict[q]
    /\ tracker'[q] = tracker[q] /\ records'[q] = records[q] /\ upstream'[q] = upstream[q]
    /\ origin'[q] = origin[q] /\ client'[q] = client[q] /\ answer'[q] = answer[q]
    /\ read'[q] = read[q] /\ sent'[q] = sent[q]

(* What holds of an attempt is left alone by the steps of the others.      *)
LEMMA OthersKeep ==
  ASSUME ProxyInv, NEW r \in Requests, ProxyTyped', Others(r), Attempt(r)'
  PROVE  ProxyInv'
<1>1. ASSUME NEW q \in Requests, q # r PROVE Attempt(q)'
  BY <1>1 DEF ProxyInv, Others, Attempt, Unreported, Deserved
<1> QED BY <1>1 DEF ProxyInv

(* An attempt that reports an outcome it deserves is over and in order.    *)
LEMMA Reports ==
  ASSUME ProxyInv, NEW r \in Requests, NEW outcome \in Outcomes, phase[r] # "done",
         Complete(r, outcome)
  PROVE  /\ tracker' = [tracker EXCEPT ![r] = outcome]
         /\ records' \in [Requests -> Nat] /\ records'[r] <= 1
         /\ \A q \in Requests \ {r} : records'[q] = records[q]
<1>1. tracker[r] = "open" /\ records[r] = 0
  BY DEF ProxyInv, Attempt, Unreported
<1>2. tracker' = [tracker EXCEPT ![r] = outcome]
  BY <1>1 DEF Complete, Set
<1>3. PICK kept \in {0, 1} : records' = [records EXCEPT ![r] = @ + kept]
  BY <1>1 DEF Complete
<1>4. records \in [Requests -> Nat]
  BY DEF ProxyInv, ProxyTyped
<1>5. records' \in [Requests -> Nat] /\ records'[r] = kept
  BY <1>1, <1>3, <1>4
<1>6. \A q \in Requests \ {r} : records'[q] = records[q]
  BY <1>3, <1>4
<1> QED BY <1>2, <1>5, <1>6

(* The first steps.                                                        *)
LEMMA HandlersKeep ==
  ASSUME ProxyInv, NEW r \in Requests, ProxyJsonrpc(r) \/ ProxyRest(r)
  PROVE  ProxyInv'
<1>i. ProxyTyped /\ Attempt(r)
  BY DEF ProxyInv
<1>1. PICK isStream \in BOOLEAN, ok \in BOOLEAN :
        \/ CheckVersion(r, isStream, ok)
        \/ EndWith(r, "unsupported_operation", "refused") /\ UNCHANGED <<stream, upstream>>
  <2>1. CASE ProxyJsonrpc(r)
    BY <2>1 DEF ProxyJsonrpc
  <2>2. CASE ProxyRest(r)
    <3>1. PICK op \in RestMethods \X RestPaths, ok \in BOOLEAN :
            \/ CheckVersion(r, IsStreamingRest(op), ok)
            \/ EndWith(r, "unsupported_operation", "refused") /\ UNCHANGED <<stream, upstream>>
      BY <2>2 DEF ProxyRest
    <3>2. IsStreamingRest(op) \in BOOLEAN
      BY DEF IsStreamingRest
    <3> QED BY <3>1, <3>2
  <2> QED BY <2>1, <2>2
<1>2. phase[r] = "idle"
  BY DEF ProxyJsonrpc, ProxyRest
<1>3. ASSUME NEW outcome \in {"unsupported_version", "unsupported_operation"},
             NEW flag \in BOOLEAN, EndWith(r, outcome, "refused"),
             stream' = stream \/ Set(stream, r, flag), UNCHANGED upstream
      PROVE  ProxyInv'
  <2>1. /\ tracker' = [tracker EXCEPT ![r] = outcome]
        /\ records' \in [Requests -> Nat] /\ records'[r] <= 1
        /\ \A q \in Requests \ {r} : records'[q] = records[q]
    BY <1>2, <1>3, Reports DEF EndWith, Outcomes
  <2>2. /\ phase' = [phase EXCEPT ![r] = "done"] /\ answer' = [answer EXCEPT ![r] = "refused"]
        /\ UNCHANGED <<verdict, origin, client, read, sent>>
        /\ stream' = stream \/ stream' = [stream EXCEPT ![r] = flag]
    BY <1>3 DEF EndWith, Set
  <2>3. ProxyTyped'
    BY <1>i, <1>3, <2>1, <2>2 DEF ProxyTyped, Outcomes
  <2>4. Others(r)
    <3>1. \A q \in Requests \ {r} : stream'[q] = stream[q]
      BY <1>i, <2>2 DEF ProxyTyped
    <3> QED BY <1>i, <1>3, <2>1, <2>2, <3>1 DEF Others, ProxyTyped
  <2>5. upstream[r] = "none"
    BY <1>i, <1>2 DEF Attempt, Unreported
  <2>6. Attempt(r)'
    BY <1>i, <1>3, <2>1, <2>2, <2>5 DEF Attempt, Deserved, ProxyTyped, Outcomes
  <2> QED BY <2>3, <2>4, <2>6, OthersKeep
<1>4. CASE EndWith(r, "unsupported_operation", "refused") /\ UNCHANGED <<stream, upstream>>
  BY <1>3, <1>4
<1>5. CASE CheckVersion(r, isStream, ok) /\ ~ ok
  BY <1>3, <1>5 DEF CheckVersion
<1>6. CASE CheckVersion(r, isStream, ok) /\ ok
  <2>1. /\ phase' = [phase EXCEPT ![r] = "credentials"]
        /\ stream' = [stream EXCEPT ![r] = isStream]
        /\ UNCHANGED <<verdict, tracker, records, upstream, origin, client, answer, read, sent>>
    BY <1>6 DEF CheckVersion, Set
  <2>2. ProxyTyped' /\ Others(r)
    BY <1>i, <2>1 DEF ProxyTyped, Others
  <2>3. Attempt(r)'
    BY <1>i, <1>2, <2>1 DEF Attempt, Unreported, ProxyTyped
  <2> QED BY <2>2, <2>3, OthersKeep
<1> QED BY <1>1, <1>4, <1>5, <1>6

(* An attempt that ends without a stream: the upstream was not available,  *)
(* or its whole response was forwarded.                                    *)
LEMMA EndsKeep ==
  ASSUME ProxyInv, NEW r \in Requests, phase[r] \in {"credentials", "sending"},
         NEW outcome, NEW status, NEW u \in {"none", "closed"},
         \/ outcome = "upstream_unavailable" /\ status = "502"
         \/ outcome = "forwarded" /\ status = "complete",
         EndWith(r, outcome, status), UNCHANGED stream,
         upstream' = [upstream EXCEPT ![r] = u]
  PROVE  ProxyInv'
<1>i. ProxyTyped /\ Attempt(r)
  BY DEF ProxyInv
<1>1. outcome \in Outcomes
  BY DEF Outcomes
<1>2. /\ tracker' = [tracker EXCEPT ![r] = outcome]
      /\ records' \in [Requests -> Nat] /\ records'[r] <= 1
      /\ \A q \in Requests \ {r} : records'[q] = records[q]
  BY <1>1, Reports DEF EndWith
<1>3. /\ phase' = [phase EXCEPT ![r] = "done"] /\ answer' = [answer EXCEPT ![r] = status]
      /\ UNCHANGED <<verdict, origin, client, read, sent>>
  BY DEF EndWith, Set
<1>4. ProxyTyped' /\ Others(r)
  BY <1>i, <1>1, <1>2, <1>3 DEF ProxyTyped, Others
<1>5. sent[r] = 0 /\ read[r] = 0
  BY <1>i DEF Attempt, Unreported
<1>6. Attempt(r)'
  BY <1>i, <1>1, <1>2, <1>3, <1>5 DEF Attempt, Deserved, ProxyTyped, Outcomes
<1> QED BY <1>4, <1>6, OthersKeep

(* An exception nobody catches is not reported.                            *)
LEMMA UnexpectedKeeps ==
  ASSUME ProxyInv, NEW r \in Requests, phase[r] \in {"credentials", "sending"},
         Unexpected(r), NEW u \in {"none", "closed", "left_open"},
         upstream' = [upstream EXCEPT ![r] = u]
  PROVE  ProxyInv'
<1>i. ProxyTyped /\ Attempt(r)
  BY DEF ProxyInv
<1>1. /\ phase' = [phase EXCEPT ![r] = "done"] /\ answer' = [answer EXCEPT ![r] = "500"]
      /\ UNCHANGED <<stream, verdict, tracker, records, origin, client, read, sent>>
  BY DEF Unexpected, Set
<1>2. ProxyTyped' /\ Others(r)
  BY <1>i, <1>1 DEF ProxyTyped, Others
<1>3. tracker[r] = "open" /\ records[r] = 0
  BY <1>i DEF Attempt, Unreported
<1>4. phase'[r] = "done" /\ upstream'[r] = u /\ tracker'[r] = "open" /\ records'[r] = 0
  BY <1>i, <1>1, <1>3 DEF ProxyTyped
<1>5. Attempt(r)'
  BY <1>i, <1>4 DEF Attempt
<1> QED BY <1>2, <1>5, OthersKeep

(* Up to the upstream's answer.                                            *)
LEMMA CallsKeep ==
  ASSUME ProxyInv, NEW r \in Requests,
         \/ Credentials(r) \/ SendFailed(r) \/ SendBroke(r)
         \/ AnswerBuffered(r) \/ StartStream(r)
  PROVE  ProxyInv'
<1>i. ProxyTyped /\ Attempt(r)
  BY DEF ProxyInv
<1>0. phase[r] = "credentials" => upstream[r] = "none"
  BY <1>i DEF Attempt, Unreported
<1>00. upstream = [upstream EXCEPT ![r] = upstream[r]]
  BY <1>i DEF ProxyTyped
<1>1. CASE Credentials(r)
  <2>0. phase[r] = "credentials"
    BY <1>1 DEF Credentials
  <2>1. CASE /\ Set(phase, r, "sending") /\ Set(upstream, r, "open")
             /\ UNCHANGED <<stream, verdict, tracker, records, origin, client, answer, read, sent>>
    <3>1. /\ phase' = [phase EXCEPT ![r] = "sending"]
          /\ upstream' = [upstream EXCEPT ![r] = "open"]
      BY <2>1 DEF Set
    <3>2. ProxyTyped' /\ Others(r)
      BY <1>i, <2>1, <3>1 DEF ProxyTyped, Others
    <3>3. Attempt(r)'
      BY <1>i, <2>0, <2>1, <3>1 DEF Attempt, Unreported, ProxyTyped
    <3> QED BY <3>2, <3>3, OthersKeep
  <2>2. CASE EndWith(r, "upstream_unavailable", "502") /\ UNCHANGED <<stream, upstream>>
    BY <1>0, <1>00, <2>0, <2>2, EndsKeep
  <2>3. CASE Unexpected(r) /\ UNCHANGED upstream
    BY <1>0, <1>00, <2>0, <2>3, UnexpectedKeeps
  <2> QED BY <1>1, <2>1, <2>2, <2>3 DEF Credentials
<1>2. CASE SendFailed(r)
  BY ZenonT(30), <1>2, EndsKeep DEF SendFailed, Set
<1>3. CASE SendBroke(r)
  BY ZenonT(30), <1>3, UnexpectedKeeps DEF SendBroke, Set
<1>4. CASE AnswerBuffered(r)
  BY ZenonT(30), <1>4, EndsKeep DEF AnswerBuffered, Set
<1>5. CASE StartStream(r)
  <2>1. /\ phase[r] = "sending"
        /\ phase' = [phase EXCEPT ![r] = "reading"] /\ answer' = [answer EXCEPT ![r] = "started"]
        /\ UNCHANGED <<stream, verdict, tracker, records, upstream, origin, client, read, sent>>
    BY <1>5 DEF StartStream, Set
  <2>2. ProxyTyped' /\ Others(r)
    BY <1>i, <2>1 DEF ProxyTyped, Others
  <2>3. Attempt(r)'
    BY <1>i, <2>1 DEF Attempt, Unreported, ProxyTyped
  <2> QED BY <2>2, <2>3, OthersKeep
<1> QED BY <1>1, <1>2, <1>3, <1>4, <1>5
-----------------------------------------------------------------------------
(* The stream                                                              *)

(* A generator that leaves its loop with an outcome it deserves.           *)
LEMMA LeaveKeeps ==
  ASSUME ProxyInv, NEW r \in Requests, phase[r] \in {"reading", "yielded"},
         NEW outcome \in StreamVerdicts, NEW status \in {"complete", "broken"},
         Leave(r, outcome, status),
         outcome = "upstream_disconnected" => origin[r] = "failed",
         outcome = "upstream_timeout" => origin[r] # "ended" /\ status = "broken",
         outcome = "client_disconnected" => client[r] = "gone",
         outcome = "forwarded" /\ client[r] = "here" =>
           phase[r] = "reading" /\ status = "complete"
  PROVE  ProxyInv'
<1>i. ProxyTyped /\ Attempt(r)
  BY DEF ProxyInv
<1>1. /\ phase' = [phase EXCEPT ![r] = "closing"] /\ verdict' = [verdict EXCEPT ![r] = outcome]
      /\ answer' = [answer EXCEPT ![r] = status]
      /\ UNCHANGED <<stream, tracker, records, upstream, origin, client, read, sent>>
  BY DEF Leave, Set, StreamVars
<1>2. ProxyTyped' /\ Others(r)
  BY <1>i, <1>1 DEF ProxyTyped, Others
<1>3. Unreported(r)'
  BY <1>i, <1>1 DEF Attempt, Unreported, ProxyTyped
<1>4. Deserved(r, outcome)'
  BY <1>i, <1>1 DEF Deserved, Attempt, Unreported, ProxyTyped, StreamVerdicts
<1>5. Attempt(r)'
  <2>1. phase'[r] = "closing" /\ verdict'[r] = outcome
    BY <1>i, <1>1 DEF ProxyTyped
  <2> QED BY <1>i, <1>3, <1>4, <2>1 DEF Attempt
<1> QED BY <1>2, <1>5, OthersKeep

(* A chunk is read, then handed to the client.                             *)
LEMMA ChunksKeep ==
  ASSUME ProxyInv, NEW r \in Requests, ReadChunk(r) \/ SendChunk(r)
  PROVE  ProxyInv'
<1>i. ProxyTyped /\ Attempt(r)
  BY DEF ProxyInv
<1>1. CASE ReadChunk(r)
  <2>1. /\ phase[r] = "reading" /\ phase' = [phase EXCEPT ![r] = "yielded"]
        /\ read' = [read EXCEPT ![r] = read[r] + 1]
        /\ UNCHANGED <<stream, verdict, tracker, records, upstream, origin, client, answer, sent>>
    BY <1>1 DEF ReadChunk, Set, StreamVars
  <2>2. ProxyTyped' /\ Others(r)
    <3>1. read \in [Requests -> Nat] /\ read[r] + 1 \in Nat
      BY <1>i DEF ProxyTyped
    <3>2. read' \in [Requests -> Nat] /\ \A q \in Requests \ {r} : read'[q] = read[q]
      BY <2>1, <3>1
    <3>3. ProxyTyped'
      BY <1>i, <2>1, <3>2 DEF ProxyTyped
    <3> QED BY <1>i, <2>1, <3>2, <3>3 DEF ProxyTyped, Others
  <2>3. Attempt(r)'
    BY <1>i, <2>1 DEF Attempt, Unreported, ProxyTyped
  <2> QED BY <2>2, <2>3, OthersKeep
<1>2. CASE SendChunk(r)
  <2>1. /\ phase[r] = "yielded" /\ phase' = [phase EXCEPT ![r] = "reading"]
        /\ sent' = [sent EXCEPT ![r] = sent[r] + 1]
        /\ UNCHANGED <<stream, verdict, tracker, records, upstream, origin, client, answer, read>>
    BY <1>2 DEF SendChunk, Set, StreamVars
  <2>2. ProxyTyped' /\ Others(r)
    <3>1. sent \in [Requests -> Nat] /\ sent[r] + 1 \in Nat
      BY <1>i DEF ProxyTyped
    <3>2. sent' \in [Requests -> Nat] /\ \A q \in Requests \ {r} : sent'[q] = sent[q]
      BY <2>1, <3>1
    <3>3. ProxyTyped'
      BY <1>i, <2>1, <3>2 DEF ProxyTyped
    <3> QED BY <1>i, <2>1, <3>2, <3>3 DEF ProxyTyped, Others
  <2>3. Attempt(r)'
    BY <1>i, <2>1 DEF Attempt, Unreported, ProxyTyped
  <2> QED BY <2>2, <2>3, OthersKeep
<1> QED BY <1>1, <1>2

(* Every way out of the loop.                                              *)
LEMMA ExitsKeep ==
  ASSUME ProxyInv, NEW r \in Requests,
         \/ StreamEnded(r) \/ ReadFailed(r) \/ ReadTimedOut(r)
         \/ CancelledReading(r) \/ ClosedAtYield(r)
  PROVE  ProxyInv'
<1> USE DEF StreamVerdicts
<1>1. CASE StreamEnded(r)
  <2>1. PICK status \in {"complete", "broken"} :
          status = IF client[r] = "here" THEN "complete" ELSE "broken"
    OBVIOUS
  <2>2. phase[r] = "reading" /\ Leave(r, "forwarded", status)
    BY <1>1, <2>1 DEF StreamEnded, Leave, Set
  <2> QED BY <2>1, <2>2, LeaveKeeps
<1>2. CASE ReadFailed(r)
  BY <1>2, LeaveKeeps DEF ReadFailed
<1>3. CASE ReadTimedOut(r)
  BY <1>3, LeaveKeeps DEF ReadTimedOut
<1>4. CASE CancelledReading(r)
  BY <1>4, LeaveKeeps DEF CancelledReading
<1>5. CASE ClosedAtYield(r)
  BY <1>5, LeaveKeeps DEF ClosedAtYield
<1> QED BY <1>1, <1>2, <1>3, <1>4, <1>5

(* The finally block reports what the loop left behind.                    *)
LEMMA CleanupKeeps ==
  ASSUME ProxyInv, NEW r \in Requests, Cleanup(r)
  PROVE  ProxyInv'
<1>i. ProxyTyped /\ Attempt(r)
  BY DEF ProxyInv
<1>0. PICK outcome \in StreamVerdicts : outcome = verdict[r]
  BY <1>i DEF ProxyTyped
<1>1. outcome \in Outcomes /\ outcome # "open"
  BY DEF Outcomes, StreamVerdicts
<1>2. /\ phase[r] = "closing" /\ phase' = [phase EXCEPT ![r] = "done"]
      /\ \E u \in {"closed", "left_open"} : upstream' = [upstream EXCEPT ![r] = u]
      /\ Complete(r, outcome)
      /\ UNCHANGED <<stream, verdict, origin, client, answer, read, sent>>
  BY ZenonT(30), <1>0 DEF Cleanup, Set
<1>3. PICK u \in {"closed", "left_open"} : upstream' = [upstream EXCEPT ![r] = u]
  BY ZenonT(30), <1>2
<1>4. /\ tracker' = [tracker EXCEPT ![r] = outcome]
      /\ records' \in [Requests -> Nat] /\ records'[r] <= 1
      /\ \A q \in Requests \ {r} : records'[q] = records[q]
  BY <1>1, <1>2, Reports
<1>5. ProxyTyped' /\ Others(r)
  BY <1>i, <1>1, <1>2, <1>3, <1>4 DEF ProxyTyped, Others
<1>6. Deserved(r, outcome)
  BY <1>i, <1>0, <1>2 DEF Attempt
<1>7. Deserved(r, outcome)'
  BY <1>2, <1>6 DEF Deserved, StreamVerdicts
<1>8. phase'[r] = "done" /\ upstream'[r] = u /\ tracker'[r] = outcome
  BY <1>i, <1>2, <1>3, <1>4 DEF ProxyTyped
<1>9. Attempt(r)'
  BY <1>i, <1>1, <1>4, <1>7, <1>8 DEF Attempt
<1> QED BY <1>5, <1>9, OthersKeep

(* The client leaves, or the origin turns.                                 *)
LEMMA OutsideKeeps ==
  ASSUME ProxyInv, NEW r \in Requests, ClientLeaves(r) \/ OriginTurns(r)
  PROVE  ProxyInv'
<1>i. ProxyTyped /\ Attempt(r)
  BY DEF ProxyInv
<1>1. CASE ClientLeaves(r)
  <2>1. /\ phase[r] # "done" /\ client' = [client EXCEPT ![r] = "gone"]
        /\ UNCHANGED <<phase, stream, verdict, tracker, records, upstream, origin, answer,
                       read, sent>>
    BY <1>1 DEF ClientLeaves, Set
  <2>2. ProxyTyped' /\ Others(r)
    BY <1>i, <2>1 DEF ProxyTyped, Others
  <2>3. Attempt(r)'
    BY <1>i, <2>1 DEF Attempt, Unreported, Deserved, ProxyTyped
  <2> QED BY <2>2, <2>3, OthersKeep
<1>2. CASE OriginTurns(r)
  <2>1. /\ phase[r] \in {"reading", "yielded"}
        /\ \E o \in {"ended", "failed", "silent"} : origin' = [origin EXCEPT ![r] = o]
        /\ UNCHANGED <<phase, stream, verdict, tracker, records, upstream, client, answer,
                       read, sent>>
    BY ZenonT(30), <1>2 DEF OriginTurns, Set
  <2>2. ProxyTyped' /\ Others(r)
    BY <1>i, <2>1 DEF ProxyTyped, Others
  <2>3. Attempt(r)'
    BY <1>i, <2>1 DEF Attempt, Unreported
  <2> QED BY <2>2, <2>3, OthersKeep
<1> QED BY <1>1, <1>2
-----------------------------------------------------------------------------
(* Nothing is reported at first.                                           *)
LEMMA ProxyInitially == ProxyInit => ProxyInv
BY DEF ProxyInit, ProxyInv, ProxyTyped, Attempt, Unreported, StreamVerdicts, Outcomes

(* Every step of the gateway keeps the invariant.                          *)
LEMMA ProxySteps == ProxyInv /\ [GatewayNext]_vars => ProxyInv'
<1> SUFFICES ASSUME ProxyInv, [GatewayNext]_vars PROVE ProxyInv'
  OBVIOUS
<1>1. CASE UNCHANGED proxyVars
  BY <1>1 DEF proxyVars, ProxyInv, ProxyTyped, Attempt, Unreported, Deserved
<1>2. ASSUME NEW r \in Requests, ProxyStep(r) PROVE ProxyInv'
  BY <1>2, HandlersKeep, CallsKeep, ChunksKeep, ExitsKeep, CleanupKeeps, OutsideKeeps
     DEF ProxyStep
<1> QED BY <1>1, <1>2 DEF GatewayNext, ProxyNext, vars

(* The report of an attempt that is over is deserved.                      *)
LEMMA ProxyImplies == ProxyInv => RecordIsTruthful
<1> SUFFICES ASSUME ProxyInv PROVE RecordIsTruthful
  OBVIOUS
<1>1. ASSUME NEW r \in Requests
      PROVE  /\ records[r] <= 1 /\ (tracker[r] = "open" => records[r] = 0)
             /\ tracker[r] # "open" =>
                  phase[r] = "done" /\ upstream[r] # "open" /\ Deserved(r, tracker[r])
  <2>1. Attempt(r) /\ records[r] \in Nat
    BY DEF ProxyInv, ProxyTyped
  <2> QED BY <2>1 DEF Attempt, Unreported
<1> QED BY ZenonT(30), <1>1 DEF RecordIsTruthful, Deserved

(* For any number of attempts and chunks: an attempt is reported at most   *)
(* once, when it is over, and the outcome complete() is called with is     *)
(* what happened to it.                                                    *)
THEOREM RecordIsTruthfulHolds == Spec => []RecordIsTruthful
<1>1. GatewayInit => ProxyInv
  BY ProxyInitially DEF GatewayInit
<1> QED BY <1>1, ProxySteps, ProxyImplies, PTL DEF Spec
=============================================================================
