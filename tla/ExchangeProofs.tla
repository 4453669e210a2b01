--------------------------- MODULE ExchangeProofs ---------------------------
(***************************************************************************)
(* An accepted offer is held by its receiver, for any nodes, sessions,     *)
(* ids, contents and sizes, however many offers are sent and however often *)
(* a process dies between two commits.                                     *)
(*                                                                         *)
(* The invariant follows an offer through the receiver's server: what the  *)
(* server works on is one offer to its node, once it is past the vault the *)
(* row has the offer's bytes, and no row ever changes.  Numbers tell the   *)
(* offers apart, so an acceptance names one of them.                       *)
(***************************************************************************)
EXTENDS ArtifactExchange, FiniteSetTheorems, TLAPS

(* A leaf that names no prover is tried with SMT, then with Zenon.         *)
USE SMTT(20), ZenonT(20)

Rows == [session : ArtSessions, content : Contents]
Jobs == [pc : {"store", "charge", "accept"}, session : ArtSessions, id : ArtIds,
         content : Contents, offer : Nat]

VaultOK == artifacts \in [ArtNodes -> [ArtIds -> {Absent} \cup Rows]]
WorkOK == work \in [ExchangeProcs -> {Free} \cup Jobs]

(* The offers sent are numbered from 1.                                    *)
OffersOK ==
  /\ IsFiniteSet(offers)
  /\ \A o \in offers : /\ o.number \in 1..Cardinality(offers)
                       /\ o.session \in ArtSessions /\ o.id \in ArtIds
                       /\ o.claimed \in Contents
  /\ \A o, q \in offers : o.number = q.number => o = q

(* What the server of n works on is an offer to n that it has examined.    *)
Serves(n, job) ==
  \E o \in offers : /\ o.to = n /\ o.number = job.offer
                    /\ o.id = job.id /\ o.claimed = job.content

(* Once past the vault, the row has the offer's bytes.                     *)
Stored(n, job) == Held(n, job.id) /\ artifacts[n][job.id].content = job.content

ServerOK ==
  \A n \in ArtNodes :
    LET job == work[Server(n)]
    IN  /\ job # Free => Serves(n, job)
        /\ job.pc \in {"charge", "accept"} => Stored(n, job)

AcceptOK ==
  /\ accepted \in [ArtNodes -> SUBSET (1..Cardinality(offers))]
  /\ AcceptedIsHeld

ExchangeInv == VaultOK /\ WorkOK /\ OffersOK /\ ServerOK /\ AcceptOK
-----------------------------------------------------------------------------
(* The vault.                                                              *)

LEMMA RowIsSomething == Absent \notin Rows
<1> SUFFICES ASSUME Absent \in Rows PROVE FALSE
  OBVIOUS
<1>1. DOMAIN Absent = {"session", "content"}
  BY DEF Rows
<1>2. DOMAIN Absent = {"session"}
  BY DEF Absent
<1> QED BY <1>1, <1>2

LEMMA JobIsNotFree == Free.pc = "free" /\ Free \notin Jobs
BY DEF Free, Jobs

(* No row is lost or overwritten.                                          *)
RowsStand ==
  \A n \in ArtNodes, i \in ArtIds : Held(n, i) => artifacts'[n][i] = artifacts[n][i]

(* A row under an id that is free.                                         *)
LEMMA NewRow ==
  ASSUME VaultOK, NEW n \in ArtNodes, NEW i \in ArtIds, NEW r \in Rows, ~ Held(n, i),
         artifacts' = [artifacts EXCEPT ![n][i] = r]
  PROVE  VaultOK' /\ RowsStand /\ Held(n, i)' /\ artifacts'[n][i] = r
<1>1. artifacts'[n][i] = r
  BY DEF VaultOK
<1>2. \A m \in ArtNodes, j \in ArtIds :
        m # n \/ j # i => artifacts'[m][j] = artifacts[m][j]
  BY DEF VaultOK
<1>3. VaultOK'
  BY DEF VaultOK
<1>4. Held(n, i)'
  BY <1>1, RowIsSomething DEF Held
<1>5. RowsStand
  BY <1>2 DEF RowsStand, Held
<1> QED BY <1>1, <1>3, <1>4, <1>5

LEMMA StoredStands ==
  ASSUME RowsStand, NEW n \in ArtNodes, NEW job \in Jobs, Stored(n, job)
  PROVE  Stored(n, job)'
BY DEF RowsStand, Stored, Held, Jobs

(* What was accepted stays held.                                           *)
LEMMA AcceptStands ==
  ASSUME ExchangeInv, RowsStand, UNCHANGED <<offers, accepted>>
  PROVE  OffersOK' /\ AcceptOK'
<1>1. OffersOK'
  BY DEF ExchangeInv, OffersOK
<1>2. \A o \in offers : o.id \in ArtIds
  BY DEF ExchangeInv, OffersOK
<1>3. AcceptedIsHeld'
  BY <1>2 DEF ExchangeInv, AcceptOK, AcceptedIsHeld, RowsStand, Held, load_artifact_bytes
<1> QED BY <1>1, <1>3 DEF ExchangeInv, AcceptOK
-----------------------------------------------------------------------------
(* The jobs.                                                               *)

(* What a server may be left with.                                         *)
Fits(n, w) == /\ w # Free => Serves(n, w)
              /\ w.pc \in {"charge", "accept"} => Stored(n, w)

LEMMA FreeFits == \A n \in ArtNodes : Fits(n, Free)
BY JobIsNotFree DEF Fits

LEMMA ServerIsProc == \A n \in ArtNodes : Server(n) \in ExchangeProcs
BY DEF Server, ExchangeProcs

(* One process goes on to its next job or ends it.                         *)
LEMMA JobStep ==
  ASSUME ExchangeInv, RowsStand, offers \subseteq offers',
         NEW p \in ExchangeProcs, NEW w \in {Free} \cup Jobs,
         work' = [work EXCEPT ![p] = w],
         \A n \in ArtNodes : p = Server(n) => Fits(n, w)'
  PROVE  WorkOK' /\ ServerOK'
<1>1. /\ WorkOK' /\ work'[p] = w
      /\ \A q \in ExchangeProcs : q # p => work'[q] = work[q]
  BY DEF ExchangeInv, WorkOK
<1>2. ASSUME NEW n \in ArtNodes, p # Server(n) PROVE Fits(n, work[Server(n)])'
  <2>1. PICK job : job = work[Server(n)]
    OBVIOUS
  <2>2. work'[Server(n)] = job /\ job \in {Free} \cup Jobs
    BY <1>1, <1>2, <2>1, ServerIsProc DEF ExchangeInv, WorkOK
  <2>3. Fits(n, job)
    BY <2>1 DEF ExchangeInv, ServerOK, Fits
  <2>4. job # Free => Serves(n, job)'
    BY <2>3 DEF Fits, Serves
  <2>5. job.pc \in {"charge", "accept"} => Stored(n, job)'
    BY <2>2, <2>3, JobIsNotFree, StoredStands DEF Fits
  <2> QED BY <2>2, <2>4, <2>5 DEF Fits
<1>3. ASSUME NEW n \in ArtNodes, p = Server(n) PROVE Fits(n, work[Server(n)])'
  BY <1>1, <1>3 DEF Fits
<1>4. ServerOK'
  BY <1>2, <1>3 DEF ServerOK, Fits
<1> QED BY <1>1, <1>4

LEMMA NoJobStep ==
  ASSUME ExchangeInv, RowsStand, offers \subseteq offers', UNCHANGED work
  PROVE  WorkOK' /\ ServerOK'
<1>1. WorkOK'
  BY DEF ExchangeInv, WorkOK
<1>2. ASSUME NEW n \in ArtNodes PROVE Fits(n, work[Server(n)])'
  <2>1. PICK job : job = work[Server(n)]
    OBVIOUS
  <2>2. work'[Server(n)] = job /\ job \in {Free} \cup Jobs
    BY <2>1, ServerIsProc DEF ExchangeInv, WorkOK
  <2>3. Fits(n, job)
    BY <2>1 DEF ExchangeInv, ServerOK, Fits
  <2>4. job # Free => Serves(n, job)'
    BY <2>3 DEF Fits, Serves
  <2>5. job.pc \in {"charge", "accept"} => Stored(n, job)'
    BY <2>2, <2>3, JobIsNotFree, StoredStands DEF Fits
  <2> QED BY <2>2, <2>4, <2>5 DEF Fits
<1>3. ServerOK'
  BY <1>2 DEF ServerOK, Fits
<1> QED BY <1>1, <1>3

(* The job of a process that has one.                                      *)
LEMMA JobOf ==
  ASSUME ExchangeInv, NEW p \in ExchangeProcs, work[p].pc # "free"
  PROVE  work[p] \in Jobs
BY JobIsNotFree DEF ExchangeInv, WorkOK
-----------------------------------------------------------------------------
(* The steps.                                                              *)

LEMMA StoreOutputKeeps ==
  ASSUME ExchangeInv, NEW n \in ArtNodes, NEW s \in ArtSessions, NEW i \in ArtIds,
         NEW c \in Contents, StoreOutput(n, s, i, c)
  PROVE  ExchangeInv'
<1> DEFINE p == <<n, "turn">>
           w == [pc |-> "charge", session |-> s, id |-> i, content |-> c, offer |-> 0]
           r == [session |-> s, content |-> c]
<1>1. /\ ~ Held(n, i) /\ artifacts' = [artifacts EXCEPT ![n][i] = r]
      /\ work' = [work EXCEPT ![p] = w] /\ UNCHANGED <<offers, accepted>>
  BY DEF StoreOutput
<1>2. r \in Rows /\ w \in Jobs /\ p \in ExchangeProcs
  BY DEF Rows, Jobs, ExchangeProcs
<1>3. \A m \in ArtNodes : p # Server(m)
  BY DEF Server
<1> HIDE DEF p, w, r
<1>4. VaultOK' /\ RowsStand
  BY ZenonT(30), <1>1, <1>2, NewRow DEF ExchangeInv
<1>5. WorkOK' /\ ServerOK'
  BY ZenonT(30), <1>1, <1>2, <1>3, <1>4, JobStep
<1>6. OffersOK' /\ AcceptOK'
  BY <1>1, <1>4, AcceptStands
<1> QED BY <1>4, <1>5, <1>6 DEF ExchangeInv

LEMMA SendOfferKeeps ==
  ASSUME ExchangeInv, NEW n \in ArtNodes, NEW s \in ArtSessions, NEW i \in ArtIds,
         NEW c \in Contents \cup {Garbled}, SendOffer(n, s, i, c)
  PROVE  ExchangeInv'
<1>1. PICK o : /\ o.number = Cardinality(offers) + 1 /\ o.session = s /\ o.id = i
               /\ o.claimed = artifacts[n][i].content
               /\ offers' = offers \cup {o} /\ UNCHANGED <<artifacts, accepted, work>>
  BY ZenonT(30) DEF SendOffer, get_artifact_metadata
<1>2. artifacts[n][i] \in Rows
  BY DEF SendOffer, Held, ExchangeInv, VaultOK
<1>3. o.claimed \in Contents
  BY <1>1, <1>2 DEF Rows
<1>4. IsFiniteSet(offers) /\ Cardinality(offers) \in Nat
  BY FS_CardinalityType DEF ExchangeInv, OffersOK
<1>5. \A q \in offers : q.number \in 1..Cardinality(offers)
  BY DEF ExchangeInv, OffersOK
<1>6. o \notin offers
  BY <1>1, <1>4, <1>5
<1>7. IsFiniteSet(offers') /\ Cardinality(offers') = Cardinality(offers) + 1
  BY <1>1, <1>4, <1>6, FS_AddElement
<1>8. OffersOK'
  <2>1. \A q \in offers' : /\ q.number \in 1..Cardinality(offers')
                           /\ q.session \in ArtSessions /\ q.id \in ArtIds
                           /\ q.claimed \in Contents
    BY <1>1, <1>3, <1>4, <1>7 DEF ExchangeInv, OffersOK
  <2>2. \A q, r \in offers' : q.number = r.number => q = r
    BY <1>1, <1>4, <1>5 DEF ExchangeInv, OffersOK
  <2> QED BY <1>7, <2>1, <2>2 DEF OffersOK
<1>9. VaultOK' /\ RowsStand
  BY <1>1 DEF ExchangeInv, VaultOK, RowsStand
<1>10. WorkOK' /\ ServerOK'
  BY <1>1, <1>9, NoJobStep
<1>11. AcceptOK'
  <2>1. \A m \in ArtNodes : accepted[m] \subseteq 1..Cardinality(offers)
    BY DEF ExchangeInv, AcceptOK
  <2>2. \A m \in ArtNodes : o.number \notin accepted[m]
    BY <1>1, <1>4, <2>1
  <2>3. AcceptedIsHeld'
    BY <1>1, <2>2 DEF ExchangeInv, AcceptOK, AcceptedIsHeld, Held, load_artifact_bytes
  <2>4. accepted' \in [ArtNodes -> SUBSET (1..Cardinality(offers'))]
    BY <1>1, <1>4, <1>7 DEF ExchangeInv, AcceptOK
  <2> QED BY <2>3, <2>4 DEF AcceptOK
<1> QED BY <1>8, <1>9, <1>10, <1>11 DEF ExchangeInv

LEMMA IngestOfferKeeps ==
  ASSUME ExchangeInv, NEW n \in ArtNodes, NEW o \in offers, IngestOffer(n, o)
  PROVE  ExchangeInv'
<1> DEFINE w == [pc |-> "store", session |-> o.session, id |-> o.id, content |-> o.carried,
                 offer |-> o.number]
<1>1. UNCHANGED <<artifacts, offers, accepted>> /\ o.to = n
  BY DEF IngestOffer
<1>2. VaultOK' /\ RowsStand
  BY <1>1 DEF ExchangeInv, VaultOK, RowsStand
<1>3. OffersOK' /\ AcceptOK'
  BY <1>1, <1>2, AcceptStands
<1>4. CASE OfferAdmitted(n, o)
  <2>1. /\ work' = [work EXCEPT ![Server(n)] = w]
        /\ o.carried = o.claimed
    BY <1>4 DEF IngestOffer, OfferAdmitted
  <2>2. w \in Jobs /\ w # Free
    <3>1. /\ o.session \in ArtSessions /\ o.id \in ArtIds /\ o.claimed \in Contents
          /\ o.number \in Nat
      BY DEF ExchangeInv, OffersOK
    <3> QED BY <2>1, <3>1, JobIsNotFree DEF Jobs
  <2>3. Serves(n, w)' /\ w.pc = "store"
    BY <1>1, <2>1 DEF Serves
  <2>4. \A m \in ArtNodes : Server(n) = Server(m) => m = n
    BY DEF Server
  <2> HIDE DEF w
  <2>5. PICK u \in Jobs : u = w
    BY <2>2
  <2>6. \A m \in ArtNodes : Server(n) = Server(m) => Fits(m, u)'
    BY <2>3, <2>4, <2>5 DEF Fits, Serves
  <2>7. WorkOK' /\ ServerOK'
    BY ZenonT(30), <1>1, <1>2, <2>1, <2>5, <2>6, ServerIsProc, JobStep
  <2> QED BY <1>2, <1>3, <2>7 DEF ExchangeInv
<1>5. CASE ~ OfferAdmitted(n, o)
  <2>1. WorkOK' /\ ServerOK'
    BY <1>1, <1>2, <1>5, NoJobStep DEF IngestOffer
  <2> QED BY <1>2, <1>3, <2>1 DEF ExchangeInv
<1> QED BY <1>4, <1>5

(* The server of n goes on with the same offer, in the vault or past it.   *)
LEMMA PastTheVault ==
  ASSUME ExchangeInv, VaultOK', RowsStand, UNCHANGED <<offers, accepted>>,
         NEW p \in ExchangeProcs, NEW job \in Jobs, job = work[p], NEW w \in Jobs,
         w.id = job.id, w.content = job.content, w.offer = job.offer,
         work' = [work EXCEPT ![p] = w],
         \A n \in ArtNodes : p = Server(n) => Stored(n, job)'
  PROVE  ExchangeInv'
<1>1. \A n \in ArtNodes : p = Server(n) => Serves(n, job)
  BY JobIsNotFree DEF ExchangeInv, ServerOK
<1>2. \A n \in ArtNodes : p = Server(n) => Serves(n, w)'
  BY <1>1 DEF Serves
<1>3. \A n \in ArtNodes : p = Server(n) => Stored(n, w)'
  BY DEF Stored
<1>4. \A n \in ArtNodes : p = Server(n) => Fits(n, w)'
  BY <1>2, <1>3 DEF Fits
<1>5. WorkOK' /\ ServerOK'
  BY ZenonT(30), <1>4, JobStep
<1>6. OffersOK' /\ AcceptOK'
  BY AcceptStands
<1> QED BY <1>5, <1>6 DEF ExchangeInv

(* A process ends its job, done or dead.                                   *)
LEMMA EndsJob ==
  ASSUME ExchangeInv, NEW p \in ExchangeProcs, work' = [work EXCEPT ![p] = Free],
         UNCHANGED <<artifacts, offers>>
  PROVE  VaultOK' /\ RowsStand /\ OffersOK' /\ WorkOK' /\ ServerOK'
<1>1. VaultOK' /\ RowsStand /\ OffersOK'
  BY DEF ExchangeInv, VaultOK, RowsStand, OffersOK
<1>2. \A n \in ArtNodes : Fits(n, Free)'
  BY JobIsNotFree DEF Fits
<1>3. PICK w \in {Free} \cup Jobs : w = Free
  OBVIOUS
<1>4. \A n \in ArtNodes : p = Server(n) => Fits(n, w)'
  BY <1>2, <1>3
<1> QED BY ZenonT(30), <1>1, <1>3, <1>4, JobStep

LEMMA StoreKeeps ==
  ASSUME ExchangeInv, NEW n \in ArtNodes, store_artifact(n)
  PROVE  ExchangeInv'
<1>1. Server(n) \in ExchangeProcs /\ \A m \in ArtNodes : Server(n) = Server(m) => m = n
  BY DEF Server, ExchangeProcs
<1>2. work[Server(n)].pc = "store" /\ UNCHANGED <<offers, accepted>>
  BY DEF store_artifact
<1>3. PICK job \in Jobs : job = work[Server(n)]
  BY <1>1, <1>2, JobOf
<1>4. PICK w \in Jobs : w = [job EXCEPT !.pc = "charge"]
  BY ZenonT(30) DEF Jobs
<1>5. w.id = job.id /\ w.content = job.content /\ w.offer = job.offer
  BY <1>4 DEF Jobs
<1>6. job.id \in ArtIds
  BY DEF Jobs
<1>7. CASE ~ Held(n, job.id)
  <2> DEFINE r == [session |-> job.session, content |-> job.content]
  <2>1. /\ artifacts' = [artifacts EXCEPT ![n][job.id] = r]
        /\ work' = [work EXCEPT ![Server(n)].pc = "charge"]
    BY <1>3, <1>7 DEF store_artifact
  <2>2. work' = [work EXCEPT ![Server(n)] = w]
    BY <1>1, <1>3, <1>4, <2>1 DEF ExchangeInv, WorkOK
  <2>3. r \in Rows /\ r.content = job.content
    BY DEF Rows, Jobs
  <2> HIDE DEF r
  <2>4. VaultOK' /\ RowsStand /\ Held(n, job.id)' /\ artifacts'[n][job.id] = r
    BY ZenonT(30), <1>6, <1>7, <2>1, <2>3, NewRow DEF ExchangeInv
  <2>5. Stored(n, job)'
    BY <2>3, <2>4 DEF Stored
  <2> QED BY ZenonT(30), <1>1, <1>2, <1>3, <1>5, <2>2, <2>4, <2>5, PastTheVault
<1>8. CASE Held(n, job.id) /\ artifacts[n][job.id].content = job.content
  <2>1. UNCHANGED artifacts /\ work' = [work EXCEPT ![Server(n)] = w]
    BY <1>3, <1>4, <1>8 DEF store_artifact
  <2>2. VaultOK' /\ RowsStand /\ Stored(n, job)'
    BY <1>8, <2>1 DEF ExchangeInv, VaultOK, RowsStand, Stored, Held
  <2> QED BY ZenonT(30), <1>1, <1>2, <1>3, <1>5, <2>1, <2>2, PastTheVault
<1>9. CASE Held(n, job.id) /\ artifacts[n][job.id].content # job.content
  <2>1. UNCHANGED artifacts /\ work' = [work EXCEPT ![Server(n)] = Free]
    BY <1>3, <1>9 DEF store_artifact
  <2>2. VaultOK' /\ RowsStand /\ OffersOK' /\ WorkOK' /\ ServerOK'
    BY ZenonT(30), <1>1, <1>2, <2>1, EndsJob
  <2> QED BY <1>2, <2>2, AcceptStands DEF ExchangeInv
<1> QED BY <1>7, <1>8, <1>9

LEMMA ChargeKeeps ==
  ASSUME ExchangeInv, NEW p \in ExchangeProcs, Charge(p)
  PROVE  ExchangeInv'
<1>1. work[p].pc = "charge" /\ UNCHANGED <<artifacts, offers, accepted>>
  BY DEF Charge
<1>2. PICK job \in Jobs : job = work[p]
  BY <1>1, JobOf
<1>3. VaultOK' /\ RowsStand
  BY <1>1 DEF ExchangeInv, VaultOK, RowsStand
<1>4. CASE job.offer # 0
  <2>1. PICK w \in Jobs : w = [job EXCEPT !.pc = "accept"]
    BY ZenonT(30) DEF Jobs
  <2>2. w.id = job.id /\ w.content = job.content /\ w.offer = job.offer
    BY <2>1 DEF Jobs
  <2>3. work' = [work EXCEPT ![p] = w]
    BY <1>2, <1>4, <2>1 DEF Charge
  <2>4. \A n \in ArtNodes : p = Server(n) => Stored(n, job)
    BY <1>1, <1>2 DEF ExchangeInv, ServerOK
  <2>5. \A n \in ArtNodes : p = Server(n) => Stored(n, job)'
    BY <1>1, <2>4 DEF Stored, Held
  <2> QED BY ZenonT(30), <1>1, <1>2, <1>3, <2>2, <2>3, <2>5, PastTheVault
<1>5. CASE job.offer = 0
  <2>1. work' = [work EXCEPT ![p] = Free]
    BY <1>2, <1>5 DEF Charge
  <2>2. OffersOK' /\ WorkOK' /\ ServerOK'
    BY ZenonT(30), <1>1, <2>1, EndsJob
  <2> QED BY <1>1, <1>3, <2>2, AcceptStands DEF ExchangeInv
<1> QED BY <1>4, <1>5

LEMMA SendAcceptKeeps ==
  ASSUME ExchangeInv, NEW n \in ArtNodes, SendAccept(n)
  PROVE  ExchangeInv'
<1>1. /\ work[Server(n)].pc = "accept" /\ UNCHANGED <<artifacts, offers>>
      /\ work' = [work EXCEPT ![Server(n)] = Free]
      /\ Server(n) \in ExchangeProcs
  BY ServerIsProc DEF SendAccept
<1>2. PICK job \in Jobs : job = work[Server(n)]
  BY <1>1, JobOf
<1>3. accepted' = [accepted EXCEPT ![n] = @ \cup {job.offer}]
  BY <1>2 DEF SendAccept
<1>4. Serves(n, job) /\ Stored(n, job)
  BY <1>1, <1>2, JobIsNotFree DEF ExchangeInv, ServerOK
<1>5. PICK o \in offers : o.number = job.offer /\ o.id = job.id /\ o.claimed = job.content
  BY <1>4 DEF Serves
<1>6. VaultOK' /\ OffersOK' /\ WorkOK' /\ ServerOK'
  BY ZenonT(30), <1>1, EndsJob
<1>7. accepted' \in [ArtNodes -> SUBSET (1..Cardinality(offers'))]
  BY <1>1, <1>3, <1>5 DEF ExchangeInv, AcceptOK, OffersOK
<1>8. AcceptedIsHeld'
  <2> SUFFICES ASSUME NEW m \in ArtNodes, NEW q \in offers, q.to = m,
                      q.number \in accepted'[m]
               PROVE  Held(m, q.id) /\ artifacts[m][q.id].content = q.claimed
    BY <1>1 DEF AcceptedIsHeld, Held, load_artifact_bytes
  <2>1. CASE q.number \in accepted[m]
    BY <2>1 DEF ExchangeInv, AcceptOK, AcceptedIsHeld, load_artifact_bytes
  <2>2. CASE q.number \notin accepted[m]
    <3>1. m = n /\ q.number = job.offer
      BY <1>3, <2>2 DEF ExchangeInv, AcceptOK
    <3>2. q = o
      BY <1>5, <3>1 DEF ExchangeInv, OffersOK
    <3> QED BY <1>4, <1>5, <3>1, <3>2 DEF Stored
  <2> QED BY <2>1, <2>2
<1> QED BY <1>6, <1>7, <1>8 DEF ExchangeInv, AcceptOK

LEMMA DiesKeeps ==
  ASSUME ExchangeInv, NEW p \in ExchangeProcs, ExchangeDies(p)
  PROVE  ExchangeInv'
<1>1. UNCHANGED <<artifacts, offers, accepted>> /\ work' = [work EXCEPT ![p] = Free]
  BY DEF ExchangeDies
<1>2. VaultOK' /\ RowsStand /\ OffersOK' /\ WorkOK' /\ ServerOK'
  BY ZenonT(30), <1>1, EndsJob
<1> QED BY <1>1, <1>2, AcceptStands DEF ExchangeInv
-----------------------------------------------------------------------------
LEMMA ExchangeStarts == ExchangeInit => ExchangeInv
<1> SUFFICES ASSUME ExchangeInit PROVE ExchangeInv
  OBVIOUS
<1>1. VaultOK /\ WorkOK
  BY DEF ExchangeInit, VaultOK, WorkOK
<1>2. OffersOK
  BY FS_EmptySet DEF ExchangeInit, OffersOK
<1>3. ServerOK
  BY ServerIsProc, JobIsNotFree DEF ExchangeInit, ServerOK
<1>4. AcceptOK
  BY DEF ExchangeInit, AcceptOK, AcceptedIsHeld
<1> QED BY <1>1, <1>2, <1>3, <1>4 DEF ExchangeInv

LEMMA ExchangeSteps == ExchangeInv /\ [ExchangeNext]_exchangeVars => ExchangeInv'
<1> SUFFICES ASSUME ExchangeInv, [ExchangeNext]_exchangeVars PROVE ExchangeInv'
  OBVIOUS
<1>1. CASE ExchangeNext
  BY <1>1, StoreOutputKeeps, SendOfferKeeps, IngestOfferKeeps, StoreKeeps, SendAcceptKeeps,
     ChargeKeeps, DiesKeeps DEF ExchangeNext
<1>2. CASE UNCHANGED exchangeVars
  <2>1. VaultOK' /\ RowsStand /\ UNCHANGED <<offers, accepted, work>>
    BY <1>2 DEF exchangeVars, ExchangeInv, VaultOK, RowsStand
  <2> QED BY <2>1, AcceptStands, NoJobStep DEF ExchangeInv
<1> QED BY <1>1, <1>2

(* Whatever two nodes store, offer and receive, under whichever ids, and   *)
(* wherever a process dies, an offer that ingest_envelope has accepted is  *)
(* one whose claimed bytes the receiver's vault holds under the offer's id.*)
THEOREM AcceptedIsHeldHolds == ExchangeSpec => []AcceptedIsHeld
<1>1. ExchangeInv => AcceptedIsHeld
  BY DEF ExchangeInv, AcceptOK
<1> QED BY <1>1, ExchangeStarts, ExchangeSteps, PTL DEF ExchangeSpec
=============================================================================
