------------------------- MODULE ConsentDaemonProofs -------------------------
(***************************************************************************)
(* What is proved of the consent daemon for every number of clients, keys, *)
(* requests and crashes, however other processes change the database, the  *)
(* files and the clock between its steps.                                  *)
(***************************************************************************)
EXTENDS ConsentDaemon, TLAPS

-----------------------------------------------------------------------------
(* The inductive invariant *)

Plain == {"recheck", "sign", "signed", "record"}
Transition == {"recheckTransition", "signTransition", "signedTransition", "commit", "confirm"}
Participation == {"recheckParticipation", "signParticipation", "complete"}

\* The steps after the prompt, and those of them after the signature.
Approved == Plain \cup Transition \cup Participation
WithProof == {"signed", "record", "signedTransition", "commit", "confirm", "complete"}

PlainKinds == {"Artifact", "DomainControl", "PersonaRoot"}

\* The request being handled is one that was sent, and its kind is the one the
\* dispatch chose these steps for.
RequestOK(p, j) ==
    /\ p \notin {"idle", "down"} => j.conn \in Connections /\ j.request \in Requests
    /\ p \in Plain \cup {"review"} => j.request.kind \in PlainKinds
    /\ p \in Transition \cup {"reviewTransition"} => j.request.kind = "PersonaTransition"
    /\ p \in Participation \cup {"reviewParticipation"} =>
          j.request.kind = "RecoveryParticipation"
    /\ p = "prompt" => j.request.kind # "Malformed"
    /\ p = "record" => j.request.kind = "PersonaRoot"

SubjectOK(p, j) ==
    p \in Approved \cup {"prompt"} =>
        /\ j.subject.kind = IF j.request.kind = "PersonaTransition" THEN "Routine"
                            ELSE j.request.kind
        /\ j.request.kind \in Expiring => j.subject.expiresAt = j.request.expiresAt

\* From the prompt to the answer the daemon works for what was approved.
ApprovalOK(p, j) ==
    p \in Approved =>
        \E a \in approvals : a.id = j.conn /\ a.key = j.signer.key /\ a.subject = j.subject

ProofOK(p, j) ==
    /\ p \notin WithProof \cup {"respond"} => j.proof = None
    /\ p \in WithProof => j.proof.by = j.signer.key /\ j.proof.subject = j.subject
    /\ p \in {"signed", "record"} => j.proof # None

\* What an answer says about the database is in the database.
Recorded(proof) ==
    /\ proof.subject.kind = "Routine" =>
          \E i \in DOMAIN store.journal : store.journal[i].proof = proof
    /\ proof.subject.kind = "PersonaRoot" => store.root = proof /\ proof # None

AnswerOK(p, j) ==
    /\ p = "confirm" => Len(store.journal) \in DOMAIN store.journal
    /\ p = "respond" =>
          /\ \/ Consented(j.conn, j.proof)
             \/ /\ j.request.kind = "PersonaTransition" /\ j.proof.subject.kind = "Routine"
                /\ \E a \in approvals : Consented(a.id, j.proof)
          /\ Recorded(j.proof)

\* A connection that is open now was open when the signature was made.
WaitOK(p, j) ==
    /\ p \in {"signed", "signedTransition"} /\ conn[j.conn].state = "open" => j.waiting
    /\ p \in {"record", "commit"} => j.waiting

MadeInTime(proof, signedAt) ==
    ~ ClockCanStepBack /\ proof.subject.kind \in Expiring => signedAt < proof.subject.expiresAt

TimeOK(p, j) ==
    /\ p \in WithProof => j.signedAt \in Int /\ (ClockCanStepBack \/ j.signedAt <= clock)
    /\ p = "respond" => MadeInTime(j.proof, j.signedAt)

JobOK(p, j) ==
    /\ DOMAIN j = DOMAIN NoJob
    /\ RequestOK(p, j) /\ SubjectOK(p, j) /\ ApprovalOK(p, j) /\ ProofOK(p, j)
    /\ AnswerOK(p, j) /\ WaitOK(p, j) /\ TimeOK(p, j)

IsJournal(s) == s \in Seq({s[i] : i \in DOMAIN s})

Shapes ==
    /\ DOMAIN store = {"key", "locator", "spent", "root", "journal"}
    /\ IsJournal(store.journal)
    /\ DOMAIN conn = Connections
    /\ \A c \in Connections : DOMAIN conn[c] = {"state", "request", "bytes", "answer"}
    /\ backlog \in Seq(Connections)
    /\ \A i \in 1 .. Len(backlog) : conn[backlog[i]].request \in Requests
    /\ clock \in Int

\* What is in the database was approved.
StoreOK ==
    /\ store.root # None => \E a \in approvals : Consented(a.id, store.root)
    /\ \A i \in DOMAIN store.journal : store.journal[i].kind = "Routine" =>
          /\ store.journal[i].proof.subject.kind = "Routine"
          /\ \E a \in approvals : Consented(a.id, store.journal[i].proof)

\* What was answered was approved, is recorded and was made in time.
ReleasedOK ==
    \A p \in released :
        /\ \E a \in approvals : /\ Consented(a.id, p.proof)
                                /\ a.id = p.id \/ p.proof.subject.kind = "Routine"
        /\ Recorded(p.proof)
        /\ MadeInTime(p.proof, p.signedAt)

IInv == Shapes /\ JobOK(pc, job) /\ StoreOK /\ ReleasedOK /\ NoWriteForALeftClient

-----------------------------------------------------------------------------
(* Operators of the model *)

\* FirstFailure finds no failure only if there is none.
LEMMA NoFailureOfTwo ==
    ASSUME NEW a, NEW b, FirstFailure(<<a, b>>) = None
    PROVE  a = None /\ b = None
<1> DEFINE f == <<a, b>>
           bad == {i \in DOMAIN f : f[i] # None}
<1>1. DOMAIN f = {1, 2} /\ f[1] = a /\ f[2] = b
  OBVIOUS
<1>2. SUFFICES ASSUME bad # {} PROVE FALSE
  BY <1>1
<1>3. \E i \in bad : \A k \in bad : i <= k
  BY <1>1, <1>2
<1>4. f[CHOOSE i \in bad : \A k \in bad : i <= k] # None
  <2> DEFINE m == CHOOSE i \in bad : \A k \in bad : i <= k
  <2>1. m \in bad
    BY <1>3, Zenon
  <2> QED
    BY <2>1, Zenon
<1>5. FirstFailure(f) = f[CHOOSE i \in bad : \A k \in bad : i <= k]
  BY <1>2, Zenon DEF FirstFailure
<1> QED
  BY <1>4, <1>5, Zenon

\* The same for three checks.
LEMMA NoFailureOfThree ==
    ASSUME NEW a, NEW b, NEW c, FirstFailure(<<a, b, c>>) = None
    PROVE  a = None /\ b = None /\ c = None
<1> DEFINE f == <<a, b, c>>
           bad == {i \in DOMAIN f : f[i] # None}
<1>1. DOMAIN f = {1, 2, 3} /\ f[1] = a /\ f[2] = b /\ f[3] = c
  OBVIOUS
<1>2. SUFFICES ASSUME bad # {} PROVE FALSE
  BY <1>1
<1>3. \E i \in bad : \A k \in bad : i <= k
  BY <1>1, <1>2
<1>4. f[CHOOSE i \in bad : \A k \in bad : i <= k] # None
  <2> DEFINE m == CHOOSE i \in bad : \A k \in bad : i <= k
  <2>1. m \in bad
    BY <1>3, Zenon
  <2> QED
    BY <2>1, Zenon
<1>5. FirstFailure(f) = f[CHOOSE i \in bad : \A k \in bad : i <= k]
  BY <1>2, Zenon DEF FirstFailure
<1> QED
  BY <1>4, <1>5, Zenon

\* The daemon finds no failure of the connection only while it is open.
LEMMA NoConnectionFailure ==
    ASSUME ConnectionFailure = None
    PROVE  conn[job.conn].state = "open"
BY DaemonAssumption, Zenon DEF ConnectionFailure

\* Every sequence can be a journal.
LEMMA JournalOf ==
    ASSUME NEW S, NEW s \in Seq(S)
    PROVE  IsJournal(s) /\ Len(s) \in Nat /\ DOMAIN s = 1 .. Len(s)
<1>1. Len(s) \in Nat /\ DOMAIN s = 1 .. Len(s) /\ s = [i \in 1 .. Len(s) |-> s[i]]
  OBVIOUS
<1>2. s \in [1 .. Len(s) -> {s[i] : i \in DOMAIN s}]
  BY <1>1, Zenon
<1>3. s \in Seq({s[i] : i \in DOMAIN s})
  BY <1>1, <1>2, SMTT(30)
<1> QED
  BY <1>1, <1>3, Zenon DEF IsJournal

\* What appending a row to the journal does.
Extended(c, s, x) ==
    /\ IsJournal(c)
    /\ Len(s) \in Nat /\ DOMAIN s = 1 .. Len(s)
    /\ Len(c) = Len(s) + 1 /\ DOMAIN c = 1 .. (Len(s) + 1)
    /\ \A i \in 1 .. Len(s) : c[i] = s[i]
    /\ c[Len(s) + 1] = x

\* The daemon's commit and the other processes' adoptions append one row.
LEMMA JournalAppend ==
    ASSUME NEW s, NEW x, NEW c, IsJournal(s), c = Append(s, x)
    PROVE  Extended(c, s, x)
<1> DEFINE S == {s[i] : i \in DOMAIN s} \cup {x}
<1>1. s \in Seq(S) /\ x \in S
  BY DEF IsJournal
<1>2. c \in Seq(S)
  BY <1>1
<1>3. IsJournal(c)
  BY <1>2, JournalOf, Zenon
<1>4. /\ Len(s) \in Nat /\ DOMAIN s = 1 .. Len(s)
      /\ Len(c) = Len(s) + 1 /\ DOMAIN c = 1 .. (Len(s) + 1)
      /\ \A i \in 1 .. Len(s) : c[i] = s[i]
      /\ c[Len(s) + 1] = x
  BY <1>1
<1> QED
  BY <1>3, <1>4, Zenon DEF Extended

-----------------------------------------------------------------------------
(* Steps that leave the job alone *)

\* Consents stay, the root stays, rows of the journal stay.
Grows ==
    /\ approvals \subseteq approvals'
    /\ store.root # None => store'.root = store.root
    /\ \A i \in DOMAIN store.journal : /\ i \in DOMAIN store'.journal
                                       /\ store'.journal[i] = store.journal[i]

\* What was consented to stays so, and what is recorded stays recorded.
LEMMA GrowsKeeps ==
    ASSUME Grows, NEW proof
    PROVE  /\ \A id : Consented(id, proof) => Consented(id, proof)'
           /\ (\E a \in approvals : Consented(a.id, proof)) =>
                 \E a \in approvals' : Consented(a.id, proof)'
           /\ Recorded(proof) => Recorded(proof)'
<1>1. \A id : Consented(id, proof) => Consented(id, proof)'
  BY Zenon DEF Grows, Consented
<1>2. (\E a \in approvals : Consented(a.id, proof)) =>
         \E a \in approvals' : Consented(a.id, proof)'
  BY <1>1, Zenon DEF Grows
<1>3. Recorded(proof) => Recorded(proof)'
  BY Zenon DEF Grows, Recorded
<1> QED
  BY <1>1, <1>2, <1>3, Zenon

\* The answers given stay good.
LEMMA ReleasedStays ==
    ASSUME Grows, ReleasedOK, UNCHANGED released
    PROVE  ReleasedOK'
<1> SUFFICES ASSUME NEW p \in released
             PROVE  /\ \E a \in approvals' : /\ Consented(a.id, p.proof)'
                                             /\ a.id = p.id \/ p.proof.subject.kind = "Routine"
                    /\ Recorded(p.proof)'
                    /\ MadeInTime(p.proof, p.signedAt)
  BY Zenon DEF ReleasedOK, MadeInTime
<1>1. PICK a \in approvals : /\ Consented(a.id, p.proof)
                             /\ a.id = p.id \/ p.proof.subject.kind = "Routine"
  BY Zenon DEF ReleasedOK
<1>2. a \in approvals' /\ Consented(a.id, p.proof)'
  BY <1>1, GrowsKeeps, Zenon DEF Grows
<1>3. Recorded(p.proof)' /\ MadeInTime(p.proof, p.signedAt)
  BY GrowsKeeps, Zenon DEF ReleasedOK
<1> QED
  BY <1>1, <1>2, <1>3, Zenon

\* The database stays approved while it does not change.
LEMMA StoreStays ==
    ASSUME StoreOK, UNCHANGED store, approvals \subseteq approvals'
    PROVE  StoreOK' /\ Grows
<1>1. Grows
  BY Zenon DEF Grows
<1>2. store.root # None => \E a \in approvals' : Consented(a.id, store.root)'
  BY <1>1, GrowsKeeps, Zenon DEF StoreOK
<1>3. ASSUME NEW i \in DOMAIN store.journal, store.journal[i].kind = "Routine"
      PROVE  /\ store.journal[i].proof.subject.kind = "Routine"
             /\ \E a \in approvals' : Consented(a.id, store.journal[i].proof)'
  BY <1>1, <1>3, GrowsKeeps, Zenon DEF StoreOK
<1> QED
  BY <1>1, <1>2, <1>3, Zenon DEF StoreOK

\* Whatever others do, the job goes on where it was.
LEMMA JobStays ==
    ASSUME Shapes, Shapes', JobOK(pc, job), UNCHANGED <<pc, job>>, Grows,
           job.conn \in Connections /\ conn'[job.conn].state = "open" =>
              conn[job.conn].state = "open",
           ClockCanStepBack \/ clock <= clock',
           Len(store.journal) \in DOMAIN store.journal =>
              Len(store'.journal) \in DOMAIN store'.journal
    PROVE  JobOK(pc, job)'
<1>1. DOMAIN job' = DOMAIN NoJob /\ RequestOK(pc, job)' /\ SubjectOK(pc, job)' /\ ProofOK(pc, job)'
  BY ZenonT(60) DEF JobOK, RequestOK, SubjectOK, ProofOK
<1>2. ApprovalOK(pc, job)'
  BY Zenon DEF JobOK, ApprovalOK, Grows
<1>3. AnswerOK(pc, job)'
  <2>1. CASE pc = "respond"
    <3>1. Recorded(job.proof)'
      BY <2>1, GrowsKeeps, Zenon DEF JobOK, AnswerOK
    <3>2. CASE Consented(job.conn, job.proof)
      <4>1. Consented(job.conn, job.proof)'
        BY <3>2, GrowsKeeps, Zenon
      <4> QED
        BY <2>1, <3>1, <4>1, Zenon DEF AnswerOK
    <3>3. CASE /\ job.request.kind = "PersonaTransition" /\ job.proof.subject.kind = "Routine"
               /\ \E a \in approvals : Consented(a.id, job.proof)
      <4>1. \E a \in approvals' : Consented(a.id, job.proof)'
        BY <3>3, GrowsKeeps, Zenon
      <4> QED
        BY <2>1, <3>1, <3>3, <4>1, Zenon DEF AnswerOK
    <3> QED
      BY <2>1, <3>2, <3>3, Zenon DEF JobOK, AnswerOK
  <2>2. CASE pc # "respond"
    BY <2>2, Zenon DEF JobOK, AnswerOK
  <2> QED
    BY <2>1, <2>2, Zenon
<1>4. WaitOK(pc, job)'
  <2>1. pc \in {"signed", "signedTransition"} => job.conn \in Connections
    BY Zenon DEF JobOK, RequestOK
  <2> QED
    BY <2>1, Zenon DEF JobOK, WaitOK
<1>5. TimeOK(pc, job)'
  <2>1. pc \in WithProof => job.signedAt \in Int /\ (ClockCanStepBack \/ job.signedAt <= clock)
    BY Zenon DEF JobOK, TimeOK
  <2>2. clock \in Int /\ clock' \in Int
    BY Zenon DEF Shapes
  <2>3. pc \in WithProof => job.signedAt \in Int /\ (ClockCanStepBack \/ job.signedAt <= clock')
    BY <2>1, <2>2
  <2> QED
    BY <2>3, Zenon DEF JobOK, TimeOK, MadeInTime
<1> QED
  BY <1>1, <1>2, <1>3, <1>4, <1>5, Zenon DEF JobOK

\* A daemon that handles no request has nothing to show for.
LEMMA IdleJob ==
    ASSUME pc' \in {"idle", "down"}, DOMAIN job' = DOMAIN NoJob, job'.proof = None
    PROVE  JobOK(pc, job)'
<1>1. /\ pc' \notin Approved \cup {"prompt"} /\ pc' \notin WithProof \cup {"respond"}
      /\ pc' \notin Plain \cup {"review"} /\ pc' \notin Transition \cup {"reviewTransition"}
      /\ pc' \notin Participation \cup {"reviewParticipation"} /\ pc' # "prompt"
      /\ pc' # "confirm" /\ pc' # "record" /\ pc' \notin {"signed", "record"}
      /\ pc' \notin {"signed", "signedTransition"} /\ pc' \notin {"record", "commit"}
  BY Zenon DEF Approved, WithProof, Plain, Transition, Participation
<1> QED
  BY <1>1, Zenon DEF JobOK, RequestOK, SubjectOK, ApprovalOK, ProofOK, AnswerOK, WaitOK, TimeOK

\* NoJob is a job without a proof.
LEMMA NoJobIsIdle == DOMAIN NoJob = {"conn", "request", "signer", "seen", "subject", "proof", "at",
                                     "fresh", "waiting", "signedAt"} /\ NoJob.proof = None
BY DEF NoJob

\* A step that changes only where the daemon is keeps the invariant if the job
\* it goes on with is in order there.
LEMMA GoesOn ==
    ASSUME IInv, NEW p, NEW j, GoOn(p, j), JobOK(p, j)
    PROVE  IInv'
<1>1. /\ pc' = p /\ job' = j
      /\ UNCHANGED <<store, clock, conn, backlog, approvals, released, commits>>
  BY Zenon DEF GoOn, World, History
<1>2. Shapes'
  BY <1>1, Zenon DEF IInv, Shapes
<1>3. StoreOK' /\ Grows
  BY <1>1, StoreStays, Zenon DEF IInv
<1>4. ReleasedOK' /\ NoWriteForALeftClient'
  BY <1>1, <1>3, ReleasedStays, Zenon DEF IInv, NoWriteForALeftClient
<1>5. JobOK(pc, job)'
  <2>1. RequestOK(pc, job)' /\ SubjectOK(pc, job)' /\ ProofOK(pc, job)' /\ DOMAIN job' = DOMAIN NoJob
    BY <1>1, ZenonT(60) DEF JobOK, RequestOK, SubjectOK, ProofOK
  <2>2. ApprovalOK(pc, job)' /\ WaitOK(pc, job)' /\ TimeOK(pc, job)'
    BY <1>1, Zenon DEF JobOK, ApprovalOK, WaitOK, TimeOK, MadeInTime
  <2>3. AnswerOK(pc, job)'
    BY <1>1, Zenon DEF JobOK, AnswerOK, Consented, Recorded
  <2> QED
    BY <2>1, <2>2, <2>3, Zenon DEF JobOK
<1> QED
  BY <1>2, <1>3, <1>4, <1>5, Zenon DEF IInv

\* Changing a connection's state, answer or bytes leaves its request alone.
LEMMA ConnectionKeepsRequest ==
    ASSUME Shapes, DOMAIN conn' = Connections,
           \A c \in Connections : /\ DOMAIN conn'[c] = {"state", "request", "bytes", "answer"}
                                  /\ conn'[c].request = conn[c].request,
           UNCHANGED <<store, clock, backlog>>
    PROVE  Shapes'
<1>1. \A i \in 1 .. Len(backlog) : conn'[backlog[i]].request \in Requests
  <2> SUFFICES ASSUME NEW i \in 1 .. Len(backlog)
               PROVE  conn'[backlog[i]].request \in Requests
    OBVIOUS
  <2>1. backlog[i] \in Connections
    BY DEF Shapes
  <2> QED
    BY <2>1, Zenon DEF Shapes
<1> QED
  BY <1>1, Zenon DEF Shapes

\* Refusing a request forgets it.
LEMMA Rejects ==
    ASSUME IInv, NEW failure, Reject(failure)
    PROVE  IInv'
<1>1. /\ pc' = "idle" /\ job' = NoJob
      /\ conn' = [conn EXCEPT
           ![job.conn].state = IF @ = "closed" THEN @ ELSE "done",
           ![job.conn].answer = IF conn[job.conn].state = "closed" THEN None ELSE failure]
      /\ UNCHANGED <<store, clock, backlog, approvals, released, commits>>
  BY Zenon DEF Reject, World, History
<1>2. /\ DOMAIN conn' = Connections
      /\ \A c \in Connections : /\ DOMAIN conn'[c] = {"state", "request", "bytes", "answer"}
                                /\ conn'[c].request = conn[c].request
  BY <1>1 DEF IInv, Shapes
<1>3. Shapes'
  BY <1>1, <1>2, ConnectionKeepsRequest, Zenon DEF IInv
<1>4. StoreOK' /\ Grows
  BY <1>1, StoreStays, Zenon DEF IInv
<1>5. ReleasedOK' /\ NoWriteForALeftClient'
  BY <1>1, <1>4, ReleasedStays, Zenon DEF IInv, NoWriteForALeftClient
<1>6. JobOK(pc, job)'
  BY <1>1, IdleJob, NoJobIsIdle, Zenon
<1> QED
  BY <1>3, <1>4, <1>5, <1>6, Zenon DEF IInv

-----------------------------------------------------------------------------
(* Jobs in order at a step *)

\* Before the prompt a job is in order if its request is.
LEMMA FreshJob ==
    ASSUME NEW p \in {"receive", "review", "reviewTransition", "reviewParticipation"},
           NEW j, DOMAIN j = DOMAIN NoJob, RequestOK(p, j), j.proof = None
    PROVE  JobOK(p, j)
<1>1. /\ p \notin Approved \cup {"prompt"} /\ p \notin WithProof \cup {"respond"}
      /\ p # "confirm" /\ p \notin {"signed", "record"}
      /\ p \notin {"signed", "signedTransition"} /\ p \notin {"record", "commit"}
  BY Zenon DEF Approved, WithProof, Plain, Transition, Participation
<1> QED
  BY <1>1, Zenon DEF JobOK, SubjectOK, ApprovalOK, ProofOK, AnswerOK, WaitOK, TimeOK

\* At the prompt there is a subject besides.
LEMMA PromptJob ==
    ASSUME NEW j, DOMAIN j = DOMAIN NoJob, RequestOK("prompt", j), SubjectOK("prompt", j),
           j.proof = None
    PROVE  JobOK("prompt", j)
<1>1. /\ "prompt" \notin Approved /\ "prompt" \notin WithProof \cup {"respond"}
      /\ "prompt" \notin {"signed", "record"}
      /\ "prompt" \notin {"signed", "signedTransition"} /\ "prompt" \notin {"record", "commit"}
  BY Zenon DEF Approved, WithProof, Plain, Transition, Participation
<1> QED
  BY <1>1, Zenon DEF JobOK, ApprovalOK, ProofOK, AnswerOK, WaitOK, TimeOK

\* After the prompt and before the signature a job stays in order from step to
\* step of its kind of request.
LEMMA ApprovedJob ==
    ASSUME NEW p \in Approved \ WithProof, NEW q \in Approved \ WithProof,
           p \in Plain <=> q \in Plain, p \in Transition <=> q \in Transition,
           NEW j, JobOK(p, j)
    PROVE  JobOK(q, j)
<1>1. /\ q \notin WithProof \cup {"respond", "prompt", "review", "reviewTransition",
                                   "reviewParticipation", "idle", "down"}
      /\ p \notin WithProof \cup {"respond", "idle", "down"}
      /\ q # "confirm" /\ q \notin {"signed", "record"} /\ q # "record"
      /\ q \notin {"signed", "signedTransition"} /\ q \notin {"record", "commit"}
      /\ p \in Participation <=> q \in Participation
  BY Zenon DEF Approved, WithProof, Plain, Transition, Participation
<1>2. RequestOK(q, j)
  BY <1>1, Zenon DEF JobOK, RequestOK
<1>3. SubjectOK(q, j) /\ ApprovalOK(q, j) /\ ProofOK(q, j)
  BY <1>1, Zenon DEF JobOK, SubjectOK, ApprovalOK, ProofOK
<1>4. AnswerOK(q, j) /\ WaitOK(q, j) /\ TimeOK(q, j)
  BY <1>1, Zenon DEF AnswerOK, WaitOK, TimeOK
<1> QED
  BY <1>2, <1>3, <1>4, Zenon DEF JobOK

\* A signature by the key that was approved, over what was approved.
LEMMA SignedJob ==
    ASSUME NEW p, NEW q,
           \/ p = "sign" /\ q = "signed"
           \/ p = "signTransition" /\ q = "signedTransition"
           \/ p = "signParticipation" /\ q = "complete",
           Shapes, JobOK(p, job), SignerMakes(job.signer.key, job.signer.locator),
           NEW wrapper, p = "sign" => ProofBy(job.signer.locator, wrapper) # None
    PROVE  JobOK(q, Signed(ProofBy(job.signer.locator, wrapper)))
<1> DEFINE proof == ProofBy(job.signer.locator, wrapper)
           j == Signed(proof)
<1>1. proof.by = job.signer.key /\ proof.subject = job.subject
  BY DEF ProofBy, SignerMakes
<1>2. DOMAIN job = {"conn", "request", "signer", "seen", "subject", "proof", "at",
                    "fresh", "waiting", "signedAt"}
  BY NoJobIsIdle, Zenon DEF JobOK
<1>3. /\ DOMAIN j = DOMAIN job /\ j.conn = job.conn /\ j.request = job.request
      /\ j.signer = job.signer /\ j.subject = job.subject /\ j.proof = proof
      /\ j.signedAt = clock
  BY <1>2 DEF Signed
<1>4. j.waiting = (conn[job.conn].state = "open")
  BY <1>2 DEF Signed
<1>5. clock \in Int /\ clock <= clock
  BY DEF Shapes
<1>6. /\ p \in Approved /\ q \in Approved /\ q \in WithProof
      /\ p \in Plain <=> q \in Plain
      /\ p \in Transition <=> q \in Transition
      /\ p \in Participation <=> q \in Participation
      /\ q \notin {"idle", "down", "review", "reviewTransition", "reviewParticipation",
                   "prompt", "respond", "record", "confirm", "commit"}
      /\ p \notin {"idle", "down"}
  BY Zenon DEF Approved, WithProof, Plain, Transition, Participation
<1> HIDE DEF j, proof
<1>7. RequestOK(q, j)
  BY <1>3, <1>6, Zenon DEF JobOK, RequestOK
<1>8. SubjectOK(q, j)
  BY <1>3, <1>6, Zenon DEF JobOK, SubjectOK
<1>9. ApprovalOK(q, j)
  BY <1>3, <1>6, Zenon DEF JobOK, ApprovalOK
<1>10. ProofOK(q, j)
  BY <1>1, <1>3, <1>6, Zenon DEF ProofOK, proof
<1>11. AnswerOK(q, j) /\ WaitOK(q, j)
  BY <1>3, <1>4, <1>6, Zenon DEF AnswerOK, WaitOK
<1>12. TimeOK(q, j)
  BY <1>3, <1>5, <1>6, Zenon DEF TimeOK
<1>13. DOMAIN j = DOMAIN NoJob
  BY <1>3, Zenon DEF JobOK
<1> QED
  BY <1>7, <1>8, <1>9, <1>10, <1>11, <1>12, <1>13, Zenon DEF JobOK, j, proof

-----------------------------------------------------------------------------
(* One step of the daemon at a time: the review and the prompt *)

\* Accepting a connection starts a job for the request that was sent on it.
LEMMA AcceptKeeps ==
    ASSUME IInv, Accept
    PROVE  IInv'
<1> DEFINE c == Head(backlog)
<1>1. /\ backlog # <<>> /\ backlog' = Tail(backlog)
      /\ conn' = [conn EXCEPT ![c].state = IF @ = "queued" THEN "open" ELSE @]
      /\ job' = [NoJob EXCEPT !.conn = c, !.request = conn[c].request]
      /\ pc' = "receive"
      /\ UNCHANGED <<store, clock, approvals, released, commits>>
  BY Zenon DEF Accept, World, History
<1>2. backlog \in Seq(Connections) /\ \A i \in 1 .. Len(backlog) : conn[backlog[i]].request \in Requests
  BY Zenon DEF IInv, Shapes
<1>3. c \in Connections /\ c = backlog[1] /\ 1 \in 1 .. Len(backlog)
  BY <1>1, <1>2
<1>4. /\ Tail(backlog) \in Seq(Connections)
      /\ \A i \in 1 .. Len(Tail(backlog)) : /\ Tail(backlog)[i] = backlog[i + 1]
                                            /\ i + 1 \in 1 .. Len(backlog)
  BY <1>1, <1>2
<1>5. /\ DOMAIN conn' = Connections
      /\ \A d \in Connections : /\ DOMAIN conn'[d] = {"state", "request", "bytes", "answer"}
                                /\ conn'[d].request = conn[d].request
  BY <1>1 DEF IInv, Shapes
<1>6. \A i \in 1 .. Len(backlog') : conn'[backlog'[i]].request \in Requests
  <2> SUFFICES ASSUME NEW i \in 1 .. Len(Tail(backlog))
               PROVE  conn'[Tail(backlog)[i]].request \in Requests
    BY <1>1, Zenon
  <2>1. Tail(backlog)[i] \in Connections
    BY <1>4
  <2> QED
    BY <2>1, <1>2, <1>4, <1>5, ZenonT(60)
<1>7. Shapes'
  BY <1>1, <1>4, <1>5, <1>6, Zenon DEF IInv, Shapes
<1>8. StoreOK' /\ Grows
  BY <1>1, StoreStays, Zenon DEF IInv
<1>9. ReleasedOK' /\ NoWriteForALeftClient'
  BY <1>1, <1>8, ReleasedStays, Zenon DEF IInv, NoWriteForALeftClient
<1>10. DOMAIN job' = DOMAIN NoJob /\ job'.conn = c /\ job'.request = conn[c].request /\ job'.proof = None
  BY <1>1 DEF NoJob
<1>11. conn[c].request \in Requests
  BY <1>2, <1>3, Zenon
<1>12. JobOK(pc, job)'
  <2>1. RequestOK(pc, job)'
    BY <1>1, <1>3, <1>10, <1>11, Zenon DEF RequestOK, Plain, Transition, Participation
  <2>2. /\ pc' \notin Approved \cup {"prompt"} /\ pc' \notin WithProof \cup {"respond"}
        /\ pc' # "confirm" /\ pc' \notin {"signed", "record"}
        /\ pc' \notin {"signed", "signedTransition"} /\ pc' \notin {"record", "commit"}
    BY <1>1, Zenon DEF Approved, WithProof, Plain, Transition, Participation
  <2> QED
    BY <2>1, <2>2, <1>10, Zenon DEF JobOK, SubjectOK, ApprovalOK, ProofOK, AnswerOK, WaitOK, TimeOK
<1> QED
  BY <1>7, <1>8, <1>9, <1>12, Zenon DEF IInv

\* A check that found nothing was passed.
LEMMA Passed ==
    ASSUME NEW condition, NEW failure,
           failure \in {"InvalidRequest", "ClientCancelled"},
           Unless(condition, failure) = None
    PROVE  condition
BY DaemonAssumption, Zenon DEF Unless

\* The dispatch sends a request to the steps for its kind.
LEMMA ReceiveKeeps ==
    ASSUME IInv, Receive
    PROVE  IInv'
<1> DEFINE a == Unless(job.request.kind # "Malformed", "InvalidRequest")
           failure == FirstFailure(<<a, ConnectionFailure>>)
           next == CASE job.request.kind = "PersonaTransition" -> "reviewTransition"
                     [] job.request.kind = "RecoveryParticipation" -> "reviewParticipation"
                     [] OTHER -> "review"
<1>1. pc = "receive" /\ IF failure # None THEN Reject(failure) ELSE GoOn(next, job)
  BY Zenon DEF Receive
<1>2. CASE failure # None
  BY <1>1, <1>2, Rejects, Zenon
<1>3. CASE failure = None
  <2>1. job.request.kind # "Malformed"
    BY <1>3, NoFailureOfTwo, Passed, Zenon
  <2>2. JobOK("receive", job)
    BY <1>1, Zenon DEF IInv
  <2>3. /\ job.conn \in Connections /\ job.request \in Requests
        /\ DOMAIN job = DOMAIN NoJob /\ job.proof = None
    BY <2>2, Zenon DEF JobOK, RequestOK, ProofOK, WithProof
  <2>4. job.request.kind \in RequestKinds
    BY <2>3, DaemonAssumption, Zenon
  <2>5. /\ next \in {"review", "reviewTransition", "reviewParticipation"}
        /\ next = "reviewTransition" => job.request.kind = "PersonaTransition"
        /\ next = "reviewParticipation" => job.request.kind = "RecoveryParticipation"
        /\ next = "review" => job.request.kind \in PlainKinds
    <3>1. CASE job.request.kind = "PersonaTransition"
      BY <3>1, Zenon
    <3>2. CASE job.request.kind = "RecoveryParticipation"
      BY <3>2, Zenon
    <3>3. CASE job.request.kind \in PlainKinds
      <4>1. next = "review"
        BY <3>3, Zenon DEF PlainKinds
      <4> QED
        BY <3>3, <4>1, Zenon
    <3> QED
      BY <2>1, <2>4, <3>1, <3>2, <3>3, Zenon DEF RequestKinds, PlainKinds
  <2> HIDE DEF next
  <2>6. RequestOK(next, job)
    BY <2>3, <2>5, Zenon DEF RequestOK, Plain, Transition, Participation
  <2>7. JobOK(next, job)
    BY <2>3, <2>5, <2>6, FreshJob, Zenon
  <2> QED
    BY <1>1, <1>3, <2>7, GoesOn, Zenon
<1> QED
  BY <1>2, <1>3, Zenon

\* The subject shown is of the kind requested.
LEMMA PreparedKind ==
    ASSUME job.request.kind \in PlainKinds, PrepareRequest # None
    PROVE  /\ PrepareRequest.kind = job.request.kind
           /\ job.request.kind \in Expiring => PrepareRequest.expiresAt = job.request.expiresAt
<1> DEFINE r == job.request
           a == [kind |-> "Artifact", content |-> conn[job.conn].bytes]
           d == [kind |-> "DomainControl", issuedAt |-> r.issuedAt, expiresAt |-> r.expiresAt]
           o == [kind |-> "PersonaRoot", key |-> r.key, issuedAt |-> r.issuedAt]
<1>1. a.kind = "Artifact" /\ d.kind = "DomainControl" /\ d.expiresAt = r.expiresAt
      /\ o.kind = "PersonaRoot"
  OBVIOUS
<1> HIDE DEF a, d, o
<1>2. CASE r.kind = "Artifact"
  <2>1. PrepareRequest = a
    BY <1>2, Zenon DEF PrepareRequest, a
  <2> QED
    BY <1>1, <1>2, <2>1, Zenon DEF Expiring
<1>3. CASE r.kind = "DomainControl"
  <2>1. PrepareRequest = d
    BY <1>3, Zenon DEF PrepareRequest, d
  <2> QED
    BY <1>1, <1>3, <2>1, Zenon
<1>4. CASE r.kind = "PersonaRoot"
  <2>1. PrepareRequest = o
    BY <1>4, Zenon DEF PrepareRequest, o
  <2> QED
    BY <1>1, <1>4, <2>1, Zenon DEF Expiring
<1> QED
  BY <1>2, <1>3, <1>4, Zenon DEF PlainKinds

\* The prompt shows the subject of the request.
LEMMA ReviewKeeps ==
    ASSUME IInv, Review
    PROVE  IInv'
<1> DEFINE signer == ActiveSigner
           subject == IF signer = None THEN None ELSE PrepareRequest
           a == Unless(signer # None, "PersonaUnavailable")
           b == Unless(subject # None, "InvalidRequest")
           failure == FirstFailure(<<a, b, ConnectionFailure>>)
           j == [job EXCEPT !.signer = signer, !.subject = subject]
<1>1. pc = "review" /\ IF failure # None THEN Reject(failure) ELSE GoOn("prompt", j)
  BY Zenon DEF Review
<1>2. CASE failure # None
  BY <1>1, <1>2, Rejects, Zenon
<1>3. CASE failure = None
  <2>1. subject # None
    BY <1>3, NoFailureOfThree, Passed, ZenonT(60)
  <2>2. JobOK("review", job)
    BY <1>1, Zenon DEF IInv
  <2>3. /\ job.conn \in Connections /\ job.request \in Requests /\ job.request.kind \in PlainKinds
        /\ DOMAIN job = DOMAIN NoJob /\ job.proof = None
    BY <2>2, Zenon DEF JobOK, RequestOK, ProofOK, WithProof
  <2>4. subject = PrepareRequest
    BY <2>1, Zenon
  <2> HIDE DEF signer, subject
  <2>5. /\ DOMAIN j = DOMAIN NoJob /\ j.conn = job.conn /\ j.request = job.request
        /\ j.subject = subject /\ j.proof = job.proof
    BY <2>3, NoJobIsIdle
  <2> HIDE DEF j
  <2>6. /\ subject.kind = job.request.kind
        /\ job.request.kind \in Expiring => subject.expiresAt = job.request.expiresAt
    BY <2>1, <2>3, <2>4, PreparedKind, Zenon
  <2>7. RequestOK("prompt", j)
    BY <2>3, <2>5, Zenon DEF RequestOK, Plain, Transition, Participation, PlainKinds
  <2>8. SubjectOK("prompt", j)
    BY <2>3, <2>5, <2>6, Zenon DEF SubjectOK, PlainKinds
  <2>9. JobOK("prompt", j)
    BY <2>3, <2>5, <2>7, <2>8, PromptJob, Zenon
  <2> QED
    BY <1>1, <1>3, <2>9, GoesOn, Zenon
<1> QED
  BY <1>2, <1>3, Zenon

\* The user's consent is for the key and the subject of the job.
LEMMA DecideKeeps ==
    ASSUME IInv, Decide
    PROVE  IInv'
<1>1. CASE \E failure \in {"UserDeclined", "ClientCancelled", "ConsentUnavailable"} : Reject(failure)
  BY <1>1, Rejects, Zenon
<1>2. CASE /\ approvals' = approvals \union {Prompt}
           /\ pc' = AfterConsent
           /\ UNCHANGED <<World, released, commits, conn, backlog, job, crashes>>
  <2>1. /\ UNCHANGED <<store, clock, released, commits, conn, backlog, job>>
        /\ approvals \subseteq approvals' /\ Prompt \in approvals'
    BY <1>2, Zenon DEF World
  <2>2. pc = "prompt" /\ JobOK("prompt", job)
    BY Zenon DEF IInv, Decide
  <2>3. Shapes'
    BY <2>1, Zenon DEF IInv, Shapes
  <2>4. StoreOK' /\ Grows
    BY <2>1, StoreStays, Zenon DEF IInv
  <2>5. ReleasedOK' /\ NoWriteForALeftClient'
    BY <2>1, <2>4, ReleasedStays, Zenon DEF IInv, NoWriteForALeftClient
  <2>6. Prompt.id = job.conn /\ Prompt.key = job.signer.key /\ Prompt.subject = job.subject
    BY DEF Prompt
  <2>7. /\ job.conn \in Connections /\ job.request \in Requests
        /\ job.request.kind # "Malformed" /\ job.proof = None /\ DOMAIN job = DOMAIN NoJob
        /\ SubjectOK("prompt", job)
    BY <2>2, Zenon DEF JobOK, RequestOK, ProofOK, WithProof
  <2>8. job.request.kind \in RequestKinds
    BY <2>7, DaemonAssumption, Zenon
  <2>9. /\ pc' \in {"recheck", "recheckTransition", "recheckParticipation"}
        /\ pc' = "recheckTransition" => job.request.kind = "PersonaTransition"
        /\ pc' = "recheckParticipation" => job.request.kind = "RecoveryParticipation"
        /\ pc' = "recheck" => job.request.kind \in PlainKinds
    <3>1. CASE job.request.kind = "PersonaTransition"
      BY <1>2, <3>1, Zenon DEF AfterConsent
    <3>2. CASE job.request.kind = "RecoveryParticipation"
      BY <1>2, <3>2, Zenon DEF AfterConsent
    <3>3. CASE job.request.kind \in PlainKinds
      <4>1. pc' = "recheck"
        BY <1>2, <3>3, Zenon DEF AfterConsent, PlainKinds
      <4> QED
        BY <3>3, <4>1, Zenon
    <3> QED
      BY <2>7, <2>8, <3>1, <3>2, <3>3, Zenon DEF RequestKinds, PlainKinds
  <2>10. RequestOK(pc, job)'
    BY <2>1, <2>7, <2>9, Zenon DEF RequestOK, Plain, Transition, Participation
  <2>11. SubjectOK(pc, job)'
    BY <2>1, <2>7, Zenon DEF SubjectOK
  <2>12. ApprovalOK(pc, job)'
    BY <2>1, <2>6, Zenon DEF ApprovalOK
  <2>13. /\ pc' \notin WithProof \cup {"respond"} /\ pc' \notin {"signed", "record"}
         /\ pc' # "confirm" /\ pc' \notin {"signed", "signedTransition"}
         /\ pc' \notin {"record", "commit"}
    BY <2>9, Zenon DEF WithProof
  <2>14. ProofOK(pc, job)' /\ AnswerOK(pc, job)' /\ WaitOK(pc, job)' /\ TimeOK(pc, job)'
    BY <2>1, <2>7, <2>13, Zenon DEF ProofOK, AnswerOK, WaitOK, TimeOK
  <2> QED
    BY <2>1, <2>3, <2>4, <2>5, <2>7, <2>10, <2>11, <2>12, <2>14, Zenon DEF IInv, JobOK
<1> QED
  BY <1>1, <1>2, Zenon DEF Decide

\* The three second looks at what was on show change nothing but the time of
\* the look.
LEMMA RecheckKeeps ==
    ASSUME IInv, Recheck
    PROVE  IInv'
<1>1. pc = "recheck" /\ ((\E failure : Reject(failure)) \/ GoOn("sign", job))
  BY Zenon DEF Recheck
<1>2. "recheck" \in Approved \ WithProof /\ "sign" \in Approved \ WithProof
      /\ "recheck" \in Plain /\ "sign" \in Plain
      /\ "recheck" \notin Transition /\ "sign" \notin Transition
  BY Zenon DEF Approved, WithProof, Plain, Transition, Participation
<1>3. JobOK("sign", job)
  BY <1>1, <1>2, ApprovedJob, Zenon DEF IInv
<1> QED
  BY <1>1, <1>3, Rejects, GoesOn, Zenon

\* The signature is by the key that was on show.
LEMMA SignPreparedKeeps ==
    ASSUME IInv, SignPrepared
    PROVE  IInv'
<1>1. /\ pc = "sign"
      /\ \/ \E failure : Reject(failure)
         \/ /\ SignerMakes(job.signer.key, job.signer.locator)
            /\ \E wrapper \in Wrappers :
                 /\ ProofBy(job.signer.locator, wrapper) # None
                 /\ GoOn("signed", Signed(ProofBy(job.signer.locator, wrapper)))
  BY Zenon DEF SignPrepared
<1>2. CASE \E failure : Reject(failure)
  BY <1>2, Rejects, Zenon
<1>3. ASSUME SignerMakes(job.signer.key, job.signer.locator), NEW wrapper \in Wrappers,
             ProofBy(job.signer.locator, wrapper) # None,
             GoOn("signed", Signed(ProofBy(job.signer.locator, wrapper)))
      PROVE  IInv'
  <2>1. JobOK("signed", Signed(ProofBy(job.signer.locator, wrapper)))
    BY <1>1, <1>3, SignedJob, Zenon DEF IInv
  <2> QED
    BY <1>3, <2>1, GoesOn, Zenon
<1> QED
  BY <1>1, <1>2, <1>3, Zenon

-----------------------------------------------------------------------------
(* The answer *)

\* A signed job may be answered once its result is recorded and in time.
LEMMA AnswerJob ==
    ASSUME NEW p \in WithProof, NEW j, JobOK(p, j), Recorded(j.proof),
           MadeInTime(j.proof, j.signedAt)
    PROVE  JobOK("respond", j)
<1>1. /\ p \in Approved /\ p \notin {"idle", "down"} /\ "respond" \notin Approved \cup {"prompt"}
      /\ "respond" \notin WithProof
      /\ "respond" \notin Plain \cup {"review"} /\ "respond" \notin Transition \cup {"reviewTransition"}
      /\ "respond" \notin Participation \cup {"reviewParticipation"}
  BY Zenon DEF Approved, WithProof, Plain, Transition, Participation
<1>2. RequestOK("respond", j) /\ SubjectOK("respond", j) /\ ApprovalOK("respond", j)
  BY <1>1, Zenon DEF JobOK, RequestOK, SubjectOK, ApprovalOK
<1>3. ProofOK("respond", j) /\ WaitOK("respond", j) /\ TimeOK("respond", j)
  BY <1>1, Zenon DEF ProofOK, WaitOK, TimeOK
<1>4. Consented(j.conn, j.proof)
  BY <1>1, Zenon DEF JobOK, ApprovalOK, ProofOK, Consented
<1>5. AnswerOK("respond", j)
  BY <1>4, Zenon DEF AnswerOK
<1> QED
  BY <1>2, <1>3, <1>5, Zenon DEF JobOK

\* A signature made before now is in time if now is.
LEMMA StillInTime ==
    ASSUME Shapes, NEW p \in WithProof, JobOK(p, job),
           job.request.kind \in Expiring => clock < job.request.expiresAt
    PROVE  MadeInTime(job.proof, job.signedAt)
<1>1. /\ job.signedAt \in Int /\ (ClockCanStepBack \/ job.signedAt <= clock)
      /\ job.proof.subject = job.subject
      /\ job.request \in Requests
    <2>1. p \notin {"idle", "down"}
      BY Zenon DEF WithProof
    <2> QED
      BY <2>1, Zenon DEF JobOK, TimeOK, ProofOK, RequestOK
<1>2. SUFFICES ASSUME ~ ClockCanStepBack, job.proof.subject.kind \in Expiring
               PROVE  job.signedAt < job.proof.subject.expiresAt
  BY Zenon DEF MadeInTime
<1>3. p \in Approved \cup {"prompt"}
  BY Zenon DEF Approved, WithProof, Plain, Transition, Participation
<1>4. job.request.kind \in Expiring
  <2>1. CASE job.request.kind = "PersonaTransition"
    BY <1>1, <1>2, <1>3, <2>1, Zenon DEF JobOK, SubjectOK, Expiring
  <2>2. CASE job.request.kind # "PersonaTransition"
    BY <1>1, <1>2, <1>3, <2>2, Zenon DEF JobOK, SubjectOK
  <2> QED
    BY <2>1, <2>2, Zenon
<1>5. job.proof.subject.expiresAt = job.request.expiresAt /\ job.request.expiresAt \in Nat
  BY <1>1, <1>3, <1>4, DaemonAssumption, Zenon DEF JobOK, SubjectOK
<1>6. clock \in Int /\ clock < job.request.expiresAt
  BY <1>4, Zenon DEF Shapes
<1> QED
  BY <1>1, <1>2, <1>5, <1>6

\* After the signature a root goes on to be recorded, everything else to be
\* answered.
LEMMA PostCheckKeeps ==
    ASSUME IInv, PostCheck
    PROVE  IInv'
<1> DEFINE root == job.subject.kind = "PersonaRoot"
           a == Unless(DomainProofHolds, "InvalidRequest")
           b == Unless(ActiveSigner = job.signer, "PersonaUnavailable")
           c == IF root THEN ConnectionFailure ELSE None
           failure == FirstFailure(<<a, b, c>>)
<1>1. /\ pc = "signed"
      /\ IF failure # None THEN Reject(failure)
         ELSE GoOn(IF root THEN "record" ELSE "respond", job)
  BY Zenon DEF PostCheck
<1>2. CASE failure # None
  BY <1>1, <1>2, Rejects, Zenon
<1>3. CASE failure = None
  <2>1. DomainProofHolds /\ c = None
    <3> HIDE DEF c, b, DomainProofHolds
    <3>1. a = None /\ c = None
      BY <1>3, NoFailureOfThree, Zenon
    <3> QED
      BY <3>1, DaemonAssumption, Zenon DEF Unless
  <2>2. JobOK("signed", job) /\ Shapes
    BY <1>1, Zenon DEF IInv
  <2>3. "signed" \in WithProof /\ "signed" \in Plain /\ "signed" \in Approved
    BY Zenon DEF WithProof, Plain, Approved
  <2>4. /\ job.conn \in Connections /\ job.request \in Requests
        /\ job.request.kind \in PlainKinds
    BY <2>2, <2>3, Zenon DEF JobOK, RequestOK
  <2>5. job.subject.kind = job.request.kind
    BY <2>2, <2>3, <2>4, Zenon DEF JobOK, SubjectOK, PlainKinds
  <2>6. CASE root
    <3>1. job.waiting
      BY <2>1, <2>2, <2>6, NoConnectionFailure, Zenon DEF JobOK, WaitOK
    <3>2. "record" \in Plain /\ "record" \in Approved /\ "record" \in WithProof
          /\ "record" \notin Transition /\ "record" \notin Participation
      BY Zenon DEF Plain, Approved, WithProof, Transition, Participation
    <3>3. RequestOK("record", job)
      BY <2>4, <2>5, <2>6, <3>2, Zenon DEF RequestOK
    <3>4. SubjectOK("record", job) /\ ApprovalOK("record", job) /\ ProofOK("record", job)
      BY <2>2, <2>3, <3>2, Zenon DEF JobOK, SubjectOK, ApprovalOK, ProofOK
    <3>5. AnswerOK("record", job) /\ WaitOK("record", job) /\ TimeOK("record", job)
      BY <2>2, <2>3, <3>1, <3>2, Zenon DEF JobOK, AnswerOK, WaitOK, TimeOK
    <3>6. JobOK("record", job)
      BY <2>2, <3>3, <3>4, <3>5, Zenon DEF JobOK
    <3> QED
      BY <1>1, <1>3, <2>6, <3>6, GoesOn, Zenon
  <2>7. CASE ~ root
    <3>1. job.request.kind \in Expiring => clock < job.request.expiresAt
      <4>1. SUFFICES ASSUME job.request.kind \in Expiring
                     PROVE  clock < job.request.expiresAt
        BY Zenon
      <4>2. job.request.kind = "DomainControl"
        BY <2>4, <4>1, Zenon DEF Expiring, PlainKinds
      <4>3. job.subject.expiresAt = job.request.expiresAt
        BY <2>2, <2>3, <4>1, Zenon DEF JobOK, SubjectOK
      <4> QED
        BY <2>1, <2>5, <4>2, <4>3, Zenon DEF DomainProofHolds
    <3>2. MadeInTime(job.proof, job.signedAt)
      BY <2>2, <2>3, <3>1, StillInTime, Zenon
    <3>3. job.proof.subject = job.subject
      BY <2>2, <2>3, Zenon DEF JobOK, ProofOK
    <3>4. Recorded(job.proof)
      BY <2>4, <2>5, <2>7, <3>3, Zenon DEF Recorded, PlainKinds
    <3>5. JobOK("respond", job)
      BY <2>2, <2>3, <3>2, <3>4, AnswerJob, Zenon
    <3> QED
      BY <1>1, <1>3, <2>7, <3>5, GoesOn, Zenon
  <2> QED
    BY <2>6, <2>7, Zenon
<1> QED
  BY <1>2, <1>3, Zenon

\* The recorded root is the approved one, and the client waited for it.
LEMMA RecordRootKeeps ==
    ASSUME IInv, RecordRoot
    PROVE  IInv'
<1> DEFINE w == [id |-> job.conn, subject |-> job.subject, waiting |-> job.waiting]
<1>1. CASE Reject("InvalidRequest")
  BY <1>1, Rejects, Zenon
<1>2. CASE /\ RootAccepted(job.proof)
           /\ store' = [store EXCEPT !.root = job.proof]
           /\ commits' = commits \union {w}
           /\ pc' = "respond"
           /\ UNCHANGED <<holds, clock, outside, approvals, released, conn,
                          backlog, job, crashes>>
  <2>1. pc = "record" /\ JobOK("record", job)
    BY Zenon DEF IInv, RecordRoot
  <2>2. "record" \in WithProof /\ "record" \in Approved
    BY Zenon DEF WithProof, Plain, Approved
  <2>3. /\ job.waiting /\ job.proof # None /\ job.proof.subject = job.subject
        /\ job.proof.by = job.signer.key /\ job.request.kind = "PersonaRoot"
    BY <2>1, <2>2, Zenon DEF JobOK, WaitOK, ProofOK, RequestOK
  <2>4. job.proof.subject.kind = "PersonaRoot"
    BY <2>1, <2>2, <2>3, Zenon DEF JobOK, SubjectOK
  <2>5. /\ DOMAIN store' = DOMAIN store /\ store'.journal = store.journal
        /\ store'.root = job.proof
    BY <1>2 DEF IInv, Shapes
  <2>6. Shapes'
    BY <1>2, <2>5, Zenon DEF IInv, Shapes
  <2>7. Grows
    <3>1. store.root # None => store'.root = store.root
      BY <1>2, <2>5, Zenon DEF RootAccepted
    <3> QED
      BY <1>2, <2>5, <3>1, Zenon DEF Grows
  <2>8. StoreOK'
    <3>1. \E x \in approvals : Consented(x.id, job.proof)
      BY <2>1, <2>2, <2>3, Zenon DEF JobOK, ApprovalOK, Consented
    <3>2. \E x \in approvals' : Consented(x.id, job.proof)'
      BY <1>2, <2>7, <3>1, GrowsKeeps, Zenon
    <3>3. ASSUME NEW i \in DOMAIN store.journal, store.journal[i].kind = "Routine"
          PROVE  /\ store.journal[i].proof.subject.kind = "Routine"
                 /\ \E x \in approvals' : Consented(x.id, store.journal[i].proof)'
      BY <2>5, <2>7, <3>3, GrowsKeeps, Zenon DEF StoreOK, IInv
    <3> QED
      BY <1>2, <2>5, <3>2, <3>3, Zenon DEF StoreOK
  <2>9. ReleasedOK'
    BY <1>2, <2>7, ReleasedStays, Zenon DEF IInv
  <2>10. NoWriteForALeftClient'
    <3>1. w.waiting
      BY <2>3
    <3> HIDE DEF w
    <3> QED
      BY <1>2, <3>1, Zenon DEF IInv, NoWriteForALeftClient
  <2>11. JobOK(pc, job)'
    <3>1. Recorded(job.proof)'
      BY <1>2, <2>3, <2>4, <2>5, Zenon DEF Recorded
    <3>2. MadeInTime(job.proof, job.signedAt)
      BY <2>4, Zenon DEF MadeInTime, Expiring
    <3>3. Consented(job.conn, job.proof)
      BY <2>1, <2>2, <2>3, Zenon DEF JobOK, ApprovalOK, Consented
    <3>4. Consented(job.conn, job.proof)'
      BY <1>2, <2>7, <3>3, GrowsKeeps, Zenon
    <3>5. job.conn \in Connections /\ job.request \in Requests /\ DOMAIN job = DOMAIN NoJob
      BY <2>1, Zenon DEF JobOK, RequestOK
    <3>6. /\ pc' = "respond" /\ UNCHANGED job
          /\ pc' \notin Approved \cup {"prompt"} /\ pc' \notin WithProof
          /\ pc' \notin Plain \cup {"review"} /\ pc' \notin Transition \cup {"reviewTransition"}
          /\ pc' \notin Participation \cup {"reviewParticipation"}
      BY <1>2, Zenon DEF Approved, WithProof, Plain, Transition, Participation
    <3>7. RequestOK(pc, job)' /\ SubjectOK(pc, job)' /\ ApprovalOK(pc, job)'
      BY <3>5, <3>6, Zenon DEF RequestOK, SubjectOK, ApprovalOK
    <3>8. ProofOK(pc, job)' /\ AnswerOK(pc, job)'
      BY <3>1, <3>4, <3>6, Zenon DEF ProofOK, AnswerOK
    <3>9. WaitOK(pc, job)' /\ TimeOK(pc, job)'
      BY <3>2, <3>6, Zenon DEF WaitOK, TimeOK, MadeInTime
    <3> QED
      BY <3>5, <3>6, <3>7, <3>8, <3>9, Zenon DEF JobOK
  <2> QED
    BY <2>6, <2>8, <2>9, <2>10, <2>11, Zenon DEF IInv
<1> QED
  BY <1>1, <1>2, Zenon DEF RecordRoot

\* The answer carries a proof that was approved, is recorded and is in time.
LEMMA RespondKeeps ==
    ASSUME IInv, Respond
    PROVE  IInv'
<1> DEFINE n == [id |-> job.conn, proof |-> job.proof, fresh |-> job.fresh,
                 signedAt |-> job.signedAt]
<1>1. CASE Reject(ConnectionFailure)
  BY <1>1, Rejects, Zenon
<1>2. CASE /\ released' = released \union {n}
           /\ conn' = [conn EXCEPT ![job.conn].state = "done", ![job.conn].answer = "approved"]
           /\ pc' = "idle"
           /\ job' = NoJob
           /\ UNCHANGED <<World, approvals, commits, backlog, crashes>>
  <2>1. pc = "respond" /\ JobOK("respond", job)
    BY Zenon DEF IInv, Respond
  <2>2. UNCHANGED <<store, clock, backlog, approvals, commits>>
    BY <1>2, Zenon DEF World
  <2>3. /\ DOMAIN conn' = Connections
        /\ \A c \in Connections : /\ DOMAIN conn'[c] = {"state", "request", "bytes", "answer"}
                                  /\ conn'[c].request = conn[c].request
    BY <1>2 DEF IInv, Shapes
  <2>4. Shapes'
    BY <2>2, <2>3, ConnectionKeepsRequest, Zenon DEF IInv
  <2>5. StoreOK' /\ Grows
    BY <2>2, StoreStays, Zenon DEF IInv
  <2>6. NoWriteForALeftClient'
    BY <2>2, Zenon DEF IInv, NoWriteForALeftClient
  <2>7. JobOK(pc, job)'
    BY <1>2, IdleJob, NoJobIsIdle, Zenon
  <2>8. n.id = job.conn /\ n.proof = job.proof /\ n.signedAt = job.signedAt
    OBVIOUS
  <2> HIDE DEF n
  <2>9. /\ \E a \in approvals : /\ Consented(a.id, n.proof)
                                /\ a.id = n.id \/ n.proof.subject.kind = "Routine"
        /\ Recorded(n.proof) /\ MadeInTime(n.proof, n.signedAt)
    <3>1. Recorded(job.proof) /\ MadeInTime(job.proof, job.signedAt)
      BY <2>1, Zenon DEF JobOK, AnswerOK, TimeOK
    <3>2. CASE Consented(job.conn, job.proof)
      <4>1. PICK a \in approvals : a.id = job.conn
        BY <3>2, Zenon DEF Consented
      <4> QED
        BY <2>8, <3>1, <3>2, <4>1, Zenon
    <3>3. CASE /\ job.proof.subject.kind = "Routine"
               /\ \E a \in approvals : Consented(a.id, job.proof)
      BY <2>8, <3>1, <3>3, Zenon
    <3> QED
      BY <2>1, <3>2, <3>3, Zenon DEF JobOK, AnswerOK
  <2>10. ReleasedOK'
    <3> SUFFICES ASSUME NEW p \in released'
                 PROVE  /\ \E a \in approvals' : /\ Consented(a.id, p.proof)'
                                                 /\ a.id = p.id \/ p.proof.subject.kind = "Routine"
                        /\ Recorded(p.proof)'
                        /\ MadeInTime(p.proof, p.signedAt)
      BY Zenon DEF ReleasedOK, MadeInTime
    <3>1. /\ \E a \in approvals : /\ Consented(a.id, p.proof)
                                  /\ a.id = p.id \/ p.proof.subject.kind = "Routine"
          /\ Recorded(p.proof) /\ MadeInTime(p.proof, p.signedAt)
      BY <1>2, <2>9, Zenon DEF IInv, ReleasedOK
    <3>2. PICK a \in approvals : /\ Consented(a.id, p.proof)
                                 /\ a.id = p.id \/ p.proof.subject.kind = "Routine"
      BY <3>1, Zenon
    <3>3. a \in approvals' /\ Consented(a.id, p.proof)' /\ Recorded(p.proof)'
      BY <2>5, <3>1, <3>2, GrowsKeeps, Zenon DEF Grows
    <3> QED
      BY <3>1, <3>2, <3>3, Zenon
  <2> QED
    BY <2>4, <2>5, <2>6, <2>7, <2>10, Zenon DEF IInv
<1> QED
  BY <1>1, <1>2, Zenon DEF Respond

-----------------------------------------------------------------------------
(* Routine transitions *)

\* A journal with rows has a last one.
LEMMA LastRow ==
    ASSUME NEW s, IsJournal(s), s # <<>>
    PROVE  Len(s) \in DOMAIN s
<1>1. s \in Seq({s[i] : i \in DOMAIN s})
  BY DEF IsJournal
<1> QED
  BY <1>1

\* A repeated request is answered with the approved and committed proof; a new
\* one goes on to the prompt.
LEMMA ReviewTransitionKeeps ==
    ASSUME IInv, ReviewTransition
    PROVE  IInv'
<1> DEFINE r == job.request
           snapshot == ContinuitySnapshot
           retry == IF snapshot = None THEN "PersonaUnavailable" ELSE ExactTransitionRetry(r)
           old == [job EXCEPT !.proof = store.journal[HeadSequence].proof, !.fresh = TRUE]
           statement == TransitionStatement(r)
           new == [job EXCEPT !.signer = ActiveSigner, !.seen = snapshot, !.subject = statement]
<1>1. /\ pc = "reviewTransition"
      /\ \/ \E failure : Reject(failure)
         \/ retry = "again" /\ GoOn("respond", old)
         \/ GoOn("prompt", new)
  BY Zenon DEF ReviewTransition
<1>2. JobOK("reviewTransition", job) /\ Shapes /\ StoreOK
  BY <1>1, Zenon DEF IInv
<1>3. /\ job.conn \in Connections /\ r \in Requests /\ r.kind = "PersonaTransition"
      /\ DOMAIN job = DOMAIN NoJob /\ job.proof = None
  BY <1>2, Zenon DEF JobOK, RequestOK, ProofOK, WithProof
<1>4. CASE \E failure : Reject(failure)
  BY <1>4, Rejects, Zenon
<1>5. CASE retry = "again" /\ GoOn("respond", old)
  <2>1. HeadIsTheRequest(r)
    BY <1>5, Zenon DEF ExactTransitionRetry
  <2>2. store.journal # <<>> /\ store.journal[HeadSequence].kind = "Routine"
    BY <2>1, Zenon DEF HeadIsTheRequest
  <2>3. HeadSequence \in DOMAIN store.journal
    BY <1>2, <2>2, LastRow, Zenon DEF HeadSequence, Shapes
  <2> DEFINE proof == store.journal[HeadSequence].proof
  <2>4. proof.subject.kind = "Routine" /\ \E a \in approvals : Consented(a.id, proof)
    BY <1>2, <2>2, <2>3, Zenon DEF StoreOK
  <2>5. Recorded(proof)
    BY <2>3, <2>4, Zenon DEF Recorded
  <2>6. \A t : MadeInTime(proof, t)
    BY <2>4, Zenon DEF MadeInTime, Expiring
  <2> HIDE DEF proof
  <2>7. DOMAIN old = DOMAIN NoJob /\ old.conn = job.conn /\ old.request = r /\ old.proof = proof
    BY <1>3, NoJobIsIdle DEF proof
  <2> HIDE DEF old
  <2>8. /\ "respond" \notin Approved \cup {"prompt"} /\ "respond" \notin WithProof
        /\ "respond" \notin Plain \cup {"review"}
        /\ "respond" \notin Transition \cup {"reviewTransition"}
        /\ "respond" \notin Participation \cup {"reviewParticipation"}
    BY Zenon DEF Approved, WithProof, Plain, Transition, Participation
  <2>9. RequestOK("respond", old) /\ SubjectOK("respond", old) /\ ApprovalOK("respond", old)
    BY <1>3, <2>7, <2>8, Zenon DEF RequestOK, SubjectOK, ApprovalOK
  <2>10. ProofOK("respond", old) /\ AnswerOK("respond", old)
    BY <1>3, <2>4, <2>5, <2>7, <2>8, Zenon DEF ProofOK, AnswerOK
  <2>11. WaitOK("respond", old) /\ TimeOK("respond", old)
    BY <2>6, <2>7, <2>8, Zenon DEF WaitOK, TimeOK
  <2>12. JobOK("respond", old)
    BY <2>7, <2>9, <2>10, <2>11, Zenon DEF JobOK
  <2> QED
    BY <1>5, <2>12, GoesOn, Zenon
<1>6. CASE GoOn("prompt", new)
  <2>1. statement.kind = "Routine"
    BY DEF TransitionStatement
  <2> HIDE DEF statement, snapshot
  <2>2. /\ DOMAIN new = DOMAIN NoJob /\ new.conn = job.conn /\ new.request = r
        /\ new.subject = statement /\ new.proof = None
    BY <1>3, NoJobIsIdle
  <2> HIDE DEF new
  <2>3. RequestOK("prompt", new)
    BY <1>3, <2>2, Zenon DEF RequestOK, Plain, Transition, Participation
  <2>4. SubjectOK("prompt", new)
    BY <1>3, <2>1, <2>2, Zenon DEF SubjectOK, Expiring
  <2>5. JobOK("prompt", new)
    BY <2>2, <2>3, <2>4, PromptJob, Zenon
  <2> QED
    BY <1>6, <2>5, GoesOn, Zenon
<1> QED
  BY <1>1, <1>4, <1>5, <1>6, Zenon

\* The second look at the head, the signer and the candidate.
LEMMA RecheckTransitionKeeps ==
    ASSUME IInv, RecheckTransition
    PROVE  IInv'
<1>1. pc = "recheckTransition" /\ ((\E failure : Reject(failure)) \/ GoOn("signTransition", job))
  BY Zenon DEF RecheckTransition
<1>2. /\ "recheckTransition" \in Approved \ WithProof /\ "signTransition" \in Approved \ WithProof
      /\ "recheckTransition" \in Transition /\ "signTransition" \in Transition
      /\ "recheckTransition" \notin Plain /\ "signTransition" \notin Plain
  BY Zenon DEF Approved, WithProof, Plain, Transition, Participation
<1>3. JobOK("signTransition", job)
  BY <1>1, <1>2, ApprovedJob, Zenon DEF IInv
<1> QED
  BY <1>1, <1>3, Rejects, GoesOn, Zenon

\* The signature of the old key is by the key that was on show.
LEMMA SignTransitionKeeps ==
    ASSUME IInv, SignTransition
    PROVE  IInv'
<1>1. /\ pc = "signTransition"
      /\ \/ \E failure : Reject(failure)
         \/ /\ SignerMakes(job.signer.key, job.signer.locator)
            /\ \E wrapper \in Wrappers :
                 GoOn("signedTransition", Signed(ProofBy(job.signer.locator, wrapper)))
  BY Zenon DEF SignTransition
<1>2. CASE \E failure : Reject(failure)
  BY <1>2, Rejects, Zenon
<1>3. ASSUME SignerMakes(job.signer.key, job.signer.locator), NEW wrapper \in Wrappers,
             GoOn("signedTransition", Signed(ProofBy(job.signer.locator, wrapper)))
      PROVE  IInv'
  <2>1. JobOK("signedTransition", Signed(ProofBy(job.signer.locator, wrapper)))
    <3>1. Shapes /\ JobOK("signTransition", job) /\ "signTransition" # "sign"
      BY <1>1, Zenon DEF IInv
    <3> QED
      BY <1>3, <3>1, SignedJob
  <2> QED
    BY <1>3, <2>1, GoesOn, Zenon
<1> QED
  BY <1>1, <1>2, <1>3, Zenon

\* Only for a client still there does the daemon go on to commit.
LEMMA CheckBeforeCommitKeeps ==
    ASSUME IInv, CheckBeforeCommit
    PROVE  IInv'
<1>1. /\ pc = "signedTransition"
      /\ IF ConnectionFailure # None THEN Reject(ConnectionFailure) ELSE GoOn("commit", job)
  BY Zenon DEF CheckBeforeCommit
<1>2. CASE ConnectionFailure # None
  BY <1>1, <1>2, Rejects, Zenon
<1>3. CASE ConnectionFailure = None
  <2>1. JobOK("signedTransition", job)
    BY <1>1, Zenon DEF IInv
  <2>2. job.waiting
    BY <1>3, <2>1, NoConnectionFailure, Zenon DEF JobOK, WaitOK
  <2>3. /\ "signedTransition" \in Transition /\ "commit" \in Transition
        /\ "signedTransition" \in Approved /\ "commit" \in Approved
        /\ "signedTransition" \in WithProof /\ "commit" \in WithProof
        /\ "commit" \notin Plain /\ "commit" \notin Participation
    BY Zenon DEF Approved, WithProof, Plain, Transition, Participation
  <2>4. RequestOK("commit", job)
    BY <2>1, <2>3, Zenon DEF JobOK, RequestOK
  <2>5. SubjectOK("commit", job) /\ ApprovalOK("commit", job) /\ ProofOK("commit", job)
    BY <2>1, <2>3, Zenon DEF JobOK, SubjectOK, ApprovalOK, ProofOK
  <2>6. AnswerOK("commit", job) /\ WaitOK("commit", job) /\ TimeOK("commit", job)
    BY <2>1, <2>2, <2>3, Zenon DEF JobOK, AnswerOK, WaitOK, TimeOK
  <2>7. JobOK("commit", job)
    BY <2>1, <2>4, <2>5, <2>6, Zenon DEF JobOK
  <2> QED
    BY <1>1, <1>3, <2>7, GoesOn, Zenon
<1> QED
  BY <1>2, <1>3, Zenon

\* Appending a row that is approved, if it is routine, keeps the database
\* approved.
LEMMA StoreAppends ==
    ASSUME Shapes, StoreOK, NEW row, UNCHANGED <<conn, backlog, clock>>,
           approvals' = approvals,
           DOMAIN store' = DOMAIN store, store'.root = store.root,
           store'.journal = Append(store.journal, row),
           row.kind = "Routine" => /\ row.proof.subject.kind = "Routine"
                                   /\ \E a \in approvals : Consented(a.id, row.proof)
    PROVE  /\ Shapes' /\ StoreOK' /\ Grows
           /\ Len(store'.journal) \in DOMAIN store'.journal
<1> DEFINE s == store.journal
           c == store'.journal
<1>1. Extended(c, s, row)
  <2>1. IsJournal(s) /\ c = Append(s, row)
    BY Zenon DEF Shapes
  <2> HIDE DEF s, c
  <2> QED
    BY <2>1, JournalAppend, Zenon
<1>2. Len(c) \in DOMAIN c /\ \A i \in DOMAIN c : i \in DOMAIN s \/ i = Len(s) + 1
  BY <1>1 DEF Extended
<1>3. \A i \in DOMAIN s : i \in DOMAIN c /\ c[i] = s[i]
  BY <1>1 DEF Extended
<1>4. Shapes'
  BY <1>1, Zenon DEF Shapes, Extended
<1>5. Grows
  BY <1>3, Zenon DEF Grows
<1>6. StoreOK'
  <2>1. store'.root # None => \E a \in approvals' : Consented(a.id, store.root)'
    BY <1>5, GrowsKeeps, Zenon DEF StoreOK
  <2>2. ASSUME NEW i \in DOMAIN c, c[i].kind = "Routine"
        PROVE  /\ c[i].proof.subject.kind = "Routine"
               /\ \E a \in approvals : Consented(a.id, c[i].proof)
    <3>1. CASE i \in DOMAIN s
      BY <1>3, <2>2, <3>1, Zenon DEF StoreOK
    <3>2. CASE i = Len(s) + 1
      BY <1>1, <2>2, <3>2, Zenon DEF Extended
    <3> QED
      BY <1>2, <3>1, <3>2, Zenon
  <2>3. ASSUME NEW i \in DOMAIN c, c[i].kind = "Routine"
        PROVE  \E a \in approvals' : Consented(a.id, store.journal[i].proof)'
    BY <1>5, <2>2, <2>3, GrowsKeeps, Zenon
  <2> QED
    BY <2>1, <2>2, <2>3, Zenon DEF StoreOK
<1> QED
  BY <1>2, <1>4, <1>5, <1>6, Zenon

\* The committed row is the approved one, and the client waited for it.
LEMMA CommitTransitionKeeps ==
    ASSUME IInv, CommitTransition
    PROVE  IInv'
<1> DEFINE w == [id |-> job.conn, subject |-> job.subject, waiting |-> job.waiting]
           row == Row(job.subject, job.proof)
<1>1. CASE Reject("InvalidRequest")
  BY <1>1, Rejects, Zenon
<1>2. CASE /\ store' = [store EXCEPT !.journal = Append(@, row),
                                     !.key = job.subject.nextKey,
                                     !.locator = job.request.locator,
                                     !.spent = @ \union {job.subject.previousKey}]
           /\ commits' = commits \union {w}
           /\ pc' = "confirm"
           /\ UNCHANGED <<holds, clock, outside, approvals, released, conn,
                          backlog, job, crashes>>
  <2>1. pc = "commit" /\ JobOK("commit", job)
    BY Zenon DEF IInv, CommitTransition
  <2>2. /\ "commit" \in WithProof /\ "commit" \in Approved /\ "commit" \in Transition
        /\ "confirm" \in WithProof /\ "confirm" \in Approved /\ "confirm" \in Transition
        /\ "confirm" \notin Plain /\ "confirm" \notin Participation
    BY Zenon DEF WithProof, Plain, Transition, Participation, Approved
  <2>3. /\ job.waiting /\ job.proof.subject = job.subject /\ job.proof.by = job.signer.key
        /\ job.request.kind = "PersonaTransition"
    BY <2>1, <2>2, Zenon DEF JobOK, WaitOK, ProofOK, RequestOK
  <2>4. job.subject.kind = "Routine"
    BY <2>1, <2>2, <2>3, Zenon DEF JobOK, SubjectOK
  <2>5. row.kind = "Routine" /\ row.proof = job.proof
    BY <2>4 DEF Row
  <2>6. \E a \in approvals : Consented(a.id, row.proof)
    BY <2>1, <2>2, <2>3, <2>5, ZenonT(60) DEF JobOK, ApprovalOK, Consented
  <2> HIDE DEF row
  <2>7. /\ DOMAIN store' = DOMAIN store /\ store'.root = store.root
        /\ store'.journal = Append(store.journal, row)
    BY <1>2 DEF IInv, Shapes
  <2>8. /\ Shapes' /\ StoreOK' /\ Grows
        /\ Len(store'.journal) \in DOMAIN store'.journal
    BY <1>2, <2>3, <2>4, <2>5, <2>6, <2>7, StoreAppends, ZenonT(60) DEF IInv
  <2>9. ReleasedOK'
    BY <1>2, <2>8, ReleasedStays, Zenon DEF IInv
  <2>10. NoWriteForALeftClient'
    <3>1. w.waiting
      BY <2>3
    <3> HIDE DEF w
    <3> QED
      BY <1>2, <3>1, Zenon DEF IInv, NoWriteForALeftClient
  <2>11. JobOK(pc, job)'
    <3>1. pc' = "confirm" /\ UNCHANGED <<job, approvals, clock>>
      BY <1>2, Zenon
    <3>2. RequestOK(pc, job)'
      BY <2>1, <2>2, <3>1, Zenon DEF JobOK, RequestOK
    <3>3. SubjectOK(pc, job)' /\ ApprovalOK(pc, job)' /\ ProofOK(pc, job)'
      BY <2>1, <2>2, <3>1, Zenon DEF JobOK, SubjectOK, ApprovalOK, ProofOK
    <3>4. AnswerOK(pc, job)' /\ WaitOK(pc, job)'
      BY <2>8, <3>1, Zenon DEF AnswerOK, WaitOK
    <3>5. TimeOK(pc, job)'
      BY <2>1, <2>2, <3>1, Zenon DEF JobOK, TimeOK
    <3> QED
      BY <2>1, <3>1, <3>2, <3>3, <3>4, <3>5, Zenon DEF JobOK
  <2> QED
    BY <2>8, <2>9, <2>10, <2>11, Zenon DEF IInv
<1> QED
  BY <1>1, <1>2, Zenon DEF CommitTransition

\* What is answered is the row that was read back.
LEMMA ConfirmTransitionKeeps ==
    ASSUME IInv, ConfirmTransition
    PROVE  IInv'
<1>1. CASE \E failure : Reject(failure)
  BY <1>1, Rejects, Zenon
<1>2. CASE store.journal[HeadSequence].proof = job.proof /\ GoOn("respond", job)
  <2>1. pc = "confirm" /\ JobOK("confirm", job)
    BY Zenon DEF IInv, ConfirmTransition
  <2>2. "confirm" \in WithProof /\ "confirm" \in Approved /\ "confirm" \in Transition
    BY Zenon DEF WithProof, Approved, Transition
  <2>3. HeadSequence \in DOMAIN store.journal
    BY <2>1, Zenon DEF JobOK, AnswerOK, HeadSequence
  <2>4. job.proof.subject.kind = "Routine"
    BY <2>1, <2>2, Zenon DEF JobOK, RequestOK, SubjectOK, ProofOK
  <2>5. Recorded(job.proof) /\ MadeInTime(job.proof, job.signedAt)
    BY <1>2, <2>3, <2>4, Zenon DEF Recorded, MadeInTime, Expiring
  <2>6. JobOK("respond", job)
    BY <2>1, <2>2, <2>5, AnswerJob, Zenon
  <2> QED
    BY <1>2, <2>6, GoesOn, Zenon
<1> QED
  BY <1>1, <1>2, Zenon DEF ConfirmTransition

-----------------------------------------------------------------------------
(* Taking part in a recovery *)

\* The prompt shows the request's own expiry.
LEMMA ReviewParticipationKeeps ==
    ASSUME IInv, ReviewParticipation
    PROVE  IInv'
<1> DEFINE r == job.request
           signer == [key |-> r.key, locator |-> r.locator]
           seen == SigningReferenceIdentity(r)
           subject == [kind |-> "RecoveryParticipation", expiresAt |-> r.expiresAt]
           j == [job EXCEPT !.signer = signer, !.seen = seen, !.subject = subject, !.at = clock]
<1>1. pc = "reviewParticipation" /\ ((\E failure : Reject(failure)) \/ GoOn("prompt", j))
  BY Zenon DEF ReviewParticipation
<1>2. CASE \E failure : Reject(failure)
  BY <1>2, Rejects, Zenon
<1>3. CASE GoOn("prompt", j)
  <2>1. JobOK("reviewParticipation", job)
    BY <1>1, Zenon DEF IInv
  <2>2. /\ job.conn \in Connections /\ r \in Requests /\ r.kind = "RecoveryParticipation"
        /\ DOMAIN job = DOMAIN NoJob /\ job.proof = None
    BY <2>1, Zenon DEF JobOK, RequestOK, ProofOK, WithProof
  <2>3. subject.kind = "RecoveryParticipation" /\ subject.expiresAt = r.expiresAt
    OBVIOUS
  <2> HIDE DEF signer, seen, subject
  <2>4. /\ DOMAIN j = DOMAIN NoJob /\ j.conn = job.conn /\ j.request = r
        /\ j.subject = subject /\ j.proof = None
    BY <2>2, NoJobIsIdle
  <2> HIDE DEF j
  <2>5. RequestOK("prompt", j)
    BY <2>2, <2>4, Zenon DEF RequestOK, Plain, Transition, Participation
  <2>6. SubjectOK("prompt", j)
    BY <2>2, <2>3, <2>4, Zenon DEF SubjectOK
  <2>7. JobOK("prompt", j)
    BY <2>4, <2>5, <2>6, PromptJob, Zenon
  <2> QED
    BY <1>3, <2>7, GoesOn, Zenon
<1> QED
  BY <1>1, <1>2, <1>3, Zenon

\* The second look notes its time and changes nothing else.
LEMMA RecheckParticipationKeeps ==
    ASSUME IInv, RecheckParticipation
    PROVE  IInv'
<1> DEFINE j == [job EXCEPT !.at = clock]
<1>1. /\ pc = "recheckParticipation"
      /\ (\E failure : Reject(failure)) \/ GoOn("signParticipation", j)
  BY Zenon DEF RecheckParticipation
<1>2. CASE \E failure : Reject(failure)
  BY <1>2, Rejects, Zenon
<1>3. CASE GoOn("signParticipation", j)
  <2> DEFINE p == "signParticipation"
  <2>1. /\ "recheckParticipation" \in Approved \ WithProof /\ p \in Approved \ WithProof
        /\ "recheckParticipation" \notin Transition /\ p \notin Transition
        /\ "recheckParticipation" \notin Plain /\ p \notin Plain
        /\ p \notin {"respond", "signed", "record", "signedTransition", "commit", "confirm"}
    BY Zenon DEF Approved, WithProof, Plain, Transition, Participation
  <2>2. JobOK(p, job)
    BY <1>1, <2>1, ApprovedJob, Zenon DEF IInv
  <2>3. DOMAIN job = DOMAIN NoJob
    BY <2>2, Zenon DEF JobOK
  <2>4. /\ DOMAIN j = DOMAIN NoJob /\ j.conn = job.conn /\ j.request = job.request
        /\ j.signer = job.signer /\ j.subject = job.subject /\ j.proof = job.proof
    BY <2>3, NoJobIsIdle
  <2> HIDE DEF j
  <2>5. RequestOK(p, j) /\ SubjectOK(p, j) /\ ApprovalOK(p, j)
    BY <2>2, <2>4, Zenon DEF JobOK, RequestOK, SubjectOK, ApprovalOK
  <2>6. ProofOK(p, j) /\ AnswerOK(p, j) /\ WaitOK(p, j) /\ TimeOK(p, j)
    BY <2>1, <2>2, <2>4, Zenon DEF JobOK, ProofOK, AnswerOK, WaitOK, TimeOK
  <2>7. JobOK(p, j)
    BY <2>4, <2>5, <2>6, Zenon DEF JobOK
  <2> QED
    BY <1>3, <2>7, GoesOn, Zenon
<1> QED
  BY <1>1, <1>2, <1>3, Zenon

\* The signature is by the key that was on show.
LEMMA SignParticipationKeeps ==
    ASSUME IInv, SignParticipation
    PROVE  IInv'
<1>1. /\ pc = "signParticipation"
      /\ \/ \E failure : Reject(failure)
         \/ /\ SignerMakes(job.signer.key, job.signer.locator)
            /\ \E wrapper \in Wrappers :
                 GoOn("complete", Signed(ProofBy(job.signer.locator, wrapper)))
  BY Zenon DEF SignParticipation
<1>2. CASE \E failure : Reject(failure)
  BY <1>2, Rejects, Zenon
<1>3. ASSUME SignerMakes(job.signer.key, job.signer.locator), NEW wrapper \in Wrappers,
             GoOn("complete", Signed(ProofBy(job.signer.locator, wrapper)))
      PROVE  IInv'
  <2>1. JobOK("complete", Signed(ProofBy(job.signer.locator, wrapper)))
    <3>1. Shapes /\ JobOK("signParticipation", job) /\ "signParticipation" # "sign"
      BY <1>1, Zenon DEF IInv
    <3> QED
      BY <1>3, <3>1, SignedJob
  <2> QED
    BY <1>3, <2>1, GoesOn, Zenon
<1> QED
  BY <1>1, <1>2, <1>3, Zenon

\* The response is checked against its expiry once more before it is answered.
LEMMA CompleteParticipationKeeps ==
    ASSUME IInv, CompleteParticipation
    PROVE  IInv'
<1> DEFINE good == clock >= job.at /\ clock < job.request.expiresAt
           b == Unless(good, "InvalidRequest")
           failure == FirstFailure(<<ConnectionFailure, b>>)
<1>1. pc = "complete" /\ IF failure # None THEN Reject(failure) ELSE GoOn("respond", job)
  BY Zenon DEF CompleteParticipation
<1>2. CASE failure # None
  BY <1>1, <1>2, Rejects, Zenon
<1>3. CASE failure = None
  <2>1. b = None
    <3> HIDE DEF b
    <3> QED
      BY <1>3, NoFailureOfTwo, Zenon
  <2>2. clock < job.request.expiresAt
    BY <2>1, DaemonAssumption, Zenon DEF Unless
  <2>3. JobOK("complete", job) /\ Shapes
    BY <1>1, Zenon DEF IInv
  <2>4. "complete" \in WithProof /\ "complete" \in Participation /\ "complete" \in Approved
    BY Zenon DEF WithProof, Participation, Approved
  <2>5. MadeInTime(job.proof, job.signedAt)
    BY <2>2, <2>3, <2>4, StillInTime, Zenon
  <2>6. job.request.kind = "RecoveryParticipation"
    BY <2>3, <2>4, Zenon DEF JobOK, RequestOK
  <2>7. job.proof.subject.kind = "RecoveryParticipation"
    BY <2>3, <2>4, <2>6, Zenon DEF JobOK, SubjectOK, ProofOK
  <2>8. Recorded(job.proof)
    BY <2>7, Zenon DEF Recorded
  <2>9. JobOK("respond", job)
    BY <2>3, <2>4, <2>5, <2>8, AnswerJob, Zenon
  <2> QED
    BY <1>1, <1>3, <2>9, GoesOn, Zenon
<1> QED
  BY <1>2, <1>3, Zenon

-----------------------------------------------------------------------------
(* Clients, other processes, the clock and crashes *)

\* A step of others that leaves the database, the answers and the clock alone.
LEMMA OthersKeep ==
    ASSUME IInv, Shapes', UNCHANGED <<store, clock, approvals, released, commits, pc, job>>,
           job.conn \in Connections /\ conn'[job.conn].state = "open" =>
              conn[job.conn].state = "open"
    PROVE  IInv'
<1>1. StoreOK' /\ Grows
  BY StoreStays, Zenon DEF IInv
<1>2. ReleasedOK' /\ NoWriteForALeftClient'
  BY <1>1, ReleasedStays, Zenon DEF IInv, NoWriteForALeftClient
<1>3. clock \in Int /\ clock <= clock'
  BY DEF IInv, Shapes
<1>4. JobOK(pc, job)'
  BY <1>1, <1>3, JobStays, Zenon DEF IInv
<1> QED
  BY <1>1, <1>2, <1>4, Zenon DEF IInv

\* A client connects.
LEMMA ConnectKeeps ==
    ASSUME IInv, NEW c \in Connections, NEW r \in Requests, Connect(c, r)
    PROVE  IInv'
<1>1. /\ conn' = [conn EXCEPT ![c].state = "queued", ![c].request = r]
      /\ backlog' = Append(backlog, c)
      /\ UNCHANGED <<store, clock, approvals, released, commits, pc, job>>
  BY Zenon DEF Connect, World, History
<1>2. Shapes
  BY Zenon DEF IInv
<1>3. /\ DOMAIN conn' = Connections
      /\ \A d \in Connections :
           /\ DOMAIN conn'[d] = {"state", "request", "bytes", "answer"}
           /\ conn'[d].request = IF d = c THEN r ELSE conn[d].request
           /\ conn'[d].state = "open" => conn[d].state = "open"
  BY <1>1, <1>2 DEF Shapes
<1>4. backlog \in Seq(Connections)
  BY <1>2, Zenon DEF Shapes
<1>5. /\ backlog' \in Seq(Connections)
      /\ \A i \in 1 .. Len(backlog') : /\ backlog'[i] \in Connections
                                       /\ \/ i \in 1 .. Len(backlog) /\ backlog'[i] = backlog[i]
                                          \/ backlog'[i] = c
  BY <1>1, <1>4
<1>6. \A i \in 1 .. Len(backlog') : conn'[backlog'[i]].request \in Requests
  BY <1>2, <1>3, <1>5, ZenonT(60) DEF Shapes
<1>7. Shapes'
  BY <1>1, <1>2, <1>3, <1>5, <1>6, Zenon DEF Shapes
<1> QED
  BY <1>1, <1>3, <1>7, OthersKeep, Zenon

\* A client goes away, sends more, or rewrites its file.
LEMMA ClientActsKeeps ==
    ASSUME IInv, NEW c \in Connections, ClientActs(c)
    PROVE  IInv'
<1>1. /\ \/ conn' = [conn EXCEPT ![c].state = "closed"]
         \/ conn' = [conn EXCEPT ![c].state = "extra"]
         \/ \E b \in Contents : conn' = [conn EXCEPT ![c].bytes = b]
      /\ UNCHANGED <<store, clock, backlog, approvals, released, commits, pc, job>>
  BY Zenon DEF ClientActs, World, History
<1>2. Shapes
  BY Zenon DEF IInv
<1> DEFINE Good == /\ DOMAIN conn' = Connections
                   /\ \A d \in Connections :
                        /\ DOMAIN conn'[d] = {"state", "request", "bytes", "answer"}
                        /\ conn'[d].request = conn[d].request
                        /\ conn'[d].state = "open" => conn[d].state = "open"
<1>3. ASSUME conn' = [conn EXCEPT ![c].state = "closed"] PROVE Good
  BY <1>2, <1>3 DEF Shapes
<1>4. ASSUME conn' = [conn EXCEPT ![c].state = "extra"] PROVE Good
  BY <1>2, <1>4 DEF Shapes
<1>5. ASSUME NEW b \in Contents, conn' = [conn EXCEPT ![c].bytes = b] PROVE Good
  BY <1>2, <1>5 DEF Shapes
<1>6. Good
  <2> HIDE DEF Good
  <2> QED
    BY <1>1, <1>3, <1>4, <1>5, Zenon
<1>7. Shapes'
  BY <1>1, <1>2, <1>6, ConnectionKeepsRequest, Zenon
<1> QED
  BY <1>1, <1>6, <1>7, OthersKeep, Zenon

\* Another process changes the active key and its reference, or appends a
\* recovery to the journal.
LEMMA StoreChangesForms ==
    ASSUME Shapes, StoreChanges
    PROVE  /\ DOMAIN store' = DOMAIN store /\ store'.root = store.root
           /\ \/ store'.journal = store.journal
              \/ \E row : row.kind = "Recovery" /\ store'.journal = Append(store.journal, row)
<1>1. DOMAIN store = {"key", "locator", "spent", "root", "journal"}
  BY Zenon DEF Shapes
<1>2. CASE store' = [store EXCEPT !.key = None, !.locator = None, !.spent = @ \union {store.key}]
  BY <1>1, <1>2
<1>3. CASE \E l : store' = [store EXCEPT !.locator = l]
  BY <1>1, <1>3
<1>4. CASE \E k, l : store' = [store EXCEPT !.key = k, !.locator = l,
                                            !.spent = @ \union {store.key}]
  BY <1>1, <1>4
<1>5. ASSUME NEW k, NEW l,
             LET old == IF store.journal = <<>> THEN store.root.subject.key
                        ELSE store.journal[HeadSequence].nextKey
             IN  store' = [store EXCEPT !.key = k, !.locator = l,
                  !.spent = @ \union {old},
                  !.journal = Append(@, [kind |-> "Recovery", sequence |-> HeadSequence + 1,
                    previous |-> HeadDigest, previousKey |-> old, nextKey |-> k,
                    proof |-> None])]
      PROVE  /\ DOMAIN store' = DOMAIN store /\ store'.root = store.root
             /\ \E row : row.kind = "Recovery" /\ store'.journal = Append(store.journal, row)
  <2> DEFINE old == IF store.journal = <<>> THEN store.root.subject.key
                    ELSE store.journal[HeadSequence].nextKey
             row == [kind |-> "Recovery", sequence |-> HeadSequence + 1,
                     previous |-> HeadDigest, previousKey |-> old, nextKey |-> k,
                     proof |-> None]
  <2>1. store' = [store EXCEPT !.key = k, !.locator = l, !.spent = @ \union {old},
                               !.journal = Append(@, row)]
    BY <1>5, Zenon
  <2>2. row.kind = "Recovery"
    OBVIOUS
  <2> HIDE DEF old, row
  <2>3. /\ DOMAIN store' = DOMAIN store /\ store'.root = store.root
        /\ store'.journal = Append(store.journal, row)
    BY <1>1, <2>1
  <2> QED
    BY <2>2, <2>3, Zenon
<1> QED
  BY <1>2, <1>3, <1>4, <1>5, Zenon DEF StoreChanges

\* Other processes write the database or replace the file of a signing
\* reference.
LEMMA OutsideKeeps ==
    ASSUME IInv, Outside
    PROVE  IInv'
<1>1. /\ StoreChanges \/ UNCHANGED store
      /\ UNCHANGED <<clock, conn, backlog, pc, job, approvals, released, commits>>
  BY Zenon DEF Outside, History
<1>2. Shapes /\ StoreOK /\ JobOK(pc, job)
  BY Zenon DEF IInv
<1>3. CASE UNCHANGED store
  <2>1. Shapes'
    BY <1>1, <1>2, <1>3, Zenon DEF Shapes
  <2> QED
    BY <1>1, <1>3, <2>1, OthersKeep, Zenon
<1>4. CASE StoreChanges
  <2>1. /\ DOMAIN store' = DOMAIN store /\ store'.root = store.root
        /\ \/ store'.journal = store.journal
           \/ \E row : row.kind = "Recovery" /\ store'.journal = Append(store.journal, row)
    BY <1>2, <1>4, StoreChangesForms, Zenon
  <2>2. /\ Shapes' /\ StoreOK' /\ Grows
        /\ Len(store.journal) \in DOMAIN store.journal =>
              Len(store'.journal) \in DOMAIN store'.journal
    <3>1. CASE store'.journal = store.journal
      <4>1. Shapes'
        BY <1>1, <1>2, <2>1, <3>1, Zenon DEF Shapes
      <4>2. Grows
        BY <1>1, <2>1, <3>1, Zenon DEF Grows
      <4>3. store.root # None => \E a \in approvals' : Consented(a.id, store.root)'
        BY <1>1, <1>2, <2>1, <4>2, GrowsKeeps, Zenon DEF StoreOK
      <4>4. ASSUME NEW i \in DOMAIN store.journal, store.journal[i].kind = "Routine"
            PROVE  /\ store.journal[i].proof.subject.kind = "Routine"
                   /\ \E a \in approvals' : Consented(a.id, store.journal[i].proof)'
        BY <1>2, <3>1, <4>2, <4>4, GrowsKeeps, Zenon DEF StoreOK
      <4>5. StoreOK'
        BY <2>1, <3>1, <4>3, <4>4, Zenon DEF StoreOK
      <4> QED
        BY <3>1, <4>1, <4>2, <4>5, Zenon
    <3>2. ASSUME NEW row, row.kind = "Recovery", store'.journal = Append(store.journal, row)
          PROVE  /\ Shapes' /\ StoreOK' /\ Grows
                 /\ Len(store'.journal) \in DOMAIN store'.journal
      <4>1. row.kind # "Routine"
        BY <3>2, Zenon
      <4> QED
        BY <1>1, <1>2, <2>1, <3>2, <4>1, StoreAppends, Zenon
    <3> QED
      BY <2>1, <3>1, <3>2, Zenon
  <2>3. ReleasedOK' /\ NoWriteForALeftClient'
    BY <1>1, <2>2, ReleasedStays, Zenon DEF IInv, NoWriteForALeftClient
  <2>4. clock \in Int /\ clock <= clock'
    BY <1>1, <1>2 DEF Shapes
  <2>5. JobOK(pc, job)'
    BY <1>1, <1>2, <2>2, <2>4, JobStays, Zenon
  <2> QED
    BY <2>2, <2>3, <2>5, Zenon DEF IInv
<1> QED
  BY <1>1, <1>3, <1>4, Zenon

\* The clock moves, and may be set back only if it can be.
LEMMA TickKeeps ==
    ASSUME IInv, Tick
    PROVE  IInv'
<1>1. /\ UNCHANGED <<store, conn, backlog, pc, job, approvals, released, commits>>
      /\ clock' \in Times /\ (clock' > clock \/ ClockCanStepBack)
  BY Zenon DEF Tick, History
<1>2. clock \in Int /\ clock' \in Int /\ (ClockCanStepBack \/ clock <= clock')
  BY <1>1, DaemonAssumption DEF IInv, Shapes, Times
<1>3. Shapes'
  BY <1>1, <1>2, Zenon DEF IInv, Shapes
<1>4. StoreOK' /\ Grows
  BY <1>1, StoreStays, Zenon DEF IInv
<1>5. ReleasedOK' /\ NoWriteForALeftClient'
  BY <1>1, <1>4, ReleasedStays, Zenon DEF IInv, NoWriteForALeftClient
<1>6. JobOK(pc, job)'
  BY <1>1, <1>2, <1>3, <1>4, JobStays, Zenon DEF IInv
<1> QED
  BY <1>3, <1>4, <1>5, <1>6, Zenon DEF IInv

\* A crash forgets the job and keeps the database.
LEMMA CrashKeeps ==
    ASSUME IInv, Crash
    PROVE  IInv'
<1>1. /\ pc' = "down" /\ job' = NoJob /\ backlog' = <<>>
      /\ conn' = [c \in Connections |->
           IF conn[c].state \in {"queued", "open", "extra"}
           THEN [conn[c] EXCEPT !.state = "closed"] ELSE conn[c]]
      /\ UNCHANGED <<store, clock, approvals, released, commits>>
  BY Zenon DEF Crash, World, History
<1>2. /\ DOMAIN conn' = Connections
      /\ \A c \in Connections : DOMAIN conn'[c] = {"state", "request", "bytes", "answer"}
  BY <1>1 DEF IInv, Shapes
<1>3. /\ backlog' \in Seq(Connections)
      /\ \A i \in 1 .. Len(backlog') : conn'[backlog'[i]].request \in Requests
  BY <1>1
<1>4. Shapes'
  BY <1>1, <1>2, <1>3, Zenon DEF IInv, Shapes
<1>5. StoreOK' /\ Grows
  BY <1>1, StoreStays, Zenon DEF IInv
<1>6. ReleasedOK' /\ NoWriteForALeftClient'
  BY <1>1, <1>5, ReleasedStays, Zenon DEF IInv, NoWriteForALeftClient
<1>7. JobOK(pc, job)'
  BY <1>1, IdleJob, NoJobIsIdle, Zenon
<1> QED
  BY <1>4, <1>5, <1>6, <1>7, Zenon DEF IInv

\* The daemon starts again with no job.
LEMMA StartKeeps ==
    ASSUME IInv, Start
    PROVE  IInv'
<1>1. /\ pc = "down" /\ pc' = "idle"
      /\ UNCHANGED <<store, clock, conn, backlog, job, approvals, released, commits>>
  BY Zenon DEF Start, World, History
<1>2. Shapes'
  BY <1>1, Zenon DEF IInv, Shapes
<1>3. StoreOK' /\ Grows
  BY <1>1, StoreStays, Zenon DEF IInv
<1>4. ReleasedOK' /\ NoWriteForALeftClient'
  BY <1>1, <1>3, ReleasedStays, Zenon DEF IInv, NoWriteForALeftClient
<1>5. DOMAIN job = DOMAIN NoJob /\ job.proof = None
  BY <1>1, Zenon DEF IInv, JobOK, ProofOK, WithProof
<1>6. JobOK(pc, job)'
  BY <1>1, <1>5, IdleJob, Zenon
<1> QED
  BY <1>2, <1>3, <1>4, <1>6, Zenon DEF IInv

-----------------------------------------------------------------------------
(* The theorems *)

\* A new daemon with an empty database satisfies the invariant.
LEMMA InitHolds == Init => IInv
<1> SUFFICES ASSUME Init PROVE IInv
  OBVIOUS
<1>1. /\ DOMAIN store = {"key", "locator", "spent", "root", "journal"}
      /\ store.journal = <<>> /\ store.root = None
  BY DEF Init
<1>2. /\ DOMAIN conn = Connections
      /\ \A c \in Connections : DOMAIN conn[c] = {"state", "request", "bytes", "answer"}
  BY DEF Init
<1>3. /\ backlog = <<>> /\ clock = 0 /\ pc = "idle" /\ job = NoJob
      /\ approvals = {} /\ released = {} /\ commits = {}
  BY Zenon DEF Init
<1>4. /\ backlog \in Seq(Connections) /\ clock \in Int
      /\ \A i \in 1 .. Len(backlog) : conn[backlog[i]].request \in Requests
  BY <1>3
<1>5. IsJournal(store.journal) /\ DOMAIN store.journal = {}
  BY <1>1 DEF IsJournal
<1>6. Shapes
  BY <1>1, <1>2, <1>4, <1>5, Zenon DEF Shapes
<1>7. StoreOK /\ ReleasedOK /\ NoWriteForALeftClient
  BY <1>1, <1>3, <1>5, Zenon DEF StoreOK, ReleasedOK, NoWriteForALeftClient
<1>8. JobOK(pc, job)
  <2>1. /\ pc \notin Approved \cup {"prompt"} /\ pc \notin WithProof \cup {"respond"}
        /\ pc \notin Plain \cup {"review"} /\ pc \notin Transition \cup {"reviewTransition"}
        /\ pc \notin Participation \cup {"reviewParticipation"} /\ pc # "prompt"
        /\ pc # "confirm" /\ pc # "record" /\ pc \notin {"signed", "record"}
        /\ pc \notin {"signed", "signedTransition"} /\ pc \notin {"record", "commit"}
    BY <1>3, Zenon DEF Approved, WithProof, Plain, Transition, Participation
  <2>2. pc \in {"idle", "down"} /\ DOMAIN job = DOMAIN NoJob /\ job.proof = None
    BY <1>3, NoJobIsIdle, Zenon
  <2> QED
    BY <2>1, <2>2, Zenon
       DEF JobOK, RequestOK, SubjectOK, ApprovalOK, ProofOK, AnswerOK, WaitOK, TimeOK
<1> QED
  BY <1>6, <1>7, <1>8, Zenon DEF IInv

\* Every step of the daemon keeps the invariant.
LEMMA DaemonKeeps ==
    ASSUME IInv, Daemon
    PROVE  IInv'
BY AcceptKeeps, ReceiveKeeps, ReviewKeeps, DecideKeeps, RecheckKeeps, SignPreparedKeeps,
   PostCheckKeeps, RecordRootKeeps, RespondKeeps, ReviewTransitionKeeps, RecheckTransitionKeeps,
   SignTransitionKeeps, CheckBeforeCommitKeeps, CommitTransitionKeeps, ConfirmTransitionKeeps,
   ReviewParticipationKeeps, RecheckParticipationKeeps, SignParticipationKeeps,
   CompleteParticipationKeeps, Zenon
   DEF Daemon

\* The inductive invariant of the daemon holds in every state: whatever clients
\* and other processes do between two of its steps, the request in hand, what
\* the user approved and what the database holds stay together.
THEOREM DaemonInvariance == Spec => []IInv
<1>1. Init => IInv
  BY InitHolds
<1>2. IInv /\ [Next]_vars => IInv'
  <2> SUFFICES ASSUME IInv, [Next]_vars PROVE IInv'
    OBVIOUS
  <2>1. CASE Daemon
    BY <2>1, DaemonKeeps, Zenon
  <2>2. CASE \E c \in Connections : (\E r \in Requests : Connect(c, r)) \/ ClientActs(c)
    BY <2>2, ConnectKeeps, ClientActsKeeps, Zenon
  <2>3. CASE Outside
    BY <2>3, OutsideKeeps, Zenon
  <2>4. CASE Tick
    BY <2>4, TickKeeps, Zenon
  <2>5. CASE Crash
    BY <2>5, CrashKeeps, Zenon
  <2>6. CASE Start
    BY <2>6, StartKeeps, Zenon
  <2>7. CASE UNCHANGED vars
    <3>1. UNCHANGED <<store, clock, conn, backlog, approvals, released, commits, pc, job>>
      BY <2>7, Zenon DEF vars
    <3>2. Shapes'
      BY <3>1, Zenon DEF IInv, Shapes
    <3> QED
      BY <3>1, <3>2, OthersKeep, Zenon
  <2> QED
    BY <2>1, <2>2, <2>3, <2>4, <2>5, <2>6, <2>7, Zenon DEF Next
<1> QED
  BY <1>1, <1>2, PTL DEF Spec

\* Nothing is signed, answered or recorded that the user did not approve for
\* that request, with that key and that subject.
THEOREM ConsentIsKept == Spec => []ConsentCoversEverySignature
<1>1. IInv => ConsentCoversEverySignature
  <2> SUFFICES ASSUME IInv PROVE ConsentCoversEverySignature
    OBVIOUS
  <2>1. JobOK(pc, job) /\ StoreOK /\ ReleasedOK
    BY Zenon DEF IInv
  <2>2. job.proof # None =>
          \/ Consented(job.conn, job.proof)
          \/ job.request.kind = "PersonaTransition"
             /\ \E a \in approvals : Consented(a.id, job.proof)
    <3>1. CASE pc = "respond"
      BY <2>1, <3>1, Zenon DEF JobOK, AnswerOK
    <3>2. CASE pc \in WithProof
      <4>1. pc \in Approved
        BY <3>2, Zenon DEF WithProof, Approved, Plain, Transition, Participation
      <4> QED
        BY <2>1, <3>2, <4>1, Zenon DEF JobOK, ApprovalOK, ProofOK, Consented
    <3>3. CASE pc \notin WithProof \cup {"respond"}
      BY <2>1, <3>3, Zenon DEF JobOK, ProofOK
    <3> QED
      BY <3>1, <3>2, <3>3, Zenon
  <2>3. \A p \in released : \E a \in approvals :
          /\ Consented(a.id, p.proof)
          /\ a.id = p.id \/ p.proof.subject.kind = "Routine"
    BY <2>1, Zenon DEF ReleasedOK
  <2>4. /\ store.root # None => \E a \in approvals : Consented(a.id, store.root)
        /\ \A i \in DOMAIN store.journal : store.journal[i].kind = "Routine" =>
             \E a \in approvals : Consented(a.id, store.journal[i].proof)
    BY <2>1, Zenon DEF StoreOK
  <2> QED
    BY <2>2, <2>3, <2>4, Zenon DEF ConsentCoversEverySignature
<1> QED
  BY <1>1, DaemonInvariance, PTL

\* Every answered rotation is in the journal and every answered root is the
\* recorded one, across crashes and other processes' writes.
THEOREM AnswersStayRecorded == Spec => []AnswersAreRecorded
<1>1. IInv => AnswersAreRecorded
  BY Zenon DEF IInv, ReleasedOK, Recorded, AnswersAreRecorded
<1> QED
  BY <1>1, DaemonInvariance, PTL

\* No root is recorded and no rotation committed for a client that had left
\* when the signature was made.
THEOREM NothingForALeftClient == Spec => []NoWriteForALeftClient
<1>1. IInv => NoWriteForALeftClient
  BY Zenon DEF IInv
<1> QED
  BY <1>1, DaemonInvariance, PTL

\* Unless the clock is set back, an answered domain proof or ceremony response
\* was signed before it expired.
THEOREM SteadyClockMeansInTime == Spec => [](~ ClockCanStepBack => ProofsMadeInTime)
<1>1. IInv => (~ ClockCanStepBack => ProofsMadeInTime)
  BY Zenon DEF IInv, ReleasedOK, MadeInTime, ProofsMadeInTime
<1> QED
  BY <1>1, DaemonInvariance, PTL
==============================================================================
