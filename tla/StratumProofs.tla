---------------------------- MODULE StratumProofs ----------------------------
(***************************************************************************)
(* Proofs about Stratum for all announcements and nonces and every bound,  *)
(* and about JobFields for every base and all lengths of its numbers.      *)
(***************************************************************************)
EXTENDS PublishedJobs, CountingProofs, SequenceTheorems

-----------------------------------------------------------------------------
\* The inductive invariant: what the properties need to know of each other.

\* No more jobs than MaxJobs are published or on their way.
JobsBounded == Len(jobs) + Unread(JobFrames) <= MaxJobs

\* Only the two states before a connection are without one, and then nothing of
\* an earlier one is left; before the first, nothing was counted.
Connected ==
    /\ io \in {"subscribe", "drain", "read"} => link # "none"
    /\ link = "none" => inbox = <<>>
    /\ session = 0 =>
         /\ link = "none"
         /\ accepted = 0 /\ rejected = 0
         /\ verdicts["true"] = 0 /\ verdicts["false"] = 0

\* A share is queued once, and while it is, it was neither written nor lost.
QueuedOnce ==
    /\ IsFiniteSet(submitted) /\ IsFiniteSet(sent) /\ IsFiniteSet(lost)
    /\ \A i, j \in 1 .. Len(outbox) : outbox[i] = outbox[j] => i = j
    /\ \A i \in 1 .. Len(outbox) : outbox[i] \notin sent \union lost

\* Each lost share goes with a fault of its own, and a connection that is down
\* and may still cost one has its fault besides.
Down == link \in {"closed", "reset", "silent", "stalled"} /\ io # "lost"
FaultsPaid == Cardinality(lost) + (IF Down THEN 1 ELSE 0) <= faults

Inv ==
    /\ TypeOK
    /\ JobsBounded
    /\ Connected
    /\ SessionJobs
    /\ AnswersCounted
    /\ QueuedOnce
    /\ ShareConservation
    /\ FaultsPaid

-----------------------------------------------------------------------------
\* The invariant holds before the first step.
LEMMA InitInv == Init => Inv
<1> SUFFICES ASSUME Init PROVE Inv
  OBVIOUS
<1>1. TypeOK
  <2>1. <<>> \in Seq(Announcements) /\ <<>> \in Seq(Share) /\ <<>> \in Seq(Frame)
        /\ <<>> \in Seq(Nat) /\ Len(<<>>) = 0
    OBVIOUS
  <2>2. verdicts \in [Verdicts -> Nat]
    BY DEF Init
  <2>3. subscribed \in BOOLEAN
    BY DEF Init
  <2> QED
    BY <2>1, <2>2, <2>3, BoundsAssumption DEF Init, TypeOK, Links
<1>5. Connected /\ SessionJobs
  BY DEF Init, Connected, SessionJobs, Verdicts
<1>2. \A F : Unread(F) = 0
  BY PlacesNone DEF Init, Unread
<1>3. JobsBounded /\ AnswersCounted
  BY <1>2, BoundsAssumption DEF Init, JobsBounded, AnswersCounted, Verdicts
<1>4. QueuedOnce /\ ShareConservation /\ FaultsPaid
  <2>1. Cardinality({}) = 0 /\ IsFiniteSet({}) /\ ToSet(<<>>) = {}
    BY FS_EmptySet DEF ToSet
  <2> QED
    BY <2>1 DEF Init, QueuedOnce, ShareConservation, FaultsPaid, Down
<1> QED
  BY <1>1, <1>3, <1>4, <1>5 DEF Inv

-----------------------------------------------------------------------------
\* What is said of a frame by its kind.
LEMMA FrameKinds ==
    ASSUME NEW f \in Frame
    PROVE  /\ f.kind \in {"job", "answer", "ping", "close", "other"}
           /\ f.kind = "job" <=> f \in JobFrames
           /\ f.kind = "job" => f.job \in Announcements
           /\ \A v \in Verdicts : f \in Answers(v) <=> f.kind = "answer" /\ f.result = v
BY DEF Frame, JobFrames, Answers, Verdicts

\* A frame put in: the inbox holds frames still.
LEMMA FramePut ==
    ASSUME TypeOK, NEW e \in Frame
    PROVE  /\ Append(inbox, e) \in Seq(Frame)
           /\ \A F : Unread(F) \in Nat
           /\ \A F : Cardinality(Places(Append(inbox, e), F))
                       = Unread(F) + (IF e \in F THEN 1 ELSE 0)
<1>1. inbox \in Seq(Frame) /\ Append(inbox, e) \in Seq(Frame)
  BY DEF TypeOK
<1> QED
  BY <1>1, PlacesAppend, PlacesFinite DEF Unread

\* A frame read: what is left of the inbox, and how many of each kind.
LEMMA FrameRead ==
    ASSUME TypeOK, inbox # <<>>
    PROVE  /\ Head(inbox) \in Frame
           /\ Tail(inbox) \in Seq(Frame)
           /\ \A F : Cardinality(Places(Tail(inbox), F)) \in Nat
           /\ \A F : Unread(F) = Cardinality(Places(Tail(inbox), F))
                                   + (IF Head(inbox) \in F THEN 1 ELSE 0)
<1>1. inbox \in Seq(Frame) /\ Head(inbox) \in Frame /\ Tail(inbox) \in Seq(Frame)
  BY DEF TypeOK
<1> QED
  BY <1>1, PlacesTail, PlacesFinite DEF Unread

\* Every step keeps the types, and the bound on the jobs.
LEMMA TypeStep == TypeOK /\ JobsBounded /\ [Next]_vars => TypeOK'
<1> SUFFICES ASSUME TypeOK, JobsBounded, [Next]_vars PROVE TypeOK'
  OBVIOUS
<1> USE DEF TypeOK
<1>1. ASSUME NEW s \in Share, Submit(s) PROVE TypeOK'
  BY <1>1 DEF Submit, poolVars, connVars
<1>2. CASE Connect
  BY <1>2 DEF Connect, poolVars, histVars, Links
<1>3. CASE ConnectFails
  BY <1>3, BoundsAssumption DEF ConnectFails, poolVars, connVars, histVars
<1>4. CASE Subscribe
  <2>1. link' \in Links
    BY <1>4 DEF Subscribe, Written, Links
  <2>2. inbox' \in Seq(Frame)
    <3>1. [kind |-> "other"] \in Frame
      BY DEF Frame
    <3>2. inbox' = Append(inbox, [kind |-> "other"]) \/ inbox' = inbox
      BY <1>4 DEF Subscribe
    <3>3. Append(inbox, [kind |-> "other"]) \in Seq(Frame)
      BY <3>1, FramePut, Zenon
    <3> QED
      BY <3>2, <3>3, Zenon
  <2>3. subscribed' \in BOOLEAN
    BY <1>4 DEF Subscribe
  <2> QED
    BY <1>4, <2>1, <2>2, <2>3 DEF Subscribe, poolVars, histVars
<1>5. CASE SubscribeFails
  BY <1>5 DEF SubscribeFails, poolVars, connVars, histVars
<1>6. CASE SendShare
  <2>1. link' \in Links
    BY <1>6 DEF SendShare, Written, Links
  <2>2. Head(outbox) \in Share /\ Tail(outbox) \in Seq(Share)
    BY <1>6 DEF SendShare
  <2> QED
    BY <1>6, <2>1, <2>2 DEF SendShare, poolVars
<1>7. CASE SendFails
  <2>1. Head(outbox) \in Share /\ Tail(outbox) \in Seq(Share)
    BY <1>7 DEF SendFails
  <2> QED
    BY <1>7, <2>1 DEF SendFails, poolVars, connVars
<1>8. CASE Drained
  BY <1>8 DEF Drained, poolVars, connVars, histVars
<1>9. CASE ReadFrame
  <2> DEFINE f == Head(inbox)
  <2>1. inbox # <<>> /\ f \in Frame /\ inbox' \in Seq(Frame)
    BY <1>9, FrameRead DEF ReadFrame
  <2>2. link' \in Links
    BY <1>9 DEF ReadFrame, Written, Links
  <2>3. CASE PublishJob(f)
    <3>1. f.job \in Announcements /\ f \in JobFrames
      BY <2>1, <2>3, FrameKinds DEF PublishJob
    <3>2. Len(jobs) + 1 <= MaxJobs
      BY <2>1, <3>1, FrameRead, BoundsAssumption DEF JobsBounded
    <3> QED
      BY <1>9, <2>1, <2>2, <2>3, <3>1, <3>2 DEF ReadFrame, PublishJob
  <2>4. CASE CountAnswer(f)
    BY <1>9, <2>1, <2>2, <2>4 DEF ReadFrame, CountAnswer, Count
  <2>5. CASE LogFrame(f)
    BY <1>9, <2>1, <2>2, <2>5 DEF ReadFrame, LogFrame, poolVars
  <2>6. CASE CloseFrame(f)
    BY <1>9, <2>1, <2>2, <2>6 DEF ReadFrame, CloseFrame, poolVars
  <2>7. CASE Pong(f)
    BY <1>9, <2>1, <2>2, <2>7 DEF ReadFrame, Pong, poolVars
  <2> QED
    BY <1>9, <2>3, <2>4, <2>5, <2>6, <2>7 DEF ReadFrame
<1>10. CASE ReadTimeout
  BY <1>10 DEF ReadTimeout, poolVars, connVars, histVars
<1>11. CASE ReadError
  BY <1>11 DEF ReadError, poolVars, connVars, histVars
<1>12. CASE LoseConnection
  <2>1. subscribed' \in BOOLEAN
    BY <1>12 DEF LoseConnection
  <2>2. inbox' \in Seq(Frame) /\ link' \in Links /\ current' = 0
    BY <1>12 DEF LoseConnection, Links
  <2> QED
    BY <1>12, <2>1, <2>2 DEF LoseConnection, histVars
<1>13. ASSUME NEW a \in Announcements, PoolAnnounces(a) PROVE TypeOK'
  <2>1. [kind |-> "job", job |-> a] \in Frame
    BY DEF Frame, JobFrames
  <2> QED
    BY <1>13, <2>1 DEF PoolAnnounces, Deliver, poolVars, histVars
<1>14. ASSUME NEW s \in pending, NEW v \in Verdicts, PoolAnswers(s, v) PROVE TypeOK'
  <2>1. [kind |-> "answer", result |-> v] \in Frame
    BY DEF Frame, Answers
  <2>2. verdicts' \in [Verdicts -> Nat]
    BY <1>14 DEF PoolAnswers
  <2> QED
    BY <1>14, <2>1, <2>2 DEF PoolAnswers, Deliver, poolVars, histVars
<1>15. CASE PoolChatters
  <2>1. PICK k \in {"ping", "other"} : Deliver([kind |-> k])
    BY <1>15 DEF PoolChatters
  <2>2. [kind |-> k] \in Frame
    BY DEF Frame
  <2> QED
    BY <1>15, <2>1, <2>2 DEF PoolChatters, Deliver, poolVars, histVars
<1>16. CASE Fault
  <2>1. [kind |-> "close"] \in Frame
    BY DEF Frame
  <2>2. inbox' = inbox \/ inbox' = Append(inbox, [kind |-> "close"])
    BY <1>16 DEF Fault
  <2>4. Append(inbox, [kind |-> "close"]) \in Seq(Frame)
    BY <2>1, FramePut, Zenon
  <2>5. link' \in Links
    BY <1>16 DEF Fault, Links
  <2>3. link' \in Links /\ inbox' \in Seq(Frame)
    BY <2>2, <2>4, <2>5, Zenon
  <2> QED
    BY <1>16, <2>3, BoundsAssumption DEF Fault, poolVars, histVars
<1>17. CASE TransportGivesUp
  BY <1>17 DEF TransportGivesUp, poolVars, histVars, Links
<1>18. CASE UNCHANGED vars
  BY <1>18 DEF vars, poolVars, connVars, histVars
<1> QED
  BY <1>1, <1>2, <1>3, <1>4, <1>5, <1>6, <1>7, <1>8, <1>9, <1>10, <1>11, <1>12,
     <1>13, <1>14, <1>15, <1>16, <1>17, <1>18 DEF Next, IoStep, PoolStep

-----------------------------------------------------------------------------
\* The steps that neither read a frame nor make or leave a connection: they go
\* on in the loop of the connection, and may put one frame into the inbox.
Moves ==
    /\ UNCHANGED <<jobs, current, origin, accepted, rejected, session>>
    /\ link' = "none" <=> link = "none"
    /\ \/ io' = io \/ io' = "lost"
       \/ io \in {"subscribe", "drain", "read"} /\ io' \in {"drain", "read"}
Quiet == Moves /\ UNCHANGED <<inbox, verdicts>>
Put(e) ==
    /\ Moves
    /\ link = "up"
    /\ inbox' = Append(inbox, e)
    /\ e.kind = "job" => Len(jobs) + Unread(JobFrames) < MaxJobs
    /\ \/ e.kind # "answer" /\ UNCHANGED verdicts
       \/ e.kind = "answer" /\ verdicts' = [verdicts EXCEPT ![e.result] = @ + 1]

\* Every step is of one of these kinds.
LEMMA StepKinds ==
    ASSUME TypeOK, [Next]_vars
    PROVE  \/ Connect \/ LoseConnection \/ ReadFrame
           \/ Quiet
           \/ \E e \in Frame : Put(e)
<1> USE DEF Quiet, Moves
<1>1. ASSUME NEW s \in Share, Submit(s) PROVE Quiet
  BY <1>1 DEF Submit, poolVars, connVars
<1>2. CASE ConnectFails
  BY <1>2 DEF ConnectFails, poolVars, connVars, histVars
<1>3. ASSUME Subscribe PROVE Quiet \/ Put([kind |-> "other"])
  BY <1>3 DEF Subscribe, Written, Put, poolVars, histVars
<1>4. CASE SubscribeFails
  BY <1>4 DEF SubscribeFails, poolVars, connVars, histVars
<1>5. CASE SendShare
  BY <1>5 DEF SendShare, Written, poolVars
<1>6. CASE SendFails
  BY <1>6 DEF SendFails, poolVars, connVars
<1>7. CASE Drained
  BY <1>7 DEF Drained, poolVars, connVars, histVars
<1>8. CASE ReadTimeout
  BY <1>8 DEF ReadTimeout, poolVars, connVars, histVars
<1>9. CASE ReadError
  BY <1>9 DEF ReadError, poolVars, connVars, histVars
<1>10. ASSUME NEW a \in Announcements, PoolAnnounces(a)
       PROVE  Put([kind |-> "job", job |-> a])
  BY <1>10 DEF PoolAnnounces, Deliver, Put, poolVars, histVars
<1>11. ASSUME NEW s \in pending, NEW v \in Verdicts, PoolAnswers(s, v)
       PROVE  Put([kind |-> "answer", result |-> v])
  BY <1>11 DEF PoolAnswers, Deliver, Put, poolVars, histVars
<1>12. ASSUME NEW k \in {"ping", "other"}, Deliver([kind |-> k]),
              UNCHANGED <<pending, verdicts>>
       PROVE  Put([kind |-> k])
  BY <1>12 DEF Deliver, Put, poolVars, histVars
<1>13. ASSUME Fault PROVE Quiet \/ Put([kind |-> "close"])
  BY <1>13 DEF Fault, Put, poolVars, histVars
<1>14. CASE TransportGivesUp
  BY <1>14 DEF TransportGivesUp, poolVars, histVars
<1>15. CASE UNCHANGED vars
  BY <1>15 DEF vars, poolVars, connVars, histVars
<1>16. \A k \in {"ping", "close", "other"} : [kind |-> k] \in Frame
  BY DEF Frame
<1>17. \A a \in Announcements : [kind |-> "job", job |-> a] \in Frame
  BY DEF Frame, JobFrames
<1>18. \A v \in Verdicts : [kind |-> "answer", result |-> v] \in Frame
  BY DEF Frame
<1> HIDE DEF Quiet, Moves
<1>19. CASE Subscribe
  BY <1>3, <1>16, <1>19, Zenon
<1>20. CASE Fault
  BY <1>13, <1>16, <1>20, Zenon
<1>21. CASE PoolChatters
  BY <1>12, <1>16, <1>21, Zenon DEF PoolChatters
<1>22. ASSUME NEW a \in Announcements, PoolAnnounces(a) PROVE \E e \in Frame : Put(e)
  BY <1>10, <1>17, <1>22, Zenon
<1>23. ASSUME NEW s \in pending, NEW v \in Verdicts, PoolAnswers(s, v)
       PROVE  \E e \in Frame : Put(e)
  BY <1>11, <1>18, <1>23, Zenon
<1> QED
  BY <1>1, <1>2, <1>4, <1>5, <1>6, <1>7, <1>8, <1>9, <1>14, <1>15, <1>19, <1>20,
     <1>21, <1>22, <1>23 DEF Next, IoStep, PoolStep

\* The step that reads a frame, by the kind of the frame.
LEMMA ReadKinds ==
    ASSUME TypeOK, ReadFrame
    PROVE  /\ inbox # <<>> /\ inbox' = Tail(inbox) /\ Head(inbox) \in Frame
           /\ io = "read" /\ io' \in {"drain", "lost"}
           /\ link' = "none" <=> link = "none"
           /\ UNCHANGED <<session, verdicts>>
           /\ \/ PublishJob(Head(inbox))
              \/ CountAnswer(Head(inbox))
              \/ /\ Head(inbox).kind \notin {"job", "answer"}
                 /\ UNCHANGED <<jobs, current, origin, accepted, rejected>>
<1>1. inbox # <<>> /\ Head(inbox) \in Frame
  BY FrameRead DEF ReadFrame
<1>2. link' = "none" <=> link = "none"
  BY DEF ReadFrame, Written
<1>3. io' \in {"drain", "lost"}
  BY DEF ReadFrame, PublishJob, CountAnswer, LogFrame, CloseFrame, Pong
<1>4. \/ PublishJob(Head(inbox))
      \/ CountAnswer(Head(inbox))
      \/ /\ Head(inbox).kind \notin {"job", "answer"}
         /\ UNCHANGED <<jobs, current, origin, accepted, rejected>>
  BY DEF ReadFrame, LogFrame, CloseFrame, Pong, poolVars
<1> QED
  BY <1>1, <1>2, <1>3, <1>4 DEF ReadFrame

\* How many frames of a kind are unread after a step of each kind.
LEMMA UnreadAfter ==
    ASSUME TypeOK, NEW F
    PROVE  /\ Unread(F) \in Nat
           /\ UNCHANGED inbox => Cardinality(Places(inbox', F)) = Unread(F)
           /\ inbox' = <<>> => Cardinality(Places(inbox', F)) = 0
           /\ \A e \in Frame : inbox' = Append(inbox, e) =>
                Cardinality(Places(inbox', F)) = Unread(F) + (IF e \in F THEN 1 ELSE 0)
           /\ inbox # <<>> /\ inbox' = Tail(inbox) =>
                /\ Cardinality(Places(inbox', F)) \in Nat
                /\ Unread(F) = Cardinality(Places(inbox', F))
                                 + (IF Head(inbox) \in F THEN 1 ELSE 0)
<1>1. inbox \in Seq(Frame)
  BY DEF TypeOK
<1>2. Unread(F) \in Nat
  BY <1>1, PlacesFinite DEF Unread
<1>3. \A e \in Frame : Cardinality(Places(Append(inbox, e), F))
                         = Unread(F) + (IF e \in F THEN 1 ELSE 0)
  BY FramePut
<1>4. inbox # <<>> =>
        /\ Cardinality(Places(Tail(inbox), F)) \in Nat
        /\ Unread(F) = Cardinality(Places(Tail(inbox), F))
                         + (IF Head(inbox) \in F THEN 1 ELSE 0)
  BY FrameRead
<1>5. Cardinality(Places(<<>>, F)) = 0
  BY PlacesNone
<1> QED
  BY <1>2, <1>3, <1>4, <1>5 DEF Unread

\* The bound on the jobs, published and under way, is kept.
LEMMA BoundStep ==
    ASSUME TypeOK, JobsBounded, [Next]_vars
    PROVE  JobsBounded'
<1> DEFINE left == Cardinality(Places(inbox', JobFrames))
<1>1. SUFFICES Len(jobs') + left <= MaxJobs
  BY DEF JobsBounded, Unread
<1>2. Len(jobs) \in Nat /\ MaxJobs \in Nat /\ Len(jobs) + Unread(JobFrames) <= MaxJobs
      /\ Unread(JobFrames) \in Nat
  BY UnreadAfter, BoundsAssumption DEF TypeOK, JobsBounded
<1>3. CASE Connect \/ Quiet
  <2>1. UNCHANGED <<jobs, inbox>>
    BY <1>3 DEF Connect, Quiet, Moves, poolVars
  <2>2. left = Unread(JobFrames)
    BY <2>1, UnreadAfter
  <2> HIDE DEF left
  <2> QED
    BY <1>2, <2>1, <2>2
<1>4. CASE LoseConnection
  <2>1. left = 0
    BY <1>4, UnreadAfter DEF LoseConnection
  <2>2. UNCHANGED jobs
    BY <1>4 DEF LoseConnection
  <2> HIDE DEF left
  <2> QED
    BY <1>2, <2>1, <2>2
<1>5. ASSUME NEW e \in Frame, Put(e) PROVE Len(jobs') + left <= MaxJobs
  <2>1. left = Unread(JobFrames) + (IF e \in JobFrames THEN 1 ELSE 0)
    BY <1>5, UnreadAfter DEF Put
  <2>2. UNCHANGED jobs /\ (e \in JobFrames => Len(jobs) + Unread(JobFrames) < MaxJobs)
    BY <1>5, FrameKinds DEF Put, Moves
  <2> HIDE DEF left
  <2> QED
    BY <1>2, <2>1, <2>2
<1>6. CASE ReadFrame
  <2> DEFINE f == Head(inbox)
  <2>1. left \in Nat /\ Unread(JobFrames) = left + (IF f \in JobFrames THEN 1 ELSE 0)
    BY <1>6, UnreadAfter, ReadKinds
  <2>2. Len(jobs') = IF f \in JobFrames THEN Len(jobs) + 1 ELSE Len(jobs)
    <3>1. f \in Frame
      BY <1>6, ReadKinds
    <3>2. CASE PublishJob(f)
      BY <3>1, <3>2, FrameKinds DEF PublishJob, TypeOK
    <3>3. CASE ~PublishJob(f)
      BY <1>6, <3>1, <3>3, ReadKinds, FrameKinds DEF CountAnswer
    <3> QED
      BY <3>2, <3>3
  <2> HIDE DEF left, f
  <2> QED
    BY <1>2, <2>1, <2>2
<1> QED
  BY <1>3, <1>4, <1>5, <1>6, StepKinds

\* The connection and what belongs to it.
LEMMA ConnectedStep ==
    ASSUME TypeOK, Connected, [Next]_vars
    PROVE  Connected'
<1> USE DEF Connected
<1>1. CASE Connect
  BY <1>1 DEF Connect, poolVars, TypeOK
<1>2. CASE LoseConnection
  BY <1>2 DEF LoseConnection
<1>3. CASE ReadFrame
  BY <1>3, ReadKinds
<1>4. CASE Quiet
  BY <1>4 DEF Quiet, Moves
<1>5. ASSUME NEW e \in Frame, Put(e) PROVE Connected'
  BY <1>5 DEF Put, Moves
<1> QED
  BY <1>1, <1>2, <1>3, <1>4, <1>5, StepKinds

\* The job shown belongs to the connection of now.
LEMMA SessionStep ==
    ASSUME TypeOK, Connected, SessionJobs, [Next]_vars
    PROVE  SessionJobs'
<1> USE DEF SessionJobs
<1>1. CASE Connect
  BY <1>1 DEF Connect, poolVars
<1>2. CASE LoseConnection
  BY <1>2 DEF LoseConnection
<1>3. CASE ReadFrame
  <2>1. link' # "none" /\ io' \notin {"connect", "subscribe"} /\ session' = session
    BY <1>3, ReadKinds DEF Connected
  <2>2. CASE PublishJob(Head(inbox))
    <3>1. origin' = Append(origin, session) /\ current' = Len(origin) + 1
          /\ origin \in Seq(Nat) /\ session \in Nat
      BY <2>2 DEF PublishJob, TypeOK
    <3> QED
      BY <2>1, <3>1
  <2>3. CASE UNCHANGED <<current, origin>>
    BY <2>1, <2>3
  <2> QED
    BY <1>3, <2>2, <2>3, ReadKinds DEF CountAnswer
<1>4. CASE Quiet
  BY <1>4 DEF Quiet, Moves
<1>5. ASSUME NEW e \in Frame, Put(e) PROVE SessionJobs'
  BY <1>5 DEF Put, Moves
<1> QED
  BY <1>1, <1>2, <1>3, <1>4, <1>5, StepKinds

\* The counters and the answers of the pool.
LEMMA AnswersStep ==
    ASSUME TypeOK, Connected, AnswersCounted, [Next]_vars
    PROVE  AnswersCounted'
<1> DEFINE t == Cardinality(Places(inbox', Answers("true")))
           f == Cardinality(Places(inbox', Answers("false")))
           T == Unread(Answers("true"))
           U == Unread(Answers("false"))
<1>1. SUFFICES /\ accepted' + t <= verdicts'["true"]
               /\ rejected' + f <= verdicts'["false"]
               /\ session' = 1 /\ link' # "none" =>
                    /\ accepted' + t = verdicts'["true"]
                    /\ rejected' + f = verdicts'["false"]
  BY DEF AnswersCounted, Unread
<1>2. /\ accepted \in Nat /\ rejected \in Nat /\ session \in Nat
      /\ verdicts["true"] \in Nat /\ verdicts["false"] \in Nat
      /\ T \in Nat /\ U \in Nat
      /\ accepted + T <= verdicts["true"] /\ rejected + U <= verdicts["false"]
      /\ session = 1 /\ link # "none" =>
           accepted + T = verdicts["true"] /\ rejected + U = verdicts["false"]
  BY UnreadAfter DEF TypeOK, AnswersCounted, Verdicts
<1>3. CASE Connect
  <2>1. t = T /\ f = U /\ session' = session + 1
        /\ UNCHANGED <<accepted, rejected, verdicts>>
    BY <1>3, UnreadAfter DEF Connect, poolVars
  <2>2. session = 0 => T = 0 /\ U = 0
    BY UnreadAfter, PlacesNone DEF Connected, Unread
  <2>3. session = 0 => accepted = 0 /\ rejected = 0
                       /\ verdicts["true"] = 0 /\ verdicts["false"] = 0
    BY DEF Connected
  <2> HIDE DEF t, f, T, U
  <2> QED
    BY <1>2, <2>1, <2>2, <2>3
<1>4. CASE LoseConnection
  <2>1. t = 0 /\ f = 0 /\ link' = "none" /\ UNCHANGED <<accepted, rejected, verdicts>>
    BY <1>4, UnreadAfter DEF LoseConnection
  <2> HIDE DEF t, f, T, U
  <2> QED
    BY <1>2, <2>1
<1>5. CASE Quiet
  <2>1. t = T /\ f = U /\ (link' # "none" => link # "none")
        /\ UNCHANGED <<accepted, rejected, verdicts, session>>
    BY <1>5, UnreadAfter DEF Quiet, Moves
  <2> HIDE DEF t, f, T, U
  <2> QED
    BY <1>2, <2>1
<1>6. ASSUME NEW e \in Frame, Put(e)
      PROVE  /\ accepted' + t <= verdicts'["true"]
             /\ rejected' + f <= verdicts'["false"]
             /\ session' = 1 /\ link' # "none" =>
                  /\ accepted' + t = verdicts'["true"]
                  /\ rejected' + f = verdicts'["false"]
  <2>1. /\ t = T + (IF e \in Answers("true") THEN 1 ELSE 0)
        /\ f = U + (IF e \in Answers("false") THEN 1 ELSE 0)
    BY <1>6, UnreadAfter DEF Put
  <2>2. /\ e \in Answers("true") <=> e.kind = "answer" /\ e.result = "true"
        /\ e \in Answers("false") <=> e.kind = "answer" /\ e.result = "false"
    BY FrameKinds DEF Verdicts
  <2>3. /\ verdicts'["true"] = verdicts["true"] + (IF e \in Answers("true") THEN 1 ELSE 0)
        /\ verdicts'["false"] = verdicts["false"] + (IF e \in Answers("false") THEN 1 ELSE 0)
    BY <1>6, <2>2 DEF Put, TypeOK, Verdicts
  <2>4. link # "none" /\ UNCHANGED <<accepted, rejected, session>>
    BY <1>6 DEF Put, Moves
  <2> HIDE DEF t, f, T, U
  <2> QED
    BY <1>2, <2>1, <2>3, <2>4
<1>7. CASE ReadFrame
  <2> DEFINE e == Head(inbox)
  <2>1. /\ t \in Nat /\ T = t + (IF e \in Answers("true") THEN 1 ELSE 0)
        /\ f \in Nat /\ U = f + (IF e \in Answers("false") THEN 1 ELSE 0)
    BY <1>7, UnreadAfter, ReadKinds
  <2>2. /\ e \in Answers("true") <=> e.kind = "answer" /\ e.result = "true"
        /\ e \in Answers("false") <=> e.kind = "answer" /\ e.result = "false"
    BY <1>7, ReadKinds, FrameKinds DEF Verdicts
  <2>3. /\ accepted' = accepted + (IF e \in Answers("true") THEN 1 ELSE 0)
        /\ rejected' = rejected + (IF e \in Answers("false") THEN 1 ELSE 0)
    <3>1. CASE PublishJob(e)
      BY <2>2, <3>1, <1>2 DEF PublishJob
    <3>2. CASE CountAnswer(e)
      BY <2>2, <3>2, <1>2 DEF CountAnswer, Count
    <3>3. CASE e.kind \notin {"job", "answer"} /\ UNCHANGED <<accepted, rejected>>
      BY <2>2, <3>3, <1>2
    <3> QED
      BY <1>7, <3>1, <3>2, <3>3, ReadKinds
  <2>4. (link' # "none" => link # "none") /\ UNCHANGED <<session, verdicts>>
    BY <1>7, ReadKinds
  <2> HIDE DEF t, f, T, U, e
  <2> QED
    BY <1>2, <2>1, <2>3, <2>4
<1> QED
  BY <1>3, <1>4, <1>5, <1>6, <1>7, StepKinds

-----------------------------------------------------------------------------
\* Shares move only when they are queued, written or lost.
LEMMA ShareKinds ==
    ASSUME [Next]_vars
    PROVE  \/ \E s \in Share : Submit(s)
           \/ SendShare
           \/ SendFails
           \/ UNCHANGED <<outbox, submitted, sent, lost>>
BY DEF Next, IoStep, PoolStep, Connect, ConnectFails, Subscribe, SubscribeFails, Drained,
       ReadFrame, ReadTimeout, ReadError, LoseConnection, PoolAnnounces, PoolAnswers,
       PoolChatters, Deliver, Fault, TransportGivesUp, vars, histVars

\* The share taken out of the channel is in it no more and was nowhere else.
LEMMA Taken ==
    ASSUME TypeOK, QueuedOnce, ShareConservation, outbox # <<>>
    PROVE  /\ Tail(outbox) \in Seq(Share) /\ Len(outbox) = Len(Tail(outbox)) + 1
           /\ Len(Tail(outbox)) \in Nat
           /\ Head(outbox) \notin ToSet(Tail(outbox)) \union sent \union lost
           /\ ToSet(outbox) = ToSet(Tail(outbox)) \union {Head(outbox)}
           /\ \A i, j \in 1 .. Len(Tail(outbox)) : Tail(outbox)[i] = Tail(outbox)[j] => i = j
           /\ \A i \in 1 .. Len(Tail(outbox)) :
                Tail(outbox)[i] \notin {Head(outbox)} \union sent \union lost
<1>1. outbox \in Seq(Share) /\ Len(outbox) \in Nat \ {0}
  BY DEF TypeOK
<1>2. /\ Tail(outbox) \in Seq(Share) /\ Len(outbox) = Len(Tail(outbox)) + 1
      /\ Len(Tail(outbox)) \in Nat
      /\ Head(outbox) = outbox[1]
      /\ \A i \in 1 .. Len(Tail(outbox)) : Tail(outbox)[i] = outbox[i + 1]
  BY <1>1
<1>3. ToSet(outbox) = {outbox[i] : i \in 1 .. Len(outbox)}
      /\ ToSet(Tail(outbox)) = {Tail(outbox)[i] : i \in 1 .. Len(Tail(outbox))}
  <2>1. DOMAIN outbox = 1 .. Len(outbox)
        /\ DOMAIN Tail(outbox) = 1 .. Len(Tail(outbox))
    BY <1>1, <1>2
  <2> QED
    BY <2>1 DEF ToSet
<1>4. \A i \in 1 .. Len(Tail(outbox)) : i + 1 \in 1 .. Len(outbox) /\ i + 1 # 1
  BY <1>2
<1>5. \A i, j \in 1 .. Len(Tail(outbox)) : Tail(outbox)[i] = Tail(outbox)[j] => i = j
  BY <1>2, <1>4 DEF QueuedOnce
<1>6. \A i \in 1 .. Len(Tail(outbox)) :
        Tail(outbox)[i] \notin {Head(outbox)} \union sent \union lost
  <2>1. 1 \in 1 .. Len(outbox)
    BY <1>1
  <2> QED
    BY <1>2, <1>4, <2>1 DEF QueuedOnce
<1>7. Head(outbox) \notin ToSet(Tail(outbox)) \union sent \union lost
  <2>1. Head(outbox) \notin ToSet(Tail(outbox))
    BY <1>3, <1>6
  <2>2. Head(outbox) \notin sent \union lost
    BY <1>1, <1>2 DEF QueuedOnce
  <2> QED
    BY <2>1, <2>2
<1>8. ToSet(outbox) = ToSet(Tail(outbox)) \union {Head(outbox)}
  <2>1. \A i \in 1 .. Len(outbox) : i = 1 \/ (i - 1 \in 1 .. Len(Tail(outbox))
                                          /\ outbox[i] = Tail(outbox)[i - 1])
    BY <1>1, <1>2
  <2>2. ToSet(outbox) \subseteq ToSet(Tail(outbox)) \union {Head(outbox)}
    <3> SUFFICES ASSUME NEW x \in ToSet(outbox), x # Head(outbox)
                 PROVE  x \in ToSet(Tail(outbox))
      OBVIOUS
    <3>1. PICK i \in 1 .. Len(outbox) : outbox[i] = x
      BY <1>3
    <3>2. i # 1
      BY <1>2, <3>1
    <3>3. PICK j \in 1 .. Len(Tail(outbox)) : x = Tail(outbox)[j]
      BY <2>1, <3>1, <3>2
    <3> QED
      BY <1>3, <3>3
  <2>3. ToSet(Tail(outbox)) \union {Head(outbox)} \subseteq ToSet(outbox)
    BY <1>1, <1>2, <1>3, <1>4
  <2> QED
    BY <2>2, <2>3
<1> QED
  BY <1>2, <1>5, <1>6, <1>7, <1>8

\* Shares are conserved: none is dropped but with its connection.
LEMMA SharesStep ==
    ASSUME TypeOK, QueuedOnce, ShareConservation, [Next]_vars
    PROVE  /\ QueuedOnce'
           /\ submitted' = ToSet(outbox)' \union sent' \union lost'
           /\ Cardinality(submitted') = Len(outbox') + Cardinality(sent') + Cardinality(lost')
<1> DEFINE Goal == /\ QueuedOnce'
                   /\ submitted' = ToSet(outbox') \union sent' \union lost'
                   /\ Cardinality(submitted') = Len(outbox') + Cardinality(sent')
                                                             + Cardinality(lost')
<1>1. /\ IsFiniteSet(submitted) /\ IsFiniteSet(sent) /\ IsFiniteSet(lost)
      /\ Cardinality(submitted) \in Nat /\ Cardinality(sent) \in Nat
      /\ Cardinality(lost) \in Nat /\ Len(outbox) \in Nat
      /\ submitted = ToSet(outbox) \union sent \union lost
      /\ Cardinality(submitted) = Len(outbox) + Cardinality(sent) + Cardinality(lost)
  BY FS_CardinalityType DEF QueuedOnce, ShareConservation, TypeOK
<1>2. ASSUME NEW s \in Share, Submit(s) PROVE Goal
  <2>1. /\ s \notin submitted /\ submitted' = submitted \union {s}
        /\ outbox' = Append(outbox, s) /\ sent' = sent /\ lost' = lost
        /\ outbox \in Seq(Share)
    BY <1>2 DEF Submit, TypeOK
  <2>2. /\ outbox' \in Seq(Share) /\ Len(outbox') = Len(outbox) + 1
        /\ \A i \in 1 .. Len(outbox) : outbox'[i] = outbox[i]
        /\ outbox'[Len(outbox) + 1] = s
    BY <2>1
  <2>3. /\ ToSet(outbox) = {outbox[i] : i \in 1 .. Len(outbox)}
        /\ ToSet(outbox') = {outbox'[i] : i \in 1 .. Len(outbox')}
    <3>1. DOMAIN outbox = 1 .. Len(outbox) /\ DOMAIN outbox' = 1 .. Len(outbox')
      BY <2>1, <2>2
    <3> QED
      BY <3>1 DEF ToSet
  <2>4. \A i \in 1 .. Len(outbox') : i \in 1 .. Len(outbox) \/ i = Len(outbox) + 1
    BY <1>1, <2>2
  <2>5. ToSet(outbox') = ToSet(outbox) \union {s}
    <3>1. ToSet(outbox') \subseteq ToSet(outbox) \union {s}
      BY <2>2, <2>3, <2>4
    <3>2. ToSet(outbox) \union {s} \subseteq ToSet(outbox')
      BY <1>1, <2>2, <2>3
    <3> QED
      BY <3>1, <3>2
  <2>6. s \notin ToSet(outbox) \union sent \union lost
    BY <1>1, <2>1
  <2>7. \A i \in 1 .. Len(outbox) : outbox[i] # s
    BY <2>3, <2>6
  <2>8. IsFiniteSet(submitted') /\ Cardinality(submitted') = Cardinality(submitted) + 1
    BY <1>1, <2>1, FS_AddElement
  <2>9. \A i, j \in 1 .. Len(outbox') : outbox'[i] = outbox'[j] => i = j
    BY <2>2, <2>4, <2>7 DEF QueuedOnce
  <2>10. \A i \in 1 .. Len(outbox') : outbox'[i] \notin sent \union lost
    BY <2>2, <2>4, <2>6 DEF QueuedOnce
  <2>11. QueuedOnce'
    BY <1>1, <2>1, <2>8, <2>9, <2>10 DEF QueuedOnce
  <2> QED
    BY <1>1, <2>1, <2>2, <2>5, <2>8, <2>11
<1>3. ASSUME outbox # <<>>, outbox' = Tail(outbox), submitted' = submitted,
             \/ sent' = sent \union {Head(outbox)} /\ lost' = lost
             \/ sent' = sent /\ lost' = lost \union {Head(outbox)}
      PROVE  Goal
  <2>1. /\ outbox' \in Seq(Share) /\ Len(outbox) = Len(outbox') + 1 /\ Len(outbox') \in Nat
        /\ Head(outbox) \notin sent /\ Head(outbox) \notin lost
        /\ ToSet(outbox) = ToSet(outbox') \union {Head(outbox)}
        /\ \A i, j \in 1 .. Len(outbox') : outbox'[i] = outbox'[j] => i = j
        /\ \A i \in 1 .. Len(outbox') : outbox'[i] \notin {Head(outbox)} \union sent \union lost
    BY <1>3, Taken
  <2>2. sent' \union lost' = {Head(outbox)} \union sent \union lost
    BY <1>3
  <2>3. /\ IsFiniteSet(sent') /\ IsFiniteSet(lost')
        /\ Cardinality(sent') \in Nat /\ Cardinality(lost') \in Nat
        /\ Cardinality(sent') + Cardinality(lost') = Cardinality(sent) + Cardinality(lost) + 1
    <3>1. /\ IsFiniteSet(sent \union {Head(outbox)})
          /\ Cardinality(sent \union {Head(outbox)}) = Cardinality(sent) + 1
      BY <1>1, <2>1, FS_AddElement
    <3>2. /\ IsFiniteSet(lost \union {Head(outbox)})
          /\ Cardinality(lost \union {Head(outbox)}) = Cardinality(lost) + 1
      BY <1>1, <2>1, FS_AddElement
    <3>3. CASE sent' = sent \union {Head(outbox)} /\ lost' = lost
      BY <1>1, <3>1, <3>3
    <3>4. CASE sent' = sent /\ lost' = lost \union {Head(outbox)}
      BY <1>1, <3>2, <3>4
    <3> QED
      BY <1>3, <3>3, <3>4
  <2>4. QueuedOnce'
    BY <1>1, <1>3, <2>1, <2>2, <2>3 DEF QueuedOnce
  <2>5. submitted' = ToSet(outbox') \union sent' \union lost'
    BY <1>1, <1>3, <2>1, <2>2
  <2>6. Cardinality(submitted') = Len(outbox') + Cardinality(sent') + Cardinality(lost')
    <3>1. Cardinality(submitted') = Cardinality(submitted)
      BY <1>3
    <3>2. /\ Cardinality(sent) \in Nat /\ Cardinality(lost) \in Nat
          /\ Cardinality(submitted) = Len(outbox) + Cardinality(sent) + Cardinality(lost)
      BY <1>1
    <3>3. Len(outbox) = Len(outbox') + 1 /\ Len(outbox') \in Nat
      BY <2>1
    <3> QED
      BY <2>3, <3>1, <3>2, <3>3
  <2> QED
    BY <2>4, <2>5, <2>6
<1>4. CASE SendShare
  BY <1>3, <1>4 DEF SendShare
<1>5. CASE SendFails
  BY <1>3, <1>5 DEF SendFails
<1>6. CASE UNCHANGED <<outbox, submitted, sent, lost>>
  BY <1>1, <1>6 DEF QueuedOnce
<1> QED
  BY <1>2, <1>4, <1>5, <1>6, ShareKinds

\* A share is lost only to a fault that no other share was lost to.
LEMMA FaultStep ==
    ASSUME TypeOK, QueuedOnce, ShareConservation, FaultsPaid, [Next]_vars
    PROVE  FaultsPaid'
<1> USE DEF FaultsPaid, Down
<1>1. Cardinality(lost) \in Nat /\ faults \in Nat
  BY FS_CardinalityType DEF QueuedOnce, TypeOK
<1>2. CASE SendFails
  <2>1. IsFiniteSet(lost) /\ Head(outbox) \notin lost
    BY <1>2, Taken DEF SendFails, QueuedOnce
  <2>2. Cardinality(lost') = Cardinality(lost) + 1
    BY <1>2, <2>1, FS_AddElement DEF SendFails
  <2>3. io = "drain" /\ io' = "lost" /\ link \in {"closed", "reset"} /\ faults' = faults
    BY <1>2 DEF SendFails, MayFail
  <2> QED
    BY <1>1, <2>2, <2>3
<1>3. CASE Fault
  BY <1>1, <1>3 DEF Fault, histVars
<1>4. CASE ConnectFails
  BY <1>1, <1>4 DEF ConnectFails, connVars, histVars
<1>5. CASE UNCHANGED <<lost, faults>> /\ (Down' => Down)
  BY <1>1, <1>5
<1>6. \/ SendFails \/ Fault \/ ConnectFails
      \/ UNCHANGED <<lost, faults>> /\ (Down' => Down)
  <2>1. CASE Connect \/ Subscribe \/ SubscribeFails \/ SendShare \/ Drained
    BY <2>1 DEF Connect, Subscribe, SubscribeFails, SendShare, Drained, Written, connVars,
                histVars
  <2>2. CASE ReadFrame
    BY <2>2 DEF ReadFrame, PublishJob, CountAnswer, LogFrame, CloseFrame, Pong, Written
  <2>3. CASE ReadTimeout \/ ReadError \/ LoseConnection
    BY <2>3 DEF ReadTimeout, ReadError, LoseConnection, connVars, histVars
  <2>4. CASE \E f : Deliver(f)
    BY <2>4 DEF Deliver, histVars
  <2>6. CASE PoolStep
    BY <2>4, <2>6 DEF PoolStep, PoolAnnounces, PoolAnswers, PoolChatters,
                      TransportGivesUp, histVars
  <2>5. CASE UNCHANGED vars \/ \E s \in Share : Submit(s)
    BY <2>5 DEF vars, Submit, connVars, histVars
  <2> QED
    BY <2>1, <2>2, <2>3, <2>5, <2>6 DEF Next, IoStep
<1> QED
  BY <1>2, <1>3, <1>4, <1>5, <1>6

-----------------------------------------------------------------------------
\* The invariant is inductive.
LEMMA StepInv == Inv /\ [Next]_vars => Inv'
<1> SUFFICES ASSUME Inv, [Next]_vars PROVE Inv'
  OBVIOUS
<1> USE DEF Inv
<1>1. TypeOK' /\ JobsBounded' /\ Connected' /\ SessionJobs' /\ AnswersCounted'
  BY TypeStep, BoundStep, ConnectedStep, SessionStep, AnswersStep
<1>2. QueuedOnce' /\ FaultsPaid'
  BY SharesStep, FaultStep
<1>3. ShareConservation'
  <2>1. Cardinality(lost') <= faults'
    <3>1. Cardinality(lost') \in Nat /\ faults' \in Nat
      BY <1>1, <1>2, FS_CardinalityType DEF QueuedOnce, TypeOK
    <3> QED
      BY <1>2, <3>1 DEF FaultsPaid
  <2> QED
    BY <2>1, SharesStep DEF ShareConservation
<1> QED
  BY <1>1, <1>2, <1>3

\* The invariant holds throughout.
THEOREM Inductive == Spec => []Inv
BY InitInv, StepInv, PTL DEF Spec

\* Every variable of the pool client has its type, and never more than MaxJobs
\* jobs are published: handle_message appends what the pool announced.
THEOREM TypeCorrect == Spec => []TypeOK
<1>1. Inv => TypeOK
  BY DEF Inv
<1> QED
  BY <1>1, Inductive, PTL

\* io_loop shows the miners only jobs of the connection of now.
THEOREM JobsOfThisSession == Spec => []SessionJobs
<1>1. Inv => SessionJobs
  BY DEF Inv
<1> QED
  BY <1>1, Inductive, PTL

\* The drain loop of run_connection drops no share but the one it was writing
\* when the connection went down, and writes none twice.
THEOREM SharesConserved == Spec => []ShareConservation
<1>1. Inv => ShareConservation
  BY DEF Inv
<1> QED
  BY <1>1, Inductive, PTL

\* handle_message counts what the pool answered and nothing else.
THEOREM CountersTruthful == Spec => []AnswersCounted
<1>1. Inv => AnswersCounted
  BY DEF Inv
<1> QED
  BY <1>1, Inductive, PTL

-----------------------------------------------------------------------------
\* The fields of a notification.  The recursive function Power is found, step by
\* step up to HashWidth.
LEMMA PowerFound ==
    Power[0] = 1 /\ \A n \in 1 .. HashWidth : Power[n] = Base * Power[n - 1]
<1> DEFINE At(g, n) == IF n = 0 THEN 1 ELSE Base * g[n - 1]
           S == {m \in 0 .. HashWidth : \E g : g = [n \in 0 .. m |-> At(g, n)]}
<1>1. HashWidth \in Nat
  BY FieldsAssumption
<1>2. \A m \in 0 .. HashWidth : m \in S <=> \E g : g = [n \in 0 .. m |-> At(g, n)]
  BY Zenon
<1>3. Power = CHOOSE g : g = [n \in 0 .. HashWidth |-> At(g, n)]
  BY DEF Power
<1>4. \A g, f, n : (n # 0 => g[n - 1] = f[n - 1]) => At(g, n) = At(f, n)
  OBVIOUS
<1>5. \A g : At(g, 0) = 1 /\ \A n \in 1 .. HashWidth : At(g, n) = Base * g[n - 1]
  BY <1>1
<1> HIDE DEF At, S
<1>6. 0 \in S
  <2>1. PICK g : g = [n \in 0 .. 0 |-> At(<<>>, n)]
    OBVIOUS
  <2>2. \A n \in 0 .. 0 : At(<<>>, n) = At(g, n)
    BY <1>4
  <2>3. g = [n \in 0 .. 0 |-> At(g, n)]
    BY <2>1, <2>2
  <2>4. 0 \in 0 .. HashWidth
    BY <1>1
  <2> QED
    BY <1>2, <2>3, <2>4, Zenon
<1>7. ASSUME NEW m \in 1 .. HashWidth, m - 1 \in S PROVE m \in S
  <2>1. m - 1 \in 0 .. HashWidth /\ m \in 0 .. HashWidth
    BY <1>1
  <2>2. PICK g : g = [n \in 0 .. m - 1 |-> At(g, n)]
    BY <1>2, <1>7, <2>1, Zenon
  <2>3. PICK f : f = [n \in 0 .. m |-> IF n = m THEN At(g, m) ELSE g[n]]
    OBVIOUS
  <2>4. ASSUME NEW n \in 0 .. m PROVE f[n] = At(f, n)
    <3>1. n # 0 => n - 1 \in 0 .. m /\ n - 1 # m
      OBVIOUS
    <3>2. n # 0 => g[n - 1] = f[n - 1]
      BY <2>3, <3>1
    <3>3. At(g, n) = At(f, n)
      BY <1>4, <3>2, Zenon
    <3>4. n # m => n \in 0 .. m - 1
      OBVIOUS
    <3>5. n # m => g[n] = At(g, n)
      BY <2>2, <3>4
    <3> QED
      BY <2>3, <3>3, <3>5
  <2>5. f = [n \in 0 .. m |-> At(f, n)]
    BY <2>3, <2>4
  <2> QED
    BY <1>2, <2>1, <2>5, Zenon
<1>8. HashWidth \in S
  BY <1>1, <1>6, <1>7, UpTo
<1>9. HashWidth \in 0 .. HashWidth
  BY <1>1
<1>10. Power = [n \in 0 .. HashWidth |-> At(Power, n)]
  BY <1>2, <1>3, <1>8, <1>9, Zenon
<1>11. 0 \in 0 .. HashWidth /\ \A n \in 1 .. HashWidth : n \in 0 .. HashWidth
  BY <1>1
<1> QED
  BY <1>5, <1>10, <1>11

\* So is Leading, up to the length of the digits.
LEMMA LeadingFound ==
    ASSUME NEW ds, Len(ds) \in Nat
    PROVE  /\ Leading(ds)[0] = 0
           /\ \A n \in 1 .. Len(ds) : Leading(ds)[n] = Leading(ds)[n - 1] * Base + ds[n]
<1> DEFINE At(g, n) == IF n = 0 THEN 0 ELSE g[n - 1] * Base + ds[n]
           S == {m \in 0 .. Len(ds) : \E g : g = [n \in 0 .. m |-> At(g, n)]}
<1>2. \A m \in 0 .. Len(ds) : m \in S <=> \E g : g = [n \in 0 .. m |-> At(g, n)]
  BY Zenon
<1>3. Leading(ds) = CHOOSE g : g = [n \in 0 .. Len(ds) |-> At(g, n)]
  BY DEF Leading
<1>4. \A g, f, n : (n # 0 => g[n - 1] = f[n - 1]) => At(g, n) = At(f, n)
  OBVIOUS
<1>5. \A g : At(g, 0) = 0 /\ \A n \in 1 .. Len(ds) : At(g, n) = g[n - 1] * Base + ds[n]
  OBVIOUS
<1> HIDE DEF At, S
<1>6. 0 \in S
  <2>1. PICK g : g = [n \in 0 .. 0 |-> At(<<>>, n)]
    OBVIOUS
  <2>2. \A n \in 0 .. 0 : At(<<>>, n) = At(g, n)
    BY <1>4
  <2>3. g = [n \in 0 .. 0 |-> At(g, n)]
    BY <2>1, <2>2
  <2>4. 0 \in 0 .. Len(ds)
    OBVIOUS
  <2> QED
    BY <1>2, <2>3, <2>4, Zenon
<1>7. ASSUME NEW m \in 1 .. Len(ds), m - 1 \in S PROVE m \in S
  <2>1. m - 1 \in 0 .. Len(ds) /\ m \in 0 .. Len(ds)
    OBVIOUS
  <2>2. PICK g : g = [n \in 0 .. m - 1 |-> At(g, n)]
    BY <1>2, <1>7, <2>1, Zenon
  <2>3. PICK f : f = [n \in 0 .. m |-> IF n = m THEN At(g, m) ELSE g[n]]
    OBVIOUS
  <2>4. ASSUME NEW n \in 0 .. m PROVE f[n] = At(f, n)
    <3>1. n # 0 => n - 1 \in 0 .. m /\ n - 1 # m
      OBVIOUS
    <3>2. n # 0 => g[n - 1] = f[n - 1]
      BY <2>3, <3>1
    <3>3. At(g, n) = At(f, n)
      BY <1>4, <3>2, Zenon
    <3>4. n # m => n \in 0 .. m - 1
      OBVIOUS
    <3>5. n # m => g[n] = At(g, n)
      BY <2>2, <3>4
    <3> QED
      BY <2>3, <3>3, <3>5
  <2>5. f = [n \in 0 .. m |-> At(f, n)]
    BY <2>3, <2>4
  <2> QED
    BY <1>2, <2>1, <2>5, Zenon
<1>8. \A n \in 0 .. Len(ds) : n \in S
  <2>1. \A n \in 1 .. Len(ds) : n - 1 \in S => n \in S
    BY <1>7
  <2> QED
    BY <1>6, <2>1, UpTo, Zenon
<1>9. Len(ds) \in 0 .. Len(ds) /\ Len(ds) \in S
  BY <1>8
<1>10. Leading(ds) = [n \in 0 .. Len(ds) |-> At(Leading(ds), n)]
  BY <1>2, <1>3, <1>9, Zenon
<1>11. 0 \in 0 .. Len(ds) /\ \A n \in 1 .. Len(ds) : n \in 0 .. Len(ds)
  OBVIOUS
<1> QED
  BY <1>5, <1>10, <1>11

\* The powers of Base.
LEMMA PowerType == \A n \in 0 .. HashWidth : Power[n] \in Nat \ {0}
<1> DEFINE S == {n \in 0 .. HashWidth : Power[n] \in Nat \ {0}}
<1>1. HashWidth \in Nat /\ Base \in Nat \ {0}
  BY FieldsAssumption
<1>2. 0 \in S
  BY <1>1, PowerFound
<1>3. ASSUME NEW n \in 1 .. HashWidth, n - 1 \in S PROVE n \in S
  <2>1. PICK p \in Nat \ {0} : p = Power[n - 1]
    BY <1>3
  <2>2. Base * p \in Nat \ {0}
    BY <1>1
  <2> QED
    BY <1>1, <2>1, <2>2, PowerFound
<1> HIDE DEF S
<1>4. \A n \in 0 .. HashWidth : n \in S
  BY <1>1, <1>2, <1>3, UpTo
<1> QED
  BY <1>4 DEF S

\* Multiplication, as far as the provers do not know it.
LEMMA Regroup ==
    \A a, b, c \in Int : a * (b * c) = b * (a * c) /\ a * (b * c) = (a * b) * c
OBVIOUS

\* A product grows with its first factor.
LEMMA NotLess == \A a, b, p \in Nat : a <= b => a * p <= b * p
<1> SUFFICES ASSUME NEW a \in Nat, NEW b \in Nat, NEW p \in Nat, a <= b PROVE a * p <= b * p
  OBVIOUS
<1>1. PICK d \in Nat : b = a + d
  <2>1. b - a \in Nat /\ b = a + (b - a)
    OBVIOUS
  <2> QED
    BY <2>1
<1>2. b * p = a * p + d * p /\ d * p \in Nat /\ a * p \in Nat
  BY <1>1
<1> QED
  BY <1>2

\* One more digit keeps a number between the bounds that its leading digits set.
LEMMA DigitMore ==
    ASSUME NEW a \in Nat, NEW p \in Nat \ {0}, NEW x \in Nat, NEW b \in Nat \ {0},
           NEW d \in 0 .. b - 1, a * p <= x, x <= a * p + p - 1
    PROVE  a * (b * p) <= x * b + d /\ x * b + d <= a * (b * p) + b * p - 1
<1>1. PICK y \in Nat : y = a * p
  OBVIOUS
<1>2. PICK e \in 0 .. p - 1 : x = y + e
  <2>1. x - y \in 0 .. p - 1 /\ x = y + (x - y)
    BY <1>1
  <2> QED
    BY <2>1
<1>3. a * (b * p) = y * b
  <2>1. a * (b * p) = (a * p) * b
    BY Regroup
  <2> QED
    BY <1>1, <2>1
<1>4. x * b = y * b + e * b
  BY <1>2
<1>5. (e + 1) * b <= p * b
  BY NotLess
<1>6. (e + 1) * b = e * b + b /\ p * b = b * p
  OBVIOUS
<1>7. PICK u, v, w \in Nat : u = y * b /\ v = e * b /\ w = b * p
  OBVIOUS
<1> QED
  BY <1>3, <1>4, <1>5, <1>6, <1>7

\* The powers of Base multiply.
LEMMA PowerSum ==
    ASSUME NEW m \in 0 .. HashWidth
    PROVE  \A n \in 0 .. HashWidth - m : Power[m + n] = Power[m] * Power[n]
<1> DEFINE S == {n \in 0 .. HashWidth - m : Power[m + n] = Power[m] * Power[n]}
<1>1. HashWidth \in Nat /\ Base \in Nat /\ HashWidth - m \in Nat
  BY FieldsAssumption
<1>2. PICK a \in Nat : a = Power[m]
  BY PowerType
<1>3. 0 \in S
  <2>1. Power[0] = 1 /\ m + 0 = m /\ a * 1 = a
    BY PowerFound
  <2> QED
    BY <1>1, <1>2, <2>1
<1>4. ASSUME NEW n \in 1 .. HashWidth - m, n - 1 \in S PROVE n \in S
  <2>1. n \in 1 .. HashWidth /\ m + n \in 1 .. HashWidth /\ n - 1 \in 0 .. HashWidth
        /\ (m + n) - 1 = m + (n - 1)
    BY <1>1
  <2>2. Power[n] = Base * Power[n - 1] /\ Power[m + n] = Base * Power[m + (n - 1)]
    BY <2>1, PowerFound
  <2>3. PICK p \in Nat : p = Power[n - 1]
    BY <2>1, PowerType
  <2>4. Power[m + (n - 1)] = a * p
    BY <1>2, <1>4, <2>3
  <2>5. Base * (a * p) = a * (Base * p)
    BY <1>1, Regroup
  <2> QED
    BY <1>2, <2>2, <2>3, <2>4, <2>5
<1> HIDE DEF S
<1>5. \A n \in 1 .. HashWidth - m : n - 1 \in S => n \in S
  BY <1>4
<1>6. \A n \in 0 .. HashWidth - m : n \in S
  BY <1>1, <1>3, <1>5, UpTo, Zenon
<1> QED
  BY <1>6 DEF S

-----------------------------------------------------------------------------
\* A field of n digits: it is a sequence, and no junk is in it.
LEMMA FieldIs ==
    ASSUME NEW n \in Nat, NEW f \in [1 .. n -> Digits]
    PROVE  f \in Seq(Digits) /\ Len(f) = n /\ ~HasJunk(f) /\ DOMAIN f = 1 .. n
<1>1. f \in Seq(Digits)
  BY SeqDef
<1>2. Len(f) \in Nat /\ DOMAIN f = 1 .. Len(f) /\ DOMAIN f = 1 .. n
  BY <1>1, LenProperties
<1>3. Len(f) = n
  <2>1. \A i \in Int : i \in 1 .. Len(f) <=> i \in 1 .. n
    BY <1>2
  <2> QED
    BY <1>2, <2>1
<1>4. ~HasJunk(f)
  <2>1. Base \notin Digits
    BY FieldsAssumption DEF Digits
  <2> QED
    BY <1>2, <2>1 DEF HasJunk, Junk
<1> QED
  BY <1>1, <1>2, <1>3, <1>4

\* What its leading digits are worth.
LEMMA LeadingIs ==
    ASSUME NEW n \in Nat, NEW f \in [1 .. n -> Digits]
    PROVE  /\ Leading(f)[0] = 0
           /\ \A k \in 1 .. n : Leading(f)[k] = Leading(f)[k - 1] * Base + f[k]
           /\ \A k \in 0 .. n : Leading(f)[k] \in Nat
<1>1. Len(f) = n
  BY FieldIs
<1>2. /\ Leading(f)[0] = 0
      /\ \A k \in 1 .. n : Leading(f)[k] = Leading(f)[k - 1] * Base + f[k]
  BY <1>1, LeadingFound
<1> DEFINE S == {k \in 0 .. n : Leading(f)[k] \in Nat}
<1>3. 0 \in S
  BY <1>2
<1>4. ASSUME NEW k \in 1 .. n, k - 1 \in S PROVE k \in S
  <2>1. f[k] \in Nat /\ Base \in Nat
    BY FieldsAssumption DEF Digits
  <2>2. PICK p \in Nat : p = Leading(f)[k - 1]
    BY <1>4
  <2>3. p * Base + f[k] \in Nat
    BY <2>1
  <2> QED
    BY <1>2, <2>2, <2>3
<1> HIDE DEF S
<1>5. \A k \in 1 .. n : k - 1 \in S => k \in S
  BY <1>4
<1>6. \A k \in 0 .. n : k \in S
  BY <1>3, <1>5, UpTo, Zenon
<1>7. \A k \in 0 .. n : Leading(f)[k] \in Nat
  BY <1>6 DEF S
<1> QED
  BY <1>2, <1>7

\* The digits that follow the first w tell numbers apart only within what the
\* first ones leave them.
LEMMA Between ==
    ASSUME NEW n \in 0 .. HashWidth, NEW f \in [1 .. n -> Digits], NEW w \in 0 .. n
    PROVE  \A m \in 0 .. n - w :
              /\ Leading(f)[w] * Power[m] <= Leading(f)[w + m]
              /\ Leading(f)[w + m] <= Leading(f)[w] * Power[m] + Power[m] - 1
<1> DEFINE S == {m \in 0 .. n - w :
              /\ Leading(f)[w] * Power[m] <= Leading(f)[w + m]
              /\ Leading(f)[w + m] <= Leading(f)[w] * Power[m] + Power[m] - 1}
<1>1. n \in Nat /\ HashWidth \in Nat /\ Base \in Nat \ {0} /\ n - w \in Nat
  BY FieldsAssumption
<1>2. PICK a \in Nat : a = Leading(f)[w]
  BY <1>1, LeadingIs
<1>3. 0 \in S
  <2>1. Power[0] = 1 /\ w + 0 = w /\ a * 1 = a
    BY PowerFound
  <2> QED
    BY <1>1, <1>2, <2>1
<1>4. ASSUME NEW m \in 1 .. n - w, m - 1 \in S PROVE m \in S
  <2>1. m \in 1 .. HashWidth /\ w + m \in 1 .. n /\ (w + m) - 1 = w + (m - 1)
        /\ w + (m - 1) \in 0 .. n /\ m - 1 \in 0 .. HashWidth
    BY <1>1
  <2>2. PICK p \in Nat \ {0} : p = Power[m - 1]
    BY <2>1, PowerType
  <2>3. PICK c \in 1 .. n : c = w + m
    BY <2>1
  <2>4. PICK x \in Nat : x = Leading(f)[c - 1]
    <3>1. c - 1 \in 0 .. n
      BY <1>1, <2>3
    <3> QED
      BY <1>1, <3>1, LeadingIs
  <2>5. PICK d \in 0 .. Base - 1 : d = f[c]
    BY DEF Digits
  <2>6. Leading(f)[c] = Leading(f)[c - 1] * Base + f[c]
    BY <1>1, LeadingIs
  <2>7. Leading(f)[w + m] = x * Base + d /\ Leading(f)[w + (m - 1)] = x
    BY <2>1, <2>3, <2>4, <2>5, <2>6
  <2>8. Power[m] = Base * p
    BY <2>1, <2>2, PowerFound
  <2>9. a * p <= x /\ x <= a * p + p - 1
    BY <1>2, <1>4, <2>2, <2>7
  <2>10. a * (Base * p) <= x * Base + d /\ x * Base + d <= a * (Base * p) + Base * p - 1
    BY <1>1, <2>9, DigitMore
  <2>11. Leading(f)[w] * Power[m] = a * (Base * p)
    BY <1>2, <2>8
  <2> QED
    <3>1. m \in 0 .. n - w
      OBVIOUS
    <3> QED
      BY <2>7, <2>8, <2>10, <2>11, <3>1
<1> HIDE DEF S
<1>5. \A m \in 1 .. n - w : m - 1 \in S => m \in S
  BY <1>4
<1>6. \A m \in 0 .. n - w : m \in S
  BY <1>1, <1>3, <1>5, UpTo, Zenon
<1> QED
  BY <1>6 DEF S

\* So digits are worth less than the power of Base that they fill.
LEMMA Bounded ==
    ASSUME NEW n \in 0 .. HashWidth, NEW f \in [1 .. n -> Digits], NEW k \in 0 .. n
    PROVE  Leading(f)[k] <= Power[k] - 1
<1>1. n \in Nat /\ 0 \in 0 .. n /\ n - 0 = n /\ 0 + k = k
  BY FieldsAssumption
<1>2. Leading(f)[0 + k] <= Leading(f)[0] * Power[k] + Power[k] - 1
  BY <1>1, Between
<1>3. PICK p \in Nat : p = Power[k]
  BY FieldsAssumption, PowerType
<1>4. Leading(f)[0] = 0 /\ 0 * p = 0
  BY <1>1, LeadingIs
<1> QED
  BY <1>1, <1>2, <1>3, <1>4

\* Digits that start alike are worth the same.
LEMMA SameStart ==
    ASSUME NEW n \in Nat, NEW f \in [1 .. n -> Digits],
           NEW m \in Nat, NEW g \in [1 .. m -> Digits],
           NEW k \in Nat, k <= n, k <= m, \A i \in 1 .. k : f[i] = g[i]
    PROVE  \A i \in 0 .. k : Leading(f)[i] = Leading(g)[i]
<1> DEFINE S == {i \in 0 .. k : Leading(f)[i] = Leading(g)[i]}
<1>1. 0 \in S
  BY LeadingIs
<1>2. ASSUME NEW i \in 1 .. k, i - 1 \in S PROVE i \in S
  <2>1. i \in 1 .. n /\ i \in 1 .. m /\ i \in 0 .. k
    OBVIOUS
  <2>2. Leading(f)[i] = Leading(f)[i - 1] * Base + f[i]
    BY <2>1, LeadingIs
  <2>3. Leading(g)[i] = Leading(g)[i - 1] * Base + g[i]
    BY <2>1, LeadingIs
  <2> QED
    BY <1>2, <2>1, <2>2, <2>3
<1> HIDE DEF S
<1>3. \A i \in 1 .. k : i - 1 \in S => i \in S
  BY <1>2
<1>4. \A i \in 0 .. k : i \in S
  BY <1>1, <1>3, UpTo, Zenon
<1> QED
  BY <1>4 DEF S

\* The digits that are worth the same are the same.
LEMMA SameDigits ==
    ASSUME NEW n \in Nat, NEW f \in [1 .. n -> Digits], NEW g \in [1 .. n -> Digits]
    PROVE  \A k \in 0 .. n : Leading(f)[k] = Leading(g)[k] => \A i \in 1 .. k : f[i] = g[i]
<1> DEFINE S == {k \in 0 .. n : Leading(f)[k] = Leading(g)[k] => \A i \in 1 .. k : f[i] = g[i]}
<1>1. 0 \in S
  OBVIOUS
<1>2. ASSUME NEW k \in 1 .. n, k - 1 \in S PROVE k \in S
  <2>1. k - 1 \in 0 .. n /\ k \in 0 .. n
    OBVIOUS
  <2>2. PICK p \in Nat : p = Leading(f)[k - 1]
    BY <2>1, LeadingIs
  <2>3. PICK q \in Nat : q = Leading(g)[k - 1]
    BY <2>1, LeadingIs
  <2>4. f[k] \in 0 .. Base - 1 /\ g[k] \in 0 .. Base - 1
    BY DEF Digits
  <2>5. Leading(f)[k] = p * Base + f[k] /\ Leading(g)[k] = q * Base + g[k]
    BY <2>2, <2>3, LeadingIs
  <2>6. Base \in Nat \ {0} /\ p * Base = Base * p /\ q * Base = Base * q
    BY FieldsAssumption
  <2>7. ASSUME Leading(f)[k] = Leading(g)[k] PROVE p = q /\ f[k] = g[k]
    <3>1. PICK c \in 0 .. Base - 1 : c = f[k]
      BY <2>4
    <3>2. PICK d \in 0 .. Base - 1 : d = g[k]
      BY <2>4
    <3>3. Base * p + c = Base * q + d
      BY <2>5, <2>6, <2>7, <3>1, <3>2
    <3>4. (Base * p + c) \div Base = p /\ (Base * p + c) % Base = c
      BY <2>6, DivIs
    <3>5. (Base * q + d) \div Base = q /\ (Base * q + d) % Base = d
      BY <2>6, DivIs
    <3> QED
      BY <3>1, <3>2, <3>3, <3>4, <3>5
  <2>8. ASSUME Leading(f)[k] = Leading(g)[k], NEW i \in 1 .. k PROVE f[i] = g[i]
    <3>1. Leading(f)[k - 1] = Leading(g)[k - 1] /\ f[k] = g[k]
      BY <2>2, <2>3, <2>7, <2>8
    <3>2. \A j \in 1 .. k - 1 : f[j] = g[j]
      BY <1>2, <3>1
    <3> QED
      BY <3>1, <3>2
  <2> QED
    BY <2>1, <2>8
<1> HIDE DEF S
<1>3. \A k \in 1 .. n : k - 1 \in S => k \in S
  BY <1>2
<1>4. \A k \in 0 .. n : k \in S
  BY <1>1, <1>3, UpTo, Zenon
<1> QED
  BY <1>4 DEF S

\* Zeros put after the first k digits multiply what they are worth.
LEMMA ZerosAfter ==
    ASSUME NEW n \in 0 .. HashWidth, NEW f \in [1 .. n -> Digits], NEW k \in 0 .. n,
           \A i \in k + 1 .. n : f[i] = 0
    PROVE  \A m \in 0 .. n - k : Leading(f)[k + m] = Leading(f)[k] * Power[m]
<1> DEFINE S == {m \in 0 .. n - k : Leading(f)[k + m] = Leading(f)[k] * Power[m]}
<1>1. n \in Nat /\ HashWidth \in Nat /\ Base \in Nat \ {0} /\ n - k \in Nat
  BY FieldsAssumption
<1>2. PICK a \in Nat : a = Leading(f)[k]
  BY <1>1, LeadingIs
<1>3. 0 \in S
  <2>1. Power[0] = 1 /\ k + 0 = k /\ a * 1 = a
    BY PowerFound
  <2> QED
    BY <1>1, <1>2, <2>1
<1>4. ASSUME NEW m \in 1 .. n - k, m - 1 \in S PROVE m \in S
  <2>1. m \in 1 .. HashWidth /\ k + m \in 1 .. n /\ k + m \in k + 1 .. n /\ (k + m) - 1 = k + (m - 1)
        /\ m - 1 \in 0 .. HashWidth
    BY <1>1
  <2>2. PICK p \in Nat \ {0} : p = Power[m - 1]
    BY <2>1, PowerType
  <2>3. Leading(f)[k + (m - 1)] = a * p
    BY <1>2, <1>4, <2>2
  <2>4. Leading(f)[k + m] = (a * p) * Base + 0
    <3>1. PICK c \in 1 .. n : c = k + m
      BY <2>1
    <3>2. Leading(f)[c] = Leading(f)[c - 1] * Base + f[c]
      BY <1>1, LeadingIs
    <3>3. f[c] = 0 /\ Leading(f)[c - 1] = a * p
      BY <2>1, <2>3, <3>1
    <3> QED
      BY <3>1, <3>2, <3>3
  <2>5. Power[m] = Base * p
    BY <2>1, <2>2, PowerFound
  <2>6. (a * p) * Base + 0 = a * (Base * p)
    BY <1>1, <2>2, Regroup
  <2> QED
    BY <1>2, <2>4, <2>5, <2>6
<1> HIDE DEF S
<1>5. \A m \in 1 .. n - k : m - 1 \in S => m \in S
  BY <1>4
<1>6. \A m \in 0 .. n - k : m \in S
  BY <1>1, <1>3, <1>5, UpTo, Zenon
<1> QED
  BY <1>6 DEF S

-----------------------------------------------------------------------------
\* What the parser makes of a field that fills a u64.
LEMMA ParsesFull ==
    ASSUME NEW ds \in [1 .. Width -> Digits]
    PROVE  Parse(ds) = Leading(ds)[Width] /\ Parse(ds) \in 0 .. MaxU64 /\ MaxU64 \in Nat /\ None = MaxU64 + 1
<1>1. Width \in 1 .. HashWidth /\ Width \in Nat /\ Width \in 0 .. HashWidth /\ Width \in 0 .. Width
  BY FieldsAssumption
<1>2. Len(ds) = Width /\ ~HasJunk(ds)
  BY <1>1, FieldIs
<1>3. ds # <<>>
  <2>1. Len(<<>>) = 0
    OBVIOUS
  <2> QED
    BY <1>1, <1>2, <2>1
<1>4. PICK v \in Nat : v = Leading(ds)[Width]
  BY <1>1, LeadingIs
<1>5. PICK p \in Nat \ {0} : p = Power[Width]
  BY <1>1, PowerType
<1>6. v <= p - 1
  BY <1>1, <1>4, <1>5, Bounded
<1>7. MaxU64 = p - 1 /\ None = p
  BY <1>5 DEF MaxU64, None
<1>8. Worth(ds) = v
  BY <1>2, <1>4 DEF Worth
<1>9. Parse(ds) = v
  BY <1>2, <1>3, <1>6, <1>7, <1>8 DEF Parse
<1> QED
  BY <1>4, <1>5, <1>6, <1>7, <1>9

\* The first k digits of a field.
LEMMA StartIs ==
    ASSUME NEW n \in Nat, NEW f \in [1 .. n -> Digits], NEW k \in 0 .. n
    PROVE  /\ SubSeq(f, 1, k) \in [1 .. k -> Digits]
           /\ \A i \in 1 .. k : SubSeq(f, 1, k)[i] = f[i]
           /\ Worth(SubSeq(f, 1, k)) = Leading(f)[k]
<1>1. k \in Nat /\ k \in Int /\ 1 \in Int /\ (1 <= k => (k - 1) + 1 = k) /\ (~ 1 <= k => k = 0)
  OBVIOUS
<1>2. \A i \in 1 .. k : f[i] \in Digits
  OBVIOUS
<1>3. SubSeq(f, 1, k) \in Seq(Digits) /\ Len(SubSeq(f, 1, k)) = k
      /\ \A i \in 1 .. k - 1 + 1 : SubSeq(f, 1, k)[i] = f[1 + i - 1]
  BY <1>1, <1>2, SubSeqProperties
<1>4. \A i \in 1 .. k : SubSeq(f, 1, k)[i] = f[i]
  <2> SUFFICES ASSUME NEW i \in 1 .. k PROVE SubSeq(f, 1, k)[i] = f[i]
    OBVIOUS
  <2>1. i \in 1 .. k - 1 + 1 /\ 1 + i - 1 = i
    OBVIOUS
  <2> QED
    BY <1>3, <2>1
<1>5. PICK g \in [1 .. k -> Digits] : g = SubSeq(f, 1, k)
  BY <1>3, LenProperties
<1>6. Leading(g)[k] = Leading(f)[k]
  <2>1. \A i \in 1 .. k : g[i] = f[i]
    BY <1>4, <1>5
  <2>2. k \in 0 .. k /\ k <= n /\ k <= k
    BY <1>1
  <2> QED
    BY <1>1, <2>1, <2>2, SameStart
<1> QED
  BY <1>3, <1>4, <1>5, <1>6 DEF Worth

\* The target is the worth of its first Width digits, and always read.
LEMMA TargetIs ==
    ASSUME NEW t \in Hashes
    PROVE  Target(t) = Leading(t)[Width] /\ Target(t) \in 0 .. MaxU64 /\ Target(t) # None
<1>1. HashWidth \in Nat /\ Width \in 0 .. HashWidth /\ HashWidth >= Width
  BY FieldsAssumption
<1>2. Len(t) = HashWidth
  BY <1>1, FieldIs DEF Hashes
<1>3. Top(t) = SubSeq(t, 1, Width)
  BY <1>1, <1>2 DEF Top
<1>4. PICK g \in [1 .. Width -> Digits] : g = SubSeq(t, 1, Width)
  BY <1>1, StartIs DEF Hashes
<1>5. Worth(g) = Leading(t)[Width]
  BY <1>1, <1>4, StartIs DEF Hashes
<1>6. Len(g) = Width
  BY <1>1, FieldIs
<1>7. Worth(g) = Leading(g)[Width]
  BY <1>6 DEF Worth
<1>8. Target(t) = Parse(g)
  BY <1>3, <1>4 DEF Target
<1> QED
  BY <1>5, <1>7, <1>8, ParsesFull

\* The extra nonce of m digits is what they are worth, followed by zeros, and
\* always read.
LEMMA ExtraIs ==
    ASSUME NEW m \in 0 .. Width, NEW f \in [1 .. m -> Digits]
    PROVE  /\ ExtraNonce(f) = Leading(f)[m] * Power[Width - m]
           /\ ExtraNonce(f) # None
<1>1. m \in Nat /\ Width \in Nat \ {0} /\ Width \in 0 .. HashWidth /\ HashWidth \in Nat
      /\ Width - m \in 0 .. HashWidth /\ Width - m \in Nat
  BY FieldsAssumption
<1>2. Len(f) = m /\ f \in Seq(Digits)
  BY <1>1, FieldIs
<1>3. PICK p \in Nat \ {0} : p = Power[Width - m]
  BY <1>1, PowerType
<1>4. CASE f = <<>>
  <2>1. m = 0
    BY <1>2, <1>4
  <2>2. Leading(f)[m] = 0
    BY <1>1, <2>1, LeadingIs
  <2>3. Power[Width] \in Nat \ {0}
    BY <1>1, PowerType
  <2> QED
    BY <1>3, <1>4, <2>2, <2>3 DEF ExtraNonce, None
<1>5. CASE f # <<>>
  <2>1. PICK g : g = Filled(f)
    OBVIOUS
  <2>2. g \in [1 .. Width -> Digits] /\ (\A i \in 1 .. m : g[i] = f[i])
        /\ \A i \in m + 1 .. Width : g[i] = 0
    <3>1. CASE m = Width
      BY <1>1, <1>2, <2>1, <3>1 DEF Filled
    <3>2. CASE m # Width
      <4>1. Filled(f) = f \o Zeros(Width - m)
        BY <1>1, <1>2, <3>2 DEF Filled
      <4>2. 0 \in Digits
        BY FieldsAssumption DEF Digits
      <4>3. PICK z \in [1 .. Width - m -> Digits] : z = Zeros(Width - m)
        BY <4>2 DEF Zeros
      <4>4. \A i \in 1 .. Width - m : z[i] = 0
        BY <4>3 DEF Zeros
      <4>5. z \in Seq(Digits) /\ Len(z) = Width - m
        BY <1>1, FieldIs
      <4>6. m + (Width - m) = Width
        BY <1>1
      <4>7. g \in Seq(Digits) /\ Len(g) = Width
            /\ \A i \in 1 .. Width : g[i] = IF i <= m THEN f[i] ELSE z[i - m]
        <5>1. f \o z \in Seq(Digits) /\ Len(f \o z) = Len(f) + Len(z)
              /\ \A i \in 1 .. Len(f) + Len(z) :
                    (f \o z)[i] = IF i <= Len(f) THEN f[i] ELSE z[i - Len(f)]
          BY <1>2, <4>5, ConcatProperties
        <5>2. Len(f) + Len(z) = Width /\ Len(f) = m
          BY <1>2, <4>5, <4>6
        <5>3. g = f \o z
          BY <2>1, <4>1, <4>3
        <5> QED
          BY <5>1, <5>2, <5>3
      <4>8. g \in [1 .. Width -> Digits]
        BY <4>7, LenProperties
      <4>9. \A i \in 1 .. m : g[i] = f[i]
        BY <1>1, <4>7
      <4>10. \A i \in m + 1 .. Width : g[i] = 0
        <5> SUFFICES ASSUME NEW i \in m + 1 .. Width PROVE g[i] = 0
          OBVIOUS
        <5>1. i \in 1 .. Width /\ ~ i <= m /\ i - m \in 1 .. Width - m
          BY <1>1
        <5> QED
          BY <4>4, <4>7, <5>1
      <4> QED
        BY <4>8, <4>9, <4>10
    <3> QED
      BY <3>1, <3>2
  <2>3. ExtraNonce(f) = Parse(g)
    BY <1>5, <2>1 DEF ExtraNonce
  <2>4. Leading(g)[m] = Leading(f)[m]
    <3>1. m \in 0 .. m /\ m <= Width /\ m <= m /\ m \in Nat /\ Width \in Nat
      BY <1>1
    <3>2. g \in [1 .. Width -> Digits] /\ \A i \in 1 .. m : f[i] = g[i]
      BY <2>2
    <3>3. \A i \in 0 .. m : Leading(f)[i] = Leading(g)[i]
      BY <3>1, <3>2, SameStart
    <3> QED
      BY <3>1, <3>3
  <2>5. Leading(g)[Width] = Leading(g)[m] * Power[Width - m]
    <3>1. Width - m \in 0 .. Width - m /\ m + (Width - m) = Width
      BY <1>1
    <3>2. \A i \in 0 .. Width - m : Leading(g)[m + i] = Leading(g)[m] * Power[i]
      BY <1>1, <2>2, ZerosAfter
    <3>3. PICK c \in 0 .. Width - m : c = Width - m
      BY <3>1
    <3> QED
      BY <3>1, <3>2, <3>3
  <2> QED
    BY <2>2, <2>3, <2>4, <2>5, ParsesFull
<1> QED
  BY <1>4, <1>5

\* No notification is refused: the job has its target and its extra nonce.
LEMMA JobIs ==
    ASSUME NEW n \in Notices
    PROVE  /\ JobOf(n) # NoJob
           /\ JobOf(n).target = Target(n.target)
           /\ JobOf(n).extra_nonce = ExtraNonce(n.extra)
<1>1. n.target \in Hashes /\ n.extra \in Fields(Width)
  BY DEF Notices
<1>2. PICK m \in 0 .. Width : n.extra \in [1 .. m -> Digits]
  BY <1>1 DEF Fields
<1>3. Target(n.target) # None /\ ExtraNonce(n.extra) # None
  BY <1>1, <1>2, TargetIs, ExtraIs
<1>4. IsHash(Zeros(HashWidth))
  <2>1. 0 \in Digits /\ HashWidth \in Nat
    BY FieldsAssumption DEF Digits
  <2>2. Zeros(HashWidth) \in [1 .. HashWidth -> Digits]
    BY <2>1 DEF Zeros
  <2> QED
    BY <2>1, <2>2, FieldIs DEF IsHash
<1>5. JobOf(n) = [input |-> Zeros(HashWidth) \o Zeros(HashWidth), target |-> Target(n.target),
                  extra_nonce |-> ExtraNonce(n.extra)]
  BY <1>3, <1>4 DEF JobOf, ParseJob
<1>6. NoJob.target = None
  BY DEF NoJob
<1> QED
  BY <1>3, <1>5, <1>6

-----------------------------------------------------------------------------
\* Comparing the 64 bits misses no share, and is wrong only where they agree.
LEMMA NothingMissed == ASSUME NEW n \in Notices PROVE MissesNothing(n)
<1>1. PICK t \in Hashes : t = n.target
  BY DEF Notices
<1>2. HashWidth \in Nat /\ Width \in 0 .. HashWidth /\ Width \in Nat /\ HashWidth - Width \in 0 .. HashWidth
      /\ HashWidth - Width \in 0 .. HashWidth - Width /\ Width + (HashWidth - Width) = HashWidth
      /\ HashWidth \in 0 .. HashWidth
  BY FieldsAssumption
<1>3. PICK p \in Nat \ {0} : p = Power[HashWidth - Width]
  BY <1>2, PowerType
<1>4. ASSUME NEW x \in Hashes
      PROVE  /\ Leading(x)[Width] \in Nat /\ Worth(x) \in Nat
             /\ Worth(SubSeq(x, 1, Width)) = Leading(x)[Width]
             /\ Leading(x)[Width] * p <= Worth(x)
             /\ Worth(x) <= Leading(x)[Width] * p + p - 1
  <2>1. x \in [1 .. HashWidth -> Digits]
    BY DEF Hashes
  <2>2. Len(x) = HashWidth
    BY <1>2, <2>1, FieldIs
  <2>3. Worth(x) = Leading(x)[HashWidth]
    BY <2>2 DEF Worth
  <2>4. Leading(x)[Width] \in Nat /\ Leading(x)[HashWidth] \in Nat
    BY <1>2, <2>1, LeadingIs
  <2>5. Worth(SubSeq(x, 1, Width)) = Leading(x)[Width]
    BY <1>2, <2>1, StartIs
  <2>6. PICK m \in 0 .. HashWidth - Width : m = HashWidth - Width
    BY <1>2
  <2>7. /\ Leading(x)[Width] * Power[m] <= Leading(x)[Width + m]
        /\ Leading(x)[Width + m] <= Leading(x)[Width] * Power[m] + Power[m] - 1
    BY <1>2, <2>1, Between
  <2> QED
    BY <1>2, <1>3, <2>3, <2>4, <2>5, <2>6, <2>7
<1>5. JobOf(n).target = Leading(t)[Width]
  BY <1>1, JobIs, TargetIs
<1>6. ASSUME NEW h \in Hashes
      PROVE  /\ Worth(h) <= Worth(t) => Leading(h)[Width] <= Leading(t)[Width]
             /\ Leading(h)[Width] <= Leading(t)[Width] =>
                   \/ Worth(h) <= Worth(t)
                   \/ SubSeq(h, 1, Width) = SubSeq(t, 1, Width)
  <2>1. PICK a \in Nat : a = Leading(h)[Width]
    BY <1>4
  <2>2. PICK b \in Nat : b = Leading(t)[Width]
    BY <1>4
  <2>3. PICK v \in Nat : v = Worth(h)
    BY <1>4
  <2>4. PICK w \in Nat : w = Worth(t)
    BY <1>4
  <2>5. a * p <= v /\ v <= a * p + p - 1
    BY <1>4, <2>1, <2>3
  <2>6. b * p <= w /\ w <= b * p + p - 1
    BY <1>4, <2>2, <2>4
  <2>7. b < a => w < v
    <3> SUFFICES ASSUME b < a PROVE w < v
      OBVIOUS
    <3>1. (b + 1) * p <= a * p /\ (b + 1) * p = b * p + p
      BY NotLess
    <3> QED
      BY <2>5, <2>6, <3>1
  <2>8. a < b => v < w
    <3> SUFFICES ASSUME a < b PROVE v < w
      OBVIOUS
    <3>1. (a + 1) * p <= b * p /\ (a + 1) * p = a * p + p
      BY NotLess
    <3> QED
      BY <2>5, <2>6, <3>1
  <2>9. a = b => SubSeq(h, 1, Width) = SubSeq(t, 1, Width)
    <3> SUFFICES ASSUME Leading(h)[Width] = Leading(t)[Width]
                 PROVE  SubSeq(h, 1, Width) = SubSeq(t, 1, Width)
      BY <2>1, <2>2
    <3>1. \A i \in 1 .. Width : h[i] = t[i]
      BY <1>2, SameDigits DEF Hashes
    <3>2. PICK g \in [1 .. Width -> Digits] : g = SubSeq(h, 1, Width)
      BY <1>2, StartIs DEF Hashes
    <3>3. PICK u \in [1 .. Width -> Digits] : u = SubSeq(t, 1, Width)
      BY <1>2, StartIs DEF Hashes
    <3>4. \A i \in 1 .. Width : g[i] = h[i]
      BY <1>2, <3>2, StartIs DEF Hashes
    <3>5. \A i \in 1 .. Width : u[i] = t[i]
      BY <1>2, <3>3, StartIs DEF Hashes
    <3>6. \A i \in 1 .. Width : g[i] = u[i]
      BY <3>1, <3>4, <3>5
    <3>7. g = u
      <4>1. g = [i \in 1 .. Width |-> g[i]] /\ u = [i \in 1 .. Width |-> u[i]]
        BY Zenon
      <4>2. [i \in 1 .. Width |-> g[i]] = [i \in 1 .. Width |-> u[i]]
        BY <3>6, Zenon
      <4> QED
        BY <4>1, <4>2, Zenon
    <3> QED
      BY <3>2, <3>3, <3>7
  <2>10. (v <= w => a <= b) /\ (a <= b => v <= w \/ a = b)
    BY <2>7, <2>8
  <2> QED
    BY <2>1, <2>2, <2>3, <2>4, <2>9, <2>10
<1>7. ASSUME NEW h \in Hashes
      PROVE  (Worth(SubSeq(h, 1, Width)) <= JobOf(n).target) <=> Leading(h)[Width] <= Leading(t)[Width]
  BY <1>4, <1>5
<1> QED
  BY <1>1, <1>6, <1>7 DEF MissesNothing

\* Nonces of clients with different extra nonces differ.
LEMMA NoncesApart == ASSUME NEW n \in Notices PROVE SearchesApart(n)
<1>1. PICK m \in 0 .. Width : n.extra \in [1 .. m -> Digits]
  BY DEF Notices, Fields
<1>2. PICK e \in [1 .. m -> Digits] : e = n.extra
  BY <1>1
<1>3. m \in Nat /\ m \in 0 .. HashWidth /\ m \in 0 .. m /\ Width \in Nat /\ Width \in 0 .. HashWidth
      /\ Width - m \in 0 .. HashWidth /\ Width - m \in 0 .. HashWidth - m /\ m + (Width - m) = Width
      /\ HashWidth \in Nat
  BY FieldsAssumption
<1>4. PICK p \in Nat \ {0} : p = Power[Width - m]
  BY <1>3, PowerType
<1>5. PICK q \in Nat \ {0} : q = Power[m]
  BY <1>3, PowerType
<1>6. None = q * p
  <2>1. PICK c \in 0 .. HashWidth - m : c = Width - m
    BY <1>3
  <2>2. Power[m + c] = Power[m] * Power[c]
    BY <1>3, PowerSum
  <2> QED
    BY <1>3, <1>4, <1>5, <2>1, <2>2 DEF None
<1>7. ASSUME NEW f \in [1 .. m -> Digits], NEW i \in 0 .. p - 1
      PROVE  /\ Leading(f)[m] \in Nat /\ ExtraNonce(f) = Leading(f)[m] * p
             /\ (ExtraNonce(f) + i) % None = p * Leading(f)[m] + i
  <2>1. PICK a \in Nat : a = Leading(f)[m]
    BY <1>3, LeadingIs
  <2>2. a <= q - 1
    BY <1>3, <1>5, <2>1, Bounded
  <2>3. ExtraNonce(f) = a * p
    BY <1>4, <2>1, ExtraIs
  <2>4. (a + 1) * p <= q * p /\ (a + 1) * p = a * p + p
    BY <2>2, NotLess
  <2>5. PICK x, y \in Nat : x = a * p /\ y = q * p
    OBVIOUS
  <2>6. x + i \in 0 .. y - 1 /\ y \in Nat \ {0}
    BY <2>4, <2>5
  <2>7. (x + i) % y = x + i
    BY <2>6
  <2>8. a * p = p * a
    OBVIOUS
  <2> QED
    BY <1>6, <2>1, <2>3, <2>5, <2>7, <2>8
<1>8. ASSUME NEW f \in [1 .. m -> Digits], f # e, NEW i \in 0 .. p - 1, NEW j \in 0 .. p - 1
      PROVE  (ExtraNonce(e) + i) % None # (ExtraNonce(f) + j) % None
  <2>1. PICK a \in Nat : a = Leading(e)[m]
    BY <1>3, LeadingIs
  <2>2. PICK b \in Nat : b = Leading(f)[m]
    BY <1>3, LeadingIs
  <2>3. a # b
    <3> SUFFICES ASSUME Leading(e)[m] = Leading(f)[m] PROVE FALSE
      BY <2>1, <2>2
    <3>1. \A k \in 1 .. m : e[k] = f[k]
      BY <1>3, SameDigits
    <3>2. e = f
      BY <3>1
    <3> QED
      BY <1>8, <3>2
  <2>4. (ExtraNonce(e) + i) % None = p * a + i
    BY <1>7, <2>1
  <2>5. (ExtraNonce(f) + j) % None = p * b + j
    BY <1>7, <2>2
  <2>6. (p * a + i) \div p = a
    BY DivIs
  <2>7. (p * b + j) \div p = b
    BY DivIs
  <2>8. p * a + i # p * b + j
    BY <2>3, <2>6, <2>7
  <2> QED
    BY <2>4, <2>5, <2>8
<1>9. Len(n.extra) = m
  BY <1>1, <1>3, FieldIs
<1>10. JobOf(n).extra_nonce = ExtraNonce(e)
  BY <1>2, JobIs
<1>11. ASSUME NEW f \in [1 .. m -> Digits] \ {n.extra}
       PROVE  \A i, j \in 0 .. Power[Width - Len(f)] - 1 :
                  (JobOf(n).extra_nonce + i) % None # (ExtraNonce(f) + j) % None
  <2>1. Len(f) = m /\ f # e
    BY <1>2, <1>3, FieldIs
  <2>2. Power[Width - Len(f)] = p
    BY <1>4, <2>1
  <2> QED
    BY <1>8, <1>10, <2>1, <2>2
<1> QED
  BY <1>9, <1>11 DEF SearchesApart

\* The difficulty shown is the least number of hashes that fill the 64 bits.
LEMMA DifficultyRight == ASSUME NEW n \in Notices PROVE ShownRight(n)
<1>1. PICK t \in 0 .. MaxU64 : t = JobOf(n).target
  BY JobIs, TargetIs DEF Notices
<1>2. PICK M \in Nat : M = MaxU64
  <2>1. Width \in 0 .. HashWidth
    BY FieldsAssumption
  <2>2. PICK p \in Nat \ {0} : p = Power[Width]
    BY <2>1, PowerType
  <2>3. p - 1 \in Nat
    OBVIOUS
  <2> QED
    BY <2>2, <2>3 DEF MaxU64
<1>3. t \in 0 .. M
  BY <1>2
<1>4. CASE t = 0
  BY <1>1, <1>4 DEF ShownRight, Difficulty
<1>5. CASE t = 1
  <2>1. M \div 1 = M /\ (M + 1) % (M + 1) = 0
    <3>1. M + 1 \in Nat \ {0} /\ (M + 1) * 1 + 0 = M + 1 /\ 0 \in 0 .. (M + 1) - 1 /\ 1 \in Nat
      OBVIOUS
    <3>2. ((M + 1) * 1 + 0) % (M + 1) = 0
      BY <3>1, DivIs
    <3>3. (1 * M + 0) \div 1 = M
      BY DivIs
    <3>4. 1 * M + 0 = M
      OBVIOUS
    <3> QED
      BY <3>1, <3>2, <3>3, <3>4
  <2> QED
    BY <1>1, <1>2, <1>5, <2>1 DEF ShownRight, Difficulty
<1>6. CASE t > 1
  <2>1. PICK q \in Nat : q = M \div t
    BY <1>3, <1>6
  <2>2. PICK r \in 0 .. t - 1 : r = M % t
    BY <1>3, <1>6
  <2>3. M = t * q + r
    BY <1>3, <1>6, <2>1, <2>2
  <2>4. q + 1 <= M /\ (q + 1) % (M + 1) = q + 1
    <3>1. 2 * q <= t * q
      BY <1>3, <1>6, NotLess
    <3>2. M >= 2 /\ 2 * q <= M
      BY <1>3, <1>6, <2>2, <2>3, <3>1
    <3>3. q + 1 <= M
      BY <3>2
    <3> QED
      BY <3>3
  <2>5. Difficulty(t) = q + 1
    BY <1>2, <1>6, <2>1, <2>4 DEF Difficulty
  <2>6. (q + 1) * t = t * q + t /\ ((q + 1) - 1) * t = t * q
    BY <1>3
  <2>7. (q + 1) * t > M /\ ((q + 1) - 1) * t <= M
    BY <2>2, <2>3, <2>6
  <2> QED
    BY <1>1, <1>2, <1>6, <2>5, <2>7 DEF ShownRight
<1> QED
  BY <1>3, <1>4, <1>5, <1>6

\* Every notification is read, and means to the client what it means to the pool.
LEMMA EveryNoticeRead == AllRead
BY JobIs, NothingMissed, NoncesApart, DifficultyRight DEF AllRead

\* parse_job and the log line of handle_message take every published job for
\* what the pool means, in every base and with every length of its numbers.
THEOREM FieldsReadRight == Spec => []FieldsRead
<1>1. FieldsRead
  BY EveryNoticeRead DEF FieldsRead
<1> QED
  BY <1>1, PTL
=============================================================================
