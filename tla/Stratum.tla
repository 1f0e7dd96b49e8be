------------------------------- MODULE Stratum -------------------------------
(***************************************************************************)
(* StratumPool of src/stratum.rs: the io thread that connects, subscribes, *)
(* drains the queued shares, reads one frame at a time and reconnects, and *)
(* the transport and the pool at the other end as its environment.         *)
(*                                                                         *)
(* Shares are queued by the verifier threads (action Submit; module        *)
(* VulkMiner puts the mining threads in its place).  A job instance is an  *)
(* index into jobs, as in MineLoop.                                        *)
(***************************************************************************)
EXTENDS Naturals, Sequences, FiniteSets, SequencesExt, Queues

CONSTANTS
    Announcements,  \* the jobs the pool may announce
    Nonces,         \* the nonces a share may carry
    MaxJobs,        \* bound: jobs published per behaviour
    MaxFaults,      \* bound: refused, reset, silent and closed connections
    MaxInbox        \* bound: frames under way to the client

ASSUME BoundsAssumption ==
    MaxJobs \in Nat /\ MaxFaults \in Nat /\ MaxInbox \in Nat \ {0}

Instances == 1 .. MaxJobs
Share == [job : Instances, nonce : Nonces]
Verdicts == {"true", "false", "error"}
JobFrames == [kind : {"job"}, job : Announcements]
Answers(v) == [kind : {"answer"}, result : {v}]
Frame == JobFrames \union [kind : {"answer"}, result : Verdicts]
            \union [kind : {"ping", "close", "other"}]

\* silent: half open, nothing arrives any more; stalled: silent with written
\* data the transport waits to see acknowledged.
Links == {"none", "up", "closed", "reset", "silent", "stalled"}

VARIABLES
    jobs,       \* every instance published so far
    current,    \* Shared.current; 0 is None
    outbox,     \* the mpsc channel of shares
    accepted, rejected,     \* the counters of Shared
    io,         \* where the io thread is
    link,       \* the transport, see Links
    subscribed, \* whether the pool has taken the subscription
    inbox,      \* frames on their way to the client
    pending,    \* shares the pool has on this connection and has not answered
    session,    \* history: connections made
    origin,     \* history: the session that brought each instance
    submitted,  \* history: shares put in outbox
    sent, lost, \* history: shares taken out of it, written or dropped
    verdicts,   \* history: answers to shares the pool gave, by result
    faults      \* faults so far

poolVars == <<jobs, current, accepted, rejected>>
histVars == <<origin, submitted, sent, lost>>
connVars == <<link, subscribed, inbox, pending, session>>
vars == <<poolVars, outbox, io, connVars, histVars, verdicts, faults>>

-----------------------------------------------------------------------------
\* Plausible bugs, each put in the place of the definition it resembles.

\* The io loop reconnects without taking back the job of the lost session.
LoseConnectionKeepJob ==
    /\ io = "lost"
    /\ io' = "connect"
    /\ link' = "none" /\ inbox' = <<>> /\ pending' = {} /\ subscribed' = FALSE
    /\ UNCHANGED <<poolVars, outbox, session, histVars, verdicts, faults>>

\* The whole channel is emptied before the first write is known to succeed.
SendFailsDropAll ==
    /\ io = "drain"
    /\ outbox # <<>>
    /\ link \in {"closed", "reset"}
    /\ outbox' = <<>>
    /\ lost' = lost \union ToSet(outbox)
    /\ io' = "lost"
    /\ UNCHANGED <<poolVars, connVars, origin, submitted, sent, verdicts, faults>>

\* A tick without a frame does not drain the channel.
ReadTimeoutNoDrain ==
    /\ io = "read"
    /\ inbox = <<>>
    /\ link # "reset"
    /\ UNCHANGED vars

\* The end of a connection is taken for an idle tick.
ReadErrorIgnored ==
    /\ io = "read"
    /\ link = "reset"
    /\ io' = "drain"
    /\ UNCHANGED <<poolVars, outbox, connVars, histVars, verdicts, faults>>

\* An answer that is not an outright refusal counts as accepted.
CountUnlessFalse(f) ==
    /\ accepted' = IF f.result # "false" THEN accepted + 1 ELSE accepted
    /\ rejected' = IF f.result = "false" THEN rejected + 1 ELSE rejected

\* A job is shown again instead of being published as an instance of its own.
PublishAgain(f) ==
    /\ f.kind = "job"
    /\ jobs' = IF jobs = <<>> THEN <<f.job>> ELSE jobs
    /\ origin' = IF jobs = <<>> THEN <<session>> ELSE origin
    /\ current' = Len(jobs')
    /\ io' = "drain"
    /\ UNCHANGED <<accepted, rejected>>

-----------------------------------------------------------------------------
Init ==
    /\ jobs = <<>> /\ current = 0 /\ accepted = 0 /\ rejected = 0
    /\ outbox = <<>>
    /\ io = "connect"
    /\ link = "none" /\ subscribed = FALSE /\ inbox = <<>> /\ pending = {}
    /\ session = 0
    /\ origin = <<>> /\ submitted = {} /\ sent = {} /\ lost = {}
    /\ verdicts = [v \in Verdicts |-> 0]
    /\ faults = 0

\* Pool.submit, called by a verifier thread.
Submit(s) ==
    /\ s.job <= Len(jobs)
    /\ s \notin submitted
    /\ outbox' = Append(outbox, s)
    /\ submitted' = submitted \union {s}
    /\ UNCHANGED <<poolVars, io, connVars, origin, sent, lost, verdicts, faults>>

(* The io thread: io_loop and run_connection.  A write fails only on a      *)
(* connection that is down, and may even then vanish in a buffer instead.   *)
MayFail == link \in {"closed", "reset"}
Written == link' = IF link = "silent" THEN "stalled" ELSE link

Connect ==
    /\ io = "connect"
    /\ io' = "subscribe"
    /\ link' = "up"
    /\ session' = session + 1
    /\ UNCHANGED <<poolVars, outbox, subscribed, inbox, pending, histVars,
                   verdicts, faults>>

ConnectFails ==
    /\ io = "connect"
    /\ faults < MaxFaults
    /\ faults' = faults + 1
    /\ io' = "lost"
    /\ UNCHANGED <<poolVars, outbox, connVars, histVars, verdicts>>

\* The pool takes the subscription or answers with an error; both answers are
\* frames the client only logs.
Subscribe ==
    /\ io = "subscribe"
    /\ io' = "drain"
    /\ Written
    /\ IF link = "up"
         THEN /\ subscribed' \in BOOLEAN
              /\ inbox' = Append(inbox, [kind |-> "other"])
         ELSE UNCHANGED <<subscribed, inbox>>
    /\ UNCHANGED <<poolVars, outbox, pending, session, histVars, verdicts, faults>>

SubscribeFails ==
    /\ io = "subscribe"
    /\ MayFail
    /\ io' = "lost"
    /\ UNCHANGED <<poolVars, outbox, connVars, histVars, verdicts, faults>>

SendShare ==
    /\ io = "drain"
    /\ outbox # <<>>
    /\ outbox' = Tail(outbox)
    /\ sent' = sent \union {Head(outbox)}
    /\ pending' = IF link = "up" THEN pending \union {Head(outbox)} ELSE pending
    /\ Written
    /\ UNCHANGED <<poolVars, io, subscribed, inbox, session, origin, submitted,
                   lost, verdicts, faults>>

\* The share is out of the channel before the write fails: it is gone.
SendFails ==
    /\ io = "drain"
    /\ outbox # <<>>
    /\ MayFail
    /\ outbox' = Tail(outbox)
    /\ lost' = lost \union {Head(outbox)}
    /\ io' = "lost"
    /\ UNCHANGED <<poolVars, connVars, origin, submitted, sent, verdicts, faults>>

Drained ==
    /\ io = "drain"
    /\ outbox = <<>>
    /\ io' = "read"
    /\ UNCHANGED <<poolVars, outbox, connVars, histVars, verdicts, faults>>

\* handle_message on a job notification that parses.
PublishJob(f) ==
    /\ f.kind = "job"
    /\ jobs' = Append(jobs, f.job)
    /\ origin' = Append(origin, session)
    /\ current' = Len(jobs) + 1
    /\ io' = "drain"
    /\ UNCHANGED <<accepted, rejected>>

\* The counters of Shared; an error is only logged, whatever it answers.
Count(f) ==
    /\ accepted' = IF f.result = "true" THEN accepted + 1 ELSE accepted
    /\ rejected' = IF f.result = "false" THEN rejected + 1 ELSE rejected

\* handle_message on an answer: its id is not looked at.
CountAnswer(f) ==
    /\ f.kind = "answer"
    /\ Count(f)
    /\ io' = "drain"
    /\ UNCHANGED <<jobs, current, origin>>

\* All else, a frame that does not parse included, is only logged.
LogFrame(f) ==
    /\ f.kind = "other"
    /\ io' = "drain"
    /\ UNCHANGED <<poolVars, origin>>

CloseFrame(f) ==
    /\ f.kind = "close"
    /\ io' = "lost"
    /\ UNCHANGED <<poolVars, origin>>

\* A ping is answered at once, which fails like any write.
Pong(f) ==
    /\ f.kind = "ping"
    /\ io' \in IF MayFail THEN {"drain", "lost"} ELSE {"drain"}
    /\ UNCHANGED <<poolVars, origin>>

ReadFrame ==
    /\ io = "read"
    /\ inbox # <<>>
    /\ inbox' = Tail(inbox)
    /\ LET f == Head(inbox) IN
         \/ (PublishJob(f) \/ CountAnswer(f) \/ LogFrame(f) \/ CloseFrame(f))
              /\ UNCHANGED link
         \/ Pong(f) /\ Written
    /\ UNCHANGED <<outbox, subscribed, pending, session, submitted, sent, lost,
                   verdicts, faults>>

\* The idle tick: 500 ms without a frame.
ReadTimeout ==
    /\ io = "read"
    /\ inbox = <<>>
    /\ link # "reset"
    /\ io' = "drain"
    /\ UNCHANGED <<poolVars, outbox, connVars, histVars, verdicts, faults>>

ReadError ==
    /\ io = "read"
    /\ link = "reset"
    /\ io' = "lost"
    /\ UNCHANGED <<poolVars, outbox, connVars, histVars, verdicts, faults>>

\* run_connection has returned: no job, then another attempt in 5 s.
LoseConnection ==
    /\ io = "lost"
    /\ current' = 0
    /\ io' = "connect"
    /\ link' = "none" /\ inbox' = <<>> /\ pending' = {} /\ subscribed' = FALSE
    /\ UNCHANGED <<jobs, accepted, rejected, outbox, session, histVars,
                   verdicts, faults>>

(* The pool and the transport. *)

\* How many frames of the set F the client has not read yet.
Unread(F) == Cardinality(Places(inbox, F))

Deliver(f) ==
    /\ link = "up"
    /\ Len(inbox) < MaxInbox
    /\ inbox' = Append(inbox, f)
    /\ UNCHANGED <<poolVars, outbox, io, link, subscribed, session, histVars, faults>>

PoolAnnounces(a) ==
    /\ subscribed
    /\ Len(jobs) + Unread(JobFrames) < MaxJobs
    /\ Deliver([kind |-> "job", job |-> a])
    /\ UNCHANGED <<pending, verdicts>>

PoolAnswers(s, v) ==
    /\ Deliver([kind |-> "answer", result |-> v])
    /\ pending' = pending \ {s}
    /\ verdicts' = [verdicts EXCEPT ![v] = @ + 1]

PoolChatters ==
    /\ \E k \in {"ping", "other"} : Deliver([kind |-> k])
    /\ UNCHANGED <<pending, verdicts>>

Fault ==
    /\ link = "up"
    /\ faults < MaxFaults
    /\ faults' = faults + 1
    /\ \/ link' \in {"reset", "silent"} /\ UNCHANGED inbox
       \/ link' = "closed" /\ inbox' = Append(inbox, [kind |-> "close"])
    /\ UNCHANGED <<poolVars, outbox, io, subscribed, pending, session, histVars,
                   verdicts>>

\* Written data that is never acknowledged makes the transport give up.
TransportGivesUp ==
    /\ link = "stalled"
    /\ link' = "reset"
    /\ UNCHANGED <<poolVars, outbox, io, subscribed, inbox, pending, session,
                   histVars, verdicts, faults>>

-----------------------------------------------------------------------------
IoStep ==
    \/ Connect \/ ConnectFails
    \/ Subscribe \/ SubscribeFails
    \/ SendShare \/ SendFails \/ Drained
    \/ ReadFrame \/ ReadTimeout \/ ReadError
    \/ LoseConnection

PoolStep ==
    \/ \E a \in Announcements : PoolAnnounces(a)
    \/ \E s \in pending, v \in Verdicts : PoolAnswers(s, v)
    \/ PoolChatters
    \/ Fault
    \/ TransportGivesUp

Next ==
    \/ \E s \in Share : Submit(s)
    \/ IoStep
    \/ PoolStep

\* The io thread runs and its calls return, and a transport that waits for an
\* acknowledgement gives up in the end; nothing is asked of the pool.
Fairness == WF_vars(IoStep) /\ WF_vars(TransportGivesUp)

Spec == Init /\ [][Next]_vars /\ Fairness

-----------------------------------------------------------------------------
\* Every variable has the type its declaration names.
TypeOK ==
    /\ jobs \in Seq(Announcements) /\ Len(jobs) <= MaxJobs
    /\ current \in 0 .. Len(jobs)
    /\ accepted \in Nat /\ rejected \in Nat
    /\ outbox \in Seq(Share)
    /\ io \in {"connect", "subscribe", "drain", "read", "lost"}
    /\ link \in Links
    /\ subscribed \in BOOLEAN
    /\ inbox \in Seq(Frame)
    /\ pending \subseteq Share
    /\ session \in Nat
    /\ origin \in Seq(Nat) /\ Len(origin) = Len(jobs)
    /\ submitted \subseteq Share /\ sent \subseteq Share /\ lost \subseteq Share
    /\ verdicts \in [Verdicts -> Nat]
    /\ faults \in 0 .. MaxFaults

\* The job the miners are shown was brought by the connection of now: a lost
\* connection takes its job back before the next attempt, and a frame of an
\* earlier connection never publishes one.
SessionJobs ==
    current # 0 => /\ origin[current] = session
                   /\ link # "none"
                   /\ io \notin {"connect", "subscribe"}

\* A queued share waits, was written once, or was lost, and each connection
\* that goes down costs at most the one share that was being written.
ShareConservation ==
    /\ submitted = ToSet(outbox) \union sent \union lost
    /\ Cardinality(submitted) = Len(outbox) + Cardinality(sent) + Cardinality(lost)
    /\ Cardinality(lost) <= faults

\* The counters never claim an answer the pool did not give, and as long as no
\* connection was lost they miss none that says true or false.
AnswersCounted ==
    /\ accepted + Unread(Answers("true")) <= verdicts["true"]
    /\ rejected + Unread(Answers("false")) <= verdicts["false"]
    /\ session = 1 /\ link # "none" =>
         /\ accepted + Unread(Answers("true")) = verdicts["true"]
         /\ rejected + Unread(Answers("false")) = verdicts["false"]

\* stratum.rs calls shares() "(accepted, rejected) share counts": once all
\* answers of a first connection are read, every share that the pool did not
\* accept is counted as rejected.
RefusalsCounted ==
    session = 1 /\ link = "up" /\ inbox = <<>> =>
        rejected = verdicts["false"] + verdicts["error"]

\* A queued share is written or lost in the end, across reconnections, and
\* whether or not the pool sends anything.
ShareLeaves ==
    \A s \in Share : (s \in submitted) ~> (s \in sent \union lost)

\* A connection that is known to be down, or on which written data stalls, is
\* replaced.  (One that goes silent with nothing to send is not.)
Recovers ==
    (link \in {"closed", "reset", "stalled"}) ~> (link = "up")
=============================================================================
