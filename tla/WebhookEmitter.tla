--------------------------- MODULE WebhookEmitter ---------------------------
(***************************************************************************)
(* WebhookEmitter (webhook.ts): events are buffered, sent in batches,      *)
(* retried with a backoff and put in the dead letter queue when the        *)
(* retries are used up; an admin pauses, resumes, replays and clears.  A   *)
(* retry may be due at any time after it was scheduled.                    *)
(***************************************************************************)
EXTENDS Integers, Sequences, SequencesExt, FiniteSets, FiniteSetsExt

CONSTANTS Events,
          BatchSize, MaxRetries, MaxDeadLetters,
          MaxPauses, MaxReplays, MaxTimeouts  \* bounds on what an admin and the endpoint do

(* batchSize || 10 is never zero, and slice(-0) would keep every entry.    *)
ASSUME EmitterAssumption ==
    BatchSize \in Nat \ {0} /\ MaxRetries \in Nat /\ MaxDeadLetters \in Nat \ {0}

VARIABLES buffer,      \* events not sent yet
          flight,      \* requests under way: [events, attempt]
          retry,       \* retryQueue, entries of the same shape
          dead,        \* deadLetters
          paused, stopped,
          emitted,
          delivered,   \* delivered[e]: how often e was accepted
          sends,       \* sends[e]: how often e was sent since its last replay
          lost,        \* events that left the dead letters for good
          pauses, replays, timeouts

vars == <<buffer, flight, retry, dead, paused, stopped, emitted, delivered,
          sends, lost, pauses, replays, timeouts>>
admin == <<paused, stopped, pauses, replays>>
rest == <<admin, timeouts>>

Init ==
    /\ buffer = <<>> /\ flight = <<>> /\ retry = <<>> /\ dead = <<>>
    /\ paused = FALSE /\ stopped = FALSE /\ emitted = {}
    /\ delivered = [e \in Events |-> 0] /\ sends = [e \in Events |-> 0]
    /\ lost = {} /\ pauses = 0 /\ replays = 0 /\ timeouts = 0

In(s, e) == \E i \in DOMAIN s : s[i] = e
At(s, e) == {i \in DOMAIN s : In(s[i].events, e)}
Batch(evs, n) == [events |-> evs, attempt |-> n]

(* send of batches, given as a sequence; a first attempt counts from one. *)
Send(batches) ==
    /\ flight' = flight \o batches
    /\ sends' = [e \in Events |->
                   LET b == At(batches, e)
                   IN  IF b = {} THEN sends[e]
                       ELSE IF \E i \in b : batches[i].attempt = 0 THEN 1
                       ELSE sends[e] + Cardinality(b)]

Chunks(s) == [i \in 1..((Len(s) + BatchSize - 1) \div BatchSize) |->
                Batch(SubSeq(s, (i - 1) * BatchSize + 1, Min({i * BatchSize, Len(s)})), 0)]

(* flush: one batch, and none while paused. *)
Flush(buf) ==
    IF buf = <<>> \/ paused
        THEN buffer' = buf /\ UNCHANGED <<flight, sends>>
        ELSE LET n == Min({BatchSize, Len(buf)})
             IN  buffer' = SubSeq(buf, n + 1, Len(buf)) /\ Send(<<Batch(SubSeq(buf, 1, n), 0)>>)

Emit(e) ==
    /\ e \notin emitted /\ ~stopped
    /\ emitted' = emitted \cup {e}
    /\ LET buf == Append(buffer, e)
       IN  IF Len(buf) >= BatchSize THEN Flush(buf)
           ELSE buffer' = buf /\ UNCHANGED <<flight, sends>>
    /\ UNCHANGED <<retry, dead, delivered, lost, rest>>

FlushTimer ==
    /\ ~stopped /\ buffer # <<>> /\ ~paused
    /\ Flush(buffer)
    /\ UNCHANGED <<retry, dead, emitted, delivered, lost, rest>>

(* processRetryQueue; it does not look at paused. *)
ProcessRetry(i) ==
    /\ ~stopped
    /\ retry' = RemoveAt(retry, i) /\ Send(<<retry[i]>>)
    /\ UNCHANGED <<buffer, dead, emitted, delivered, lost, rest>>

Times(n, b) == [i \in 1..n |-> b]

AddDeadLetter(n, b) ==
    LET d == dead \o Times(n, b)
        over == Max({0, Len(d) - MaxDeadLetters})
    IN  /\ dead' = SubSeq(d, over + 1, Len(d))
        /\ lost' = lost \cup UNION {ToSet(d[i].events) : i \in 1..over}

(* Slip: a batch with no retry left is dropped. *)
ScheduleRetryDrops(n, b) ==
    IF b.attempt >= MaxRetries
        THEN UNCHANGED <<retry, dead, lost>>
        ELSE retry' = retry \o Times(n, Batch(b.events, b.attempt + 1)) /\ UNCHANGED <<dead, lost>>

(* Slip: one retry too many. *)
ScheduleRetryMore(n, b) ==
    IF b.attempt > MaxRetries
        THEN AddDeadLetter(n, b) /\ UNCHANGED retry
        ELSE retry' = retry \o Times(n, Batch(b.events, b.attempt + 1)) /\ UNCHANGED <<dead, lost>>

ScheduleRetry(n, b) ==
    IF b.attempt >= MaxRetries
        THEN AddDeadLetter(n, b) /\ UNCHANGED retry
        ELSE retry' = retry \o Times(n, Batch(b.events, b.attempt + 1)) /\ UNCHANGED <<dead, lost>>

Accepted(i) ==
    /\ flight' = RemoveAt(flight, i)
    /\ delivered' = [e \in Events |-> delivered[e] + IF In(flight[i].events, e) THEN 1 ELSE 0]
    /\ UNCHANGED <<buffer, retry, dead, emitted, sends, lost, rest>>

(* A status of 400 or more, or an error of the request. *)
Refused(i) ==
    /\ flight' = RemoveAt(flight, i)
    /\ ScheduleRetry(1, flight[i])
    /\ UNCHANGED <<buffer, emitted, delivered, sends, rest>>

(* The 'timeout' listener destroys the request and schedules a retry; the  *)
(* destruction raises 'error', whose listener schedules another.           *)
TimedOut(i) ==
    /\ timeouts < MaxTimeouts /\ timeouts' = timeouts + 1
    /\ flight' = RemoveAt(flight, i)
    /\ ScheduleRetry(2, flight[i])
    /\ UNCHANGED <<buffer, emitted, delivered, sends, admin>>

Pause ==
    /\ ~paused /\ pauses < MaxPauses
    /\ paused' = TRUE /\ pauses' = pauses + 1
    /\ UNCHANGED <<buffer, flight, retry, dead, stopped, emitted, delivered, sends, lost, replays,
                   timeouts>>

(* Slip: resume flushes one batch, as the timer does, and empties the rest. *)
ResumeOne ==
    /\ paused /\ paused' = FALSE
    /\ buffer' = <<>> /\ Send(SubSeq(Chunks(buffer), 1, Min({1, Len(Chunks(buffer))})))
    /\ UNCHANGED <<timeouts, retry, dead, stopped, emitted, delivered, lost, pauses, replays>>

Resume ==
    /\ paused /\ paused' = FALSE
    /\ buffer' = <<>> /\ Send(Chunks(buffer))
    /\ UNCHANGED <<timeouts, retry, dead, stopped, emitted, delivered, lost, pauses, replays>>

Listings(S) == Bijection(1..Cardinality(S), S)
Increasing(f) == \A i, j \in DOMAIN f : i < j => f[i] < f[j]

(* replayDeadLetters of chosen entries, in the order given, each a fresh   *)
(* start; the others keep their order.                                     *)
Replay ==
    /\ replays < MaxReplays /\ replays' = replays + 1
    /\ \E chosen \in SUBSET DOMAIN dead \ {{}} :
         \E again \in Listings(chosen), kept \in Listings(DOMAIN dead \ chosen) :
            /\ Increasing(kept)
            /\ dead' = [n \in DOMAIN kept |-> dead[kept[n]]]
            /\ Send([n \in DOMAIN again |-> Batch(dead[again[n]].events, 0)])
    /\ UNCHANGED <<timeouts, buffer, retry, paused, stopped, emitted, delivered, lost, pauses>>

ClearDeadLetters ==
    /\ dead # <<>> /\ dead' = <<>>
    /\ lost' = lost \cup UNION {ToSet(dead[i].events) : i \in DOMAIN dead}
    /\ UNCHANGED <<buffer, flight, retry, emitted, delivered, sends, rest>>

(* The timers end and one flush is made. *)
Destroy ==
    /\ ~stopped /\ stopped' = TRUE
    /\ Flush(buffer)
    /\ UNCHANGED <<timeouts, retry, dead, paused, emitted, delivered, lost, pauses, replays>>

Outcome(i) == Accepted(i) \/ Refused(i) \/ TimedOut(i)
Next == \/ \E e \in Events : Emit(e)
        \/ FlushTimer \/ (\E i \in DOMAIN retry : ProcessRetry(i))
        \/ \E i \in DOMAIN flight : Outcome(i)
        \/ Pause \/ Resume \/ Replay \/ ClearDeadLetters \/ Destroy

Spec == Init /\ [][Next]_vars

(* The timers run, requests end, and an admin who pauses resumes. *)
Fairness == /\ WF_vars(FlushTimer) /\ WF_vars(Resume)
            /\ WF_vars(\E i \in DOMAIN retry : ProcessRetry(i) /\ i = 1)
            /\ WF_vars(\E i \in DOMAIN flight : Outcome(i) /\ i = 1)
FairSpec == Spec /\ Fairness
-----------------------------------------------------------------------------
Holding(s, e) == Cardinality(At(s, e))
Copies(e) == Holding(flight, e) + Holding(retry, e) + Holding(dead, e) + delivered[e]
             + IF In(buffer, e) THEN 1 ELSE 0

(* Every emitted event is in one place until it is delivered: the buffer,  *)
(* a request, the retry queue or the dead letters; flushing, pausing,      *)
(* retrying and replaying neither lose nor repeat one, and a request that  *)
(* times out adds one copy.  Events leave only by the cap on dead letters  *)
(* or an admin who clears them.                                            *)
OneCopy ==
    \A e \in emitted : Copies(e) + (IF e \in lost THEN 1 ELSE 0) \in 1..(1 + timeouts)

(* An event is sent no more often than its retries allow (--webhook-retries). *)
AttemptsBounded == \A e \in Events : sends[e] <= 1 + MaxRetries

(* The same while the endpoint answers: refusals, pauses and replays add   *)
(* no attempt.                                                             *)
RetriesBounded == timeouts = 0 => AttemptsBounded

(* Every event is delivered, is given up, or the emitter is stopped, and a *)
(* resume picks up what a pause held back.                                 *)
Settles ==
    \A e \in Events :
        e \in emitted ~> delivered[e] > 0 \/ stopped \/ e \in lost \/ Holding(dead, e) > 0
=============================================================================
