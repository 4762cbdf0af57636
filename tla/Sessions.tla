------------------------------ MODULE Sessions -------------------------------
(***************************************************************************)
(* MCP sessions and their event streams (session.ts), with the three       *)
(* handlers of server.ts that use them: POST, GET and DELETE on /mcp.  Ids *)
(* are numbered in the order of creation, which is the order of the map;   *)
(* `idle` counts the time since the session's last activity and stops one  *)
(* past the timeout.                                                       *)
(***************************************************************************)
EXTENDS Integers, FiniteSets, Functions

CONSTANTS Streams,        \* the event streams clients open, each once
          MaxSessions, MaxSsePerSession, SessionTimeout,
          MaxIds          \* bound: sessions created

VARIABLES sessions,       \* id -> [idle, sse], of the sessions that exist
          stream,         \* Streams -> "new", "open", "ended", "refused", "closed"
          nextId

vars == <<sessions, stream, nextId>>

Ids == 1..MaxIds
Live == DOMAIN sessions

Init == /\ sessions = <<>>
        /\ stream = [c \in Streams |-> "new"]
        /\ nextId = 1

Keep(gone) == Restrict(sessions, Live \ gone)

TimedOut(s) == sessions[s].idle > SessionTimeout

(* Slip: the sessions go and their streams stay open. *)
EndedLeft(gone) == stream

(* destroySession, the part that ends the streams: the sessions `gone` end *)
(* theirs with res.end.                                                    *)
Ended(gone) ==
    [c \in Streams |-> IF stream[c] = "open" /\ \E s \in gone : c \in sessions[s].sse
                       THEN "ended" ELSE stream[c]]

(* Slip: the first session created makes room. *)
OldestCreated == {s \in Live : \A t \in Live : s <= t}

(* evictOldest: the longest idle, the first created among equals. *)
Oldest ==
    {s \in Live : \A t \in Live : \/ sessions[s].idle > sessions[t].idle
                                  \/ sessions[s].idle = sessions[t].idle /\ s <= t}

(* Slip: the limit is noticed one session late. *)
CrowdedLate == Cardinality(Live) > MaxSessions

Crowded == Cardinality(Live) >= MaxSessions

(* createSession makes room first; sse is the stream to register, if any.  *)
(* A header that names a session past its timeout destroys it on the way   *)
(* (getSession), so `stale` goes too.                                      *)
Create(stale, sse) ==
    LET gone == IF stale = {} /\ Crowded THEN Oldest ELSE stale
        id   == nextId
    IN  /\ nextId <= MaxIds
        /\ nextId' = nextId + 1
        /\ sessions' = [s \in (Live \ gone) \cup {id} |->
                            IF s = id THEN [idle |-> 0, sse |-> sse] ELSE sessions[s]]
        /\ stream' = [c \in Streams |-> IF c \in sse THEN "open" ELSE Ended(gone)[c]]

(* The session a request names: reused while it lives. *)
Known(s) == s \in Live /\ ~TimedOut(s)
Stale(s) == {t \in Live : t = s /\ TimedOut(t)}

(* Refused by the rate limit on session creation, which comes after the    *)
(* stale session has been destroyed.                                       *)
Limited(stale) ==
    /\ sessions' = Keep(stale)
    /\ stream' = Ended(stale)
    /\ UNCHANGED nextId

Post(s) ==
    \/ /\ Known(s)
       /\ sessions' = [sessions EXCEPT ![s].idle = 0]
       /\ UNCHANGED <<stream, nextId>>
    \/ ~Known(s) /\ Create(Stale(s), {})
    \/ ~Known(s) /\ Limited(Stale(s))

(* addSseConnection refuses a stream more than the session may have. *)
Get(s, c) ==
    /\ stream[c] = "new"
    /\ \/ /\ Known(s) /\ Cardinality(sessions[s].sse) < MaxSsePerSession
          /\ sessions' = [sessions EXCEPT ![s] = [idle |-> 0, sse |-> @.sse \cup {c}]]
          /\ stream' = [stream EXCEPT ![c] = "open"]
          /\ UNCHANGED nextId
       \/ /\ Known(s) /\ Cardinality(sessions[s].sse) >= MaxSsePerSession
          /\ sessions' = [sessions EXCEPT ![s].idle = 0]
          /\ stream' = [stream EXCEPT ![c] = "refused"]
          /\ UNCHANGED nextId
       \/ ~Known(s) /\ Create(Stale(s), {c})

Delete(s) ==
    /\ s \in Live
    /\ sessions' = Keep({s})
    /\ stream' = Ended({s})
    /\ UNCHANGED nextId

(* The client, or the end of the response, closes a stream. *)
Close(c) ==
    /\ stream[c] \in {"open", "ended"}
    /\ stream' = [stream EXCEPT ![c] = "closed"]
    /\ sessions' = [s \in Live |-> [sessions[s] EXCEPT !.sse = @ \ {c}]]
    /\ UNCHANGED nextId

(* Slip: a session with a stream is spared. *)
OverdueUnlistened == {s \in Live : TimedOut(s) /\ sessions[s].sse = {}}

(* cleanup, once a minute. *)
Overdue == {s \in Live : TimedOut(s)}

Cleanup ==
    /\ Overdue # {}
    /\ sessions' = Keep(Overdue)
    /\ stream' = Ended(Overdue)
    /\ UNCHANGED nextId

Tick ==
    /\ \E s \in Live : ~TimedOut(s)
    /\ sessions' = [s \in Live |-> [sessions[s] EXCEPT !.idle =
                        IF @ > SessionTimeout THEN @ ELSE @ + 1]]
    /\ UNCHANGED <<stream, nextId>>

Next == \/ \E s \in Ids : Post(s) \/ Delete(s)
        \/ \E s \in Ids, c \in Streams : Get(s, c)
        \/ \E c \in Streams : Close(c)
        \/ Cleanup \/ Tick

(* The timers of the process run. *)
Fairness == WF_vars(Cleanup)

Spec == Init /\ [][Next]_vars /\ Fairness
-----------------------------------------------------------------------------
(* However sessions are opened, evicted and timed out, there are never     *)
(* more than the limit of them, nor more streams in one than its own       *)
(* limit.                                                                  *)
Bounded == /\ Cardinality(Live) <= MaxSessions
           /\ \A s \in Live : Cardinality(sessions[s].sse) <= MaxSsePerSession

(* A stream that is still open belongs to one session that still exists:   *)
(* deletion, eviction and timeout each end the streams of the session they *)
(* remove, so none is left that nobody can notify or count.                *)
NoOrphanStream ==
    \A c \in Streams :
        (stream[c] = "open") <=> (Cardinality({s \in Live : c \in sessions[s].sse}) = 1)

(* The limits hold and no stream is left behind. *)
SessionsHonoured == Bounded /\ NoOrphanStream

(* Only idleness costs a session its place: when a new session pushes one  *)
(* out that was not timed out, every session that stays has been active    *)
(* since.                                                                  *)
OldestGoesFirst ==
    [][\A s \in Live : s \notin DOMAIN sessions' /\ nextId' # nextId /\ ~TimedOut(s)
            => \A t \in Live \ {s} : sessions[t].idle <= sessions[s].idle]_vars

(* Sessions that have timed out end, listened to or not: again and again   *)
(* there is none.                                                          *)
IdleEnds == []<>(\A s \in Live : ~TimedOut(s))
=============================================================================
