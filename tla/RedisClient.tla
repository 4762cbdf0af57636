----------------------------- MODULE RedisClient -----------------------------
(***************************************************************************)
(* RedisClient (redis-client.ts): commands are pipelined on one socket and *)
(* a reply is given to the command at the head of the queue, whatever      *)
(* socket it came from.  A command times out without leaving the queue.    *)
(***************************************************************************)
EXTENDS Integers, Sequences, SequencesExt, FiniteSetsExt

CONSTANTS Cmds,       \* commands a program issues, each once
          Sockets,    \* bound: 1..n, the connections a run may open
          None, Mixed \* no reply; a reply glued from bytes of two connections

ASSUME RedisClientAssumption == None \notin Cmds /\ Mixed \notin Cmds

VARIABLES connected, connecting,
          cur,        \* this.socket: the last socket made, 0 before
          opener,     \* opener[s]: the command whose connect() made s
          sock,       \* sock[s]: unused, connecting, up, dead
          wire,       \* wire[s]: commands written to s and not answered yet
          queue,      \* PendingCommand[], oldest first
          buffer,     \* complete replies that wait for a command
          half,       \* the command whose reply is received in part, or None
          st,         \* st[c]: new, connecting (awaits connect), pending, done
          got,        \* got[c]: whose reply c was given, or None (rejected)
          stale,      \* a connection was given up or left commands or bytes behind
          late        \* a socket came up after its connect timed out

vars == <<connected, connecting, cur, opener, sock, wire, queue, buffer, half, st, got,
          stale, late>>

Init ==
    /\ connected = FALSE /\ connecting = FALSE /\ cur = 0
    /\ opener = [s \in Sockets |-> None]
    /\ sock = [s \in Sockets |-> "unused"] /\ wire = [s \in Sockets |-> <<>>]
    /\ queue = <<>> /\ buffer = <<>> /\ half = None
    /\ st = [c \in Cmds |-> "new"] /\ got = [c \in Cmds |-> None] /\ stale = FALSE /\ late = FALSE

(* A pushed command is written to this.socket; a socket that is not up yet *)
(* keeps what is written, one that is dead drops it.                       *)
Push(c) ==
    /\ queue' = Append(queue, c)
    /\ wire' = IF sock[cur] = "dead" THEN wire ELSE [wire EXCEPT ![cur] = Append(@, c)]
    /\ st' = [st EXCEPT ![c] = "pending"]

Command(c) ==
    /\ st[c] = "new" /\ (connected \/ connecting)
    /\ Push(c)
    /\ UNCHANGED <<connected, connecting, cur, opener, sock, buffer, half, got, stale, late>>

CommandConnects(c) ==
    /\ st[c] = "new" /\ ~connected /\ ~connecting /\ cur + 1 \in Sockets
    /\ connecting' = TRUE /\ cur' = cur + 1
    /\ opener' = [opener EXCEPT ![cur + 1] = c]
    /\ sock' = [sock EXCEPT ![cur + 1] = "connecting"]
    /\ st' = [st EXCEPT ![c] = "connecting"]
    /\ UNCHANGED <<connected, wire, queue, buffer, half, got, stale, late>>

Awaited(s) == sock[s] = "connecting" /\ st[opener[s]] = "connecting"
IsUp(s) == connected' = TRUE /\ connecting' = FALSE /\ sock' = [sock EXCEPT ![s] = "up"]

(* The command that awaited connect() goes on as soon as it is resolved.   *)
Connected(s) ==
    /\ Awaited(s)
    /\ IsUp(s) /\ Push(opener[s])
    /\ UNCHANGED <<cur, opener, buffer, half, got, stale, late>>

ConnectedLate(s) ==
    /\ sock[s] = "connecting" /\ ~Awaited(s)
    /\ IsUp(s) /\ late' = TRUE
    /\ UNCHANGED <<cur, opener, wire, queue, buffer, half, st, got, stale, late>>

(* The socket goes on connecting, and commands that were pushed meanwhile  *)
(* stay in the queue.                                                      *)
ConnectTimeout(s) ==
    /\ Awaited(s)
    /\ connecting' = FALSE /\ stale' = TRUE
    /\ st' = [st EXCEPT ![opener[s]] = "done"]
    /\ UNCHANGED <<connected, cur, opener, sock, wire, queue, buffer, half, got, late>>

(* Slip: the timeout takes the command out of the queue. *)
TimeoutLeaves(c) ==
    /\ st[c] = "pending"
    /\ st' = [st EXCEPT ![c] = "done"]
    /\ queue' = SelectSeq(queue, LAMBDA d : d # c)
    /\ UNCHANGED <<connected, connecting, cur, opener, sock, wire, buffer, half, got, stale, late>>

(* Slip: the timer runs only while the connection is up. *)
TimeoutWhileUp(c) ==
    /\ st[c] = "pending" /\ connected
    /\ st' = [st EXCEPT ![c] = "done"]
    /\ UNCHANGED <<connected, connecting, cur, opener, sock, wire, queue, buffer, half, got, stale, late>>

(* The timer of a command rejects it; it stays in the queue, so that the   *)
(* reply still finds it there.                                             *)
Timeout(c) ==
    /\ st[c] = "pending"
    /\ st' = [st EXCEPT ![c] = "done"]
    /\ UNCHANGED <<connected, connecting, cur, opener, sock, wire, queue, buffer, half, got, stale, late>>

(* processBuffer: the i-th reply to the i-th command.  A command that timed *)
(* out is settled already.                                                 *)
ProcessBuffer(replies) ==
    LET n == Min({Len(replies), Len(queue)})
        answered == {queue[i] : i \in 1..n}
    IN  /\ buffer' = SubSeq(replies, n + 1, Len(replies))
        /\ queue' = SubSeq(queue, n + 1, Len(queue))
        /\ got' = [c \in Cmds |-> IF c \in answered /\ st[c] = "pending"
                                    THEN replies[CHOOSE i \in 1..n : queue[i] = c]
                                    ELSE got[c]]
        /\ st' = [c \in Cmds |-> IF c \in answered THEN "done" ELSE st[c]]

(* Redis answers the oldest command of a socket.  Bytes that a dead socket *)
(* left in the buffer become the start of this reply.                      *)
Reply(s) ==
    /\ sock[s] = "up" /\ wire[s] # <<>>
    /\ wire' = [wire EXCEPT ![s] = Tail(@)] /\ half' = None
    /\ ProcessBuffer(Append(buffer, IF half \in {None, Head(wire[s])} THEN Head(wire[s]) ELSE Mixed))
    /\ UNCHANGED <<connected, connecting, cur, opener, sock, stale, late>>

HalfReply(s) ==
    /\ half = None
    /\ sock[s] = "up" /\ wire[s] # <<>>
    /\ half' = Head(wire[s])
    /\ UNCHANGED <<connected, connecting, cur, opener, sock, wire, queue, buffer, st, got, stale, late>>

(* 'error' and the 'close' that follows it: every pending command is       *)
(* rejected, and the connect that made the socket, unless another one is   *)
(* up: its timer is cleared all the same.                                  *)
SocketError(s) ==
    /\ sock[s] \in {"connecting", "up"}
    /\ sock' = [sock EXCEPT ![s] = "dead"] /\ wire' = [wire EXCEPT ![s] = <<>>]
    /\ connected' = FALSE /\ connecting' = FALSE
    /\ st' = [c \in Cmds |->
                IF c \in ToSet(queue) \/ (~connected /\ Awaited(s) /\ c = opener[s])
                    THEN "done" ELSE st[c]]
    /\ queue' = <<>> /\ stale' = (stale \/ half # None)
    /\ UNCHANGED <<cur, opener, buffer, half, got, late>>

(* 'close' alone (the server ended the connection): the queue stays.       *)
SocketClose(s) ==
    /\ sock[s] = "up"
    /\ sock' = [sock EXCEPT ![s] = "dead"] /\ wire' = [wire EXCEPT ![s] = <<>>]
    /\ connected' = FALSE /\ connecting' = FALSE
    /\ stale' = (stale \/ half # None \/ queue # <<>>)
    /\ UNCHANGED <<cur, opener, queue, buffer, half, st, got, late>>

CommandStep(c) == Command(c) \/ CommandConnects(c) \/ Timeout(c)
SocketStep(s) == Connected(s) \/ ConnectedLate(s) \/ ConnectTimeout(s) \/ Reply(s)
                 \/ HalfReply(s) \/ SocketError(s) \/ SocketClose(s)
Next == (\E c \in Cmds : CommandStep(c)) \/ (\E s \in Sockets : SocketStep(s))

Spec == Init /\ [][Next]_vars

(* The timers of commands and of connects fire; no reply need come. *)
Fairness == /\ \A c \in Cmds : WF_vars(Timeout(c))
            /\ \A s \in Sockets : WF_vars(ConnectTimeout(s))
FairSpec == Spec /\ Fairness
-----------------------------------------------------------------------------
TypeOK ==
    /\ connected \in BOOLEAN /\ connecting \in BOOLEAN /\ cur \in Sockets \cup {0}
    /\ sock \in [Sockets -> {"unused", "connecting", "up", "dead"}]
    /\ wire \in [Sockets -> Seq(Cmds)] /\ queue \in Seq(Cmds)
    /\ buffer \in Seq(Cmds \cup {Mixed}) /\ half \in Cmds \cup {None}
    /\ st \in [Cmds -> {"new", "connecting", "pending", "done"}]
    /\ got \in [Cmds -> Cmds \cup {None, Mixed}]
    /\ opener \in [Sockets -> Cmds \cup {None}] /\ stale \in BOOLEAN /\ late \in BOOLEAN

(* A command is resolved with its own reply, never with the reply to       *)
(* another one (command, processBuffer, the timeouts): over reconnections  *)
(* too, unless one left a queue or a part of a reply behind, as a 'close'  *)
(* without an 'error' does.                                                *)
OwnReply == ~stale => \A c \in Cmds : got[c] \in {None, c}

(* Under the same condition the queue is what the connection has to        *)
(* answer, commands that timed out included.                               *)
InStep == ~stale /\ connected /\ buffer = <<>> => queue = wire[cur]

(* Replies find their commands.                                            *)
RepliesMatch == OwnReply /\ InStep

(* Every command issued is answered or rejected: command never leaves its  *)
(* caller without an outcome, whatever happens to the connection, as long  *)
(* as no socket comes up that nobody waits for any more.                   *)
Settles == \A c \in Cmds : st[c] \in {"connecting", "pending"} ~> st[c] = "done" \/ late
=============================================================================
