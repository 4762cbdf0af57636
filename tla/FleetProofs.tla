----------------------------- MODULE FleetProofs -----------------------------
(***************************************************************************)
(* Several servers behind Redis, proved for any number of them: replies    *)
(* find their commands (RedisClient), and what Redis holds is the balance  *)
(* of the fleet (RedisSync, F).                                            *)
(***************************************************************************)
EXTENDS Fleet, FiniteSetTheorems, TLAPS
-----------------------------------------------------------------------------
(* The client's connection. *)

(* How the flags of the client follow its last socket.                     *)
Flags == /\ connected => cur # 0 /\ sock[cur] = "up"
         /\ connecting => cur # 0 /\ sock[cur] = "connecting"
         /\ cur # 0 /\ ~connected /\ ~connecting => sock[cur] = "dead"

(* Unless a connection was given up or left something behind, only the     *)
(* last socket is alive, the queue is what that socket has to answer, no   *)
(* reply waits for a command, and what is received in part is the reply to *)
(* the oldest command.                                                     *)
Orderly == /\ buffer = <<>>
           /\ cur = 0 => queue = <<>>
           /\ cur # 0 => queue = wire[cur]
           /\ cur # 0 /\ sock[cur] = "dead" => queue = <<>>
           /\ half # None => queue # <<>> /\ half = Head(queue)
           /\ \A s \in Sockets : s # cur => sock[s] \in {"unused", "dead"}
           /\ \A s \in Sockets : s > cur => wire[s] = <<>>
           /\ Flags
           /\ \A c \in Cmds : got[c] \in {None, c}

(* Whatever happens, a socket has an opener, a command.                    *)
Opened == \A s \in Sockets : sock[s] # "unused" => opener[s] \in Cmds

ClientInv == TypeOK /\ Opened /\ (~stale => Orderly)

(* The sockets of a run are numbered. *)
Numbered == Sockets \subseteq Nat \ {0}

(* A queue may be empty.                                                   *)
LEMMA EmptyQueue == \A Q : <<>> \in Seq(Q)
OBVIOUS

(* What a queue or a wire holds, it holds one after the other.             *)
LEMMA Queues ==
    ASSUME NEW Q, NEW w \in Seq(Q)
    PROVE  /\ \A c \in Q : Append(w, c) \in Seq(Q)
           /\ w # <<>> => Head(w) \in Q /\ Tail(w) \in Seq(Q) /\ Head(w) = w[1] /\ Len(w) > 0
           /\ \A n \in 0..Len(w) : SubSeq(w, n + 1, Len(w)) \in Seq(Q)
<1>1. w # <<>> => Head(w) \in Q /\ Tail(w) \in Seq(Q) /\ Head(w) = w[1] /\ Len(w) > 0
  OBVIOUS
<1>2. ASSUME NEW n \in 0..Len(w) PROVE SubSeq(w, n + 1, Len(w)) \in Seq(Q)
  OBVIOUS
<1> QED
  BY <1>1, <1>2

(* The initial state: nothing is open, sent or awaited.                    *)
LEMMA ClientInit == Init => ClientInv
<1> SUFFICES ASSUME Init PROVE ClientInv
  OBVIOUS
<1>1. TypeOK
  <2>1. wire \in [Sockets -> Seq(Cmds)] /\ queue \in Seq(Cmds)
        /\ buffer \in Seq(Cmds \cup {Mixed})
    BY EmptyQueue DEF Init
  <2> QED
    BY <2>1 DEF Init, TypeOK
<1>2. Orderly
  BY DEF Init, Orderly, Flags
<1> QED
  BY <1>1, <1>2 DEF ClientInv, Opened, Init

(* A command joins the queue and, if the socket lives, the wire.           *)
LEMMA Pushed ==
    ASSUME TypeOK, NEW c \in Cmds, Push(c)
    PROVE  /\ queue' \in Seq(Cmds)
           /\ wire' \in [Sockets -> Seq(Cmds)]
           /\ st' \in [Cmds -> {"new", "connecting", "pending", "done"}]
<1>1. queue' \in Seq(Cmds)
  BY DEF Push, TypeOK
<1>2. st' \in [Cmds -> {"new", "connecting", "pending", "done"}]
  BY DEF Push, TypeOK
<1>3. wire' \in [Sockets -> Seq(Cmds)]
  <2>1. CASE wire' = wire
    BY <2>1 DEF TypeOK
  <2>2. CASE wire' = [wire EXCEPT ![cur] = Append(wire[cur], c)]
    <3>1. \A s \in Sockets : Append(wire[s], c) \in Seq(Cmds)
      BY DEF TypeOK
    <3> QED
      BY <2>2, <3>1 DEF TypeOK
  <2> QED
    BY <2>1, <2>2 DEF Push
<1> QED
  BY <1>1, <1>2, <1>3

(* Replies are given to as many commands as there are of both.             *)
LEMMA Processed ==
    ASSUME TypeOK, NEW replies \in Seq(Cmds \cup {Mixed}), ProcessBuffer(replies)
    PROVE  /\ buffer' \in Seq(Cmds \cup {Mixed}) /\ queue' \in Seq(Cmds)
           /\ st' \in [Cmds -> {"new", "connecting", "pending", "done"}]
           /\ got' \in [Cmds -> Cmds \cup {None, Mixed}]
<1> DEFINE n == Min({Len(replies), Len(queue)})
<1>1. n \in 0..Len(replies) /\ n \in 0..Len(queue)
  <2>1. Len(replies) \in Nat /\ Len(queue) \in Nat
    BY DEF TypeOK
  <2>2. \E m \in {Len(replies), Len(queue)} : \A x \in {Len(replies), Len(queue)} : m <= x
    BY <2>1
  <2>3. n \in {Len(replies), Len(queue)} /\ \A x \in {Len(replies), Len(queue)} : n <= x
    BY <2>2, Zenon DEF Min
  <2> QED
    BY <2>1, <2>3
<1>2. buffer' \in Seq(Cmds \cup {Mixed}) /\ queue' \in Seq(Cmds)
  <2>1. queue \in Seq(Cmds)
    BY DEF TypeOK
  <2>2. buffer' = SubSeq(replies, n + 1, Len(replies)) /\ queue' = SubSeq(queue, n + 1, Len(queue))
    BY DEF ProcessBuffer
  <2> HIDE DEF n
  <2> QED
    BY <1>1, <2>1, <2>2, Queues
<1>3. st' \in [Cmds -> {"new", "connecting", "pending", "done"}]
  BY DEF ProcessBuffer, TypeOK
<1>4. ASSUME NEW c \in Cmds PROVE got'[c] \in Cmds \cup {None, Mixed}
  <2>1. CASE c \in {queue[i] : i \in 1..n} /\ st[c] = "pending"
    <3>1. (CHOOSE i \in 1..n : queue[i] = c) \in 1..n
      BY <2>1
    <3>2. \A i \in 1..n : replies[i] \in Cmds \cup {Mixed}
      BY <1>1
    <3>3. got'[c] = replies[CHOOSE i \in 1..n : queue[i] = c]
      BY <2>1 DEF ProcessBuffer
    <3> HIDE DEF n
    <3> QED
      BY <3>1, <3>2, <3>3
  <2>2. CASE ~(c \in {queue[i] : i \in 1..n} /\ st[c] = "pending")
    BY <2>2 DEF ProcessBuffer, TypeOK
  <2> QED
    BY <2>1, <2>2
<1>5. DOMAIN got' = Cmds /\ got' = [c \in Cmds |-> got'[c]]
  BY DEF ProcessBuffer
<1> QED
  BY <1>2, <1>3, <1>4, <1>5

(* Every step keeps the types.                                             *)
LEMMA ClientTypes == TypeOK /\ Opened /\ [Next]_vars => TypeOK' /\ Opened'
<1> SUFFICES ASSUME TypeOK, Opened, [Next]_vars PROVE TypeOK' /\ Opened'
  OBVIOUS
<1> USE DEF TypeOK, Opened
<1>1. ASSUME NEW c \in Cmds, Command(c)
      PROVE  TypeOK' /\ Opened'
  <2>1. Push(c)
    BY <1>1 DEF Command
  <2> QED
    BY <1>1, <2>1, Pushed DEF Command
<1>2. ASSUME NEW c \in Cmds, CommandConnects(c)
      PROVE  TypeOK' /\ Opened'
  BY <1>2 DEF CommandConnects
<1>3. ASSUME NEW c \in Cmds, Timeout(c)
      PROVE  TypeOK' /\ Opened'
  BY <1>3 DEF Timeout
<1>4. ASSUME NEW s \in Sockets, Connected(s)
      PROVE  TypeOK' /\ Opened'
  <2>1. Push(opener[s]) /\ st[opener[s]] = "connecting"
    BY <1>4 DEF Connected, Awaited
  <2>2. opener[s] \in Cmds
    BY <1>4 DEF Connected, Awaited
  <2> QED
    BY <1>4, <2>1, <2>2, Pushed DEF Connected, IsUp
<1>5. ASSUME NEW s \in Sockets, ConnectedLate(s)
      PROVE  TypeOK' /\ Opened'
  BY <1>5 DEF ConnectedLate, IsUp
<1>6. ASSUME NEW s \in Sockets, ConnectTimeout(s)
      PROVE  TypeOK' /\ Opened'
  BY <1>6 DEF ConnectTimeout
<1>7. ASSUME NEW s \in Sockets, Reply(s)
      PROVE  TypeOK' /\ Opened'
  <2>1. wire[s] \in Seq(Cmds) /\ wire[s] # <<>>
    BY <1>7 DEF Reply
  <2>2. Head(wire[s]) \in Cmds /\ Tail(wire[s]) \in Seq(Cmds)
    BY <2>1, Queues
  <2> DEFINE reply == IF half \in {None, Head(wire[s])} THEN Head(wire[s]) ELSE Mixed
  <2>3. Append(buffer, reply) \in Seq(Cmds \cup {Mixed})
    BY <2>2, Queues
  <2>4. ProcessBuffer(Append(buffer, reply))
    BY <1>7 DEF Reply
  <2>5. wire' \in [Sockets -> Seq(Cmds)]
    BY <1>7, <2>2 DEF Reply
  <2> HIDE DEF reply
  <2>6. /\ buffer' \in Seq(Cmds \cup {Mixed}) /\ queue' \in Seq(Cmds)
        /\ st' \in [Cmds -> {"new", "connecting", "pending", "done"}]
        /\ got' \in [Cmds -> Cmds \cup {None, Mixed}]
    BY <2>3, <2>4, Processed
  <2> QED
    BY <1>7, <2>5, <2>6 DEF Reply
<1>8. ASSUME NEW s \in Sockets, HalfReply(s)
      PROVE  TypeOK' /\ Opened'
  <2>1. wire[s] \in Seq(Cmds) /\ wire[s] # <<>>
    BY <1>8 DEF HalfReply
  <2>2. Head(wire[s]) \in Cmds
    BY <2>1, Queues
  <2> QED
    BY <1>8, <2>2 DEF HalfReply
<1>9. ASSUME NEW s \in Sockets, SocketError(s)
      PROVE  TypeOK' /\ Opened'
  <2>1. st' \in [Cmds -> {"new", "connecting", "pending", "done"}]
    BY <1>9 DEF SocketError
  <2>2. stale' \in BOOLEAN
    BY <1>9 DEF SocketError
  <2>3. wire' \in [Sockets -> Seq(Cmds)] /\ queue' \in Seq(Cmds)
    BY <1>9, EmptyQueue DEF SocketError
  <2> QED
    BY <1>9, <2>1, <2>2, <2>3 DEF SocketError
<1>10. ASSUME NEW s \in Sockets, SocketClose(s)
      PROVE  TypeOK' /\ Opened'
  <2>1. wire' \in [Sockets -> Seq(Cmds)]
    BY <1>10, EmptyQueue DEF SocketClose
  <2>2. stale' \in BOOLEAN
    BY <1>10 DEF SocketClose
  <2> QED
    BY <1>10, <2>1, <2>2 DEF SocketClose
<1>11. CASE UNCHANGED vars
  BY <1>11 DEF vars
<1> QED
  BY <1>1, <1>2, <1>3, <1>4, <1>5, <1>6, <1>7, <1>8, <1>9, <1>10, <1>11
  DEF Next, CommandStep, SocketStep

(* A command that is pushed while the last socket lives joins both ends.   *)
LEMMA PushedOrderly ==
    ASSUME ClientInv, Orderly, NEW c \in Cmds, Push(c), cur # 0, sock[cur] # "dead"
    PROVE  /\ queue' = wire'[cur]
           /\ half # None => queue' # <<>> /\ half = Head(queue')
           /\ \A s \in Sockets : s # cur => wire'[s] = wire[s]
<1>1. cur \in Sockets /\ wire \in [Sockets -> Seq(Cmds)] /\ queue \in Seq(Cmds)
  BY DEF ClientInv, TypeOK
<1>2. queue' = Append(queue, c) /\ wire' = [wire EXCEPT ![cur] = Append(wire[cur], c)]
  BY DEF Push
<1>3. queue # <<>> => Head(Append(queue, c)) = Head(queue) /\ Append(queue, c) # <<>>
  BY <1>1
<1> QED
  BY <1>1, <1>2, <1>3 DEF Orderly

(* The reply to the oldest command settles it: one reply, one command.     *)
LEMMA OneReply ==
    ASSUME TypeOK, queue # <<>>, ProcessBuffer(<<Head(queue)>>)
    PROVE  /\ buffer' = <<>> /\ queue' = Tail(queue)
           /\ \A c \in Cmds : got'[c] \in {got[c], c}
<1> DEFINE n == Min({Len(<<Head(queue)>>), Len(queue)})
<1>1. queue \in Seq(Cmds) /\ Len(queue) \in Nat \ {0} /\ Head(queue) = queue[1]
  BY DEF TypeOK
<1>2. Len(<<Head(queue)>>) = 1
  OBVIOUS
<1>3. n = 1
  <2>1. Min({1, Len(queue)}) = CHOOSE x \in {1, Len(queue)} : \A y \in {1, Len(queue)} : x <= y
    BY Zenon DEF Min
  <2>2. \A x \in {1, Len(queue)} : (\A y \in {1, Len(queue)} : x <= y) <=> x = 1
    BY <1>1
  <2> QED
    BY <1>2, <2>1, <2>2
<1>4. /\ buffer' = SubSeq(<<Head(queue)>>, 2, 1) /\ queue' = SubSeq(queue, 2, Len(queue))
      /\ got' = [c \in Cmds |-> IF c \in {queue[i] : i \in 1..1} /\ st[c] = "pending"
                                  THEN <<Head(queue)>>[CHOOSE i \in 1..1 : queue[i] = c]
                                  ELSE got[c]]
  <2>1. /\ buffer' = SubSeq(<<Head(queue)>>, n + 1, Len(<<Head(queue)>>))
        /\ queue' = SubSeq(queue, n + 1, Len(queue))
        /\ got' = [c \in Cmds |-> IF c \in {queue[i] : i \in 1..n} /\ st[c] = "pending"
                                    THEN <<Head(queue)>>[CHOOSE i \in 1..n : queue[i] = c]
                                    ELSE got[c]]
    BY DEF ProcessBuffer
  <2> HIDE DEF n
  <2> QED
    BY <1>2, <1>3, <2>1
<1>5. SubSeq(<<Head(queue)>>, 2, 1) = <<>> /\ SubSeq(queue, 2, Len(queue)) = Tail(queue)
  BY <1>1
<1>6. ASSUME NEW c \in Cmds PROVE got'[c] \in {got[c], c}
  <2>1. CASE c = queue[1]
    <3>1. (CHOOSE i \in 1..1 : queue[i] = c) = 1
      BY <2>1
    <3>2. <<Head(queue)>>[1] = c
      BY <1>1, <2>1
    <3> QED
      BY <1>4, <3>1, <3>2
  <2>2. CASE c # queue[1]
    BY <1>4, <2>2
  <2> QED
    BY <2>1, <2>2
<1> QED
  BY <1>4, <1>5, <1>6

(* Every step keeps things in order unless it makes them stale.            *)
LEMMA OrderlyStep ==
    ASSUME Numbered, ClientInv, [Next]_vars, ~stale'
    PROVE  Orderly'
<1>0. /\ sock \in [Sockets -> {"unused", "connecting", "up", "dead"}]
      /\ wire \in [Sockets -> Seq(Cmds)] /\ queue \in Seq(Cmds)
      /\ cur \in Sockets \cup {0} /\ cur \in Nat
  BY DEF ClientInv, TypeOK, Numbered
<1>1. ASSUME stale = FALSE PROVE Orderly
  BY <1>1 DEF ClientInv
<1>2. ASSUME Orderly, NEW s \in Sockets, sock[s] \in {"connecting", "up"} PROVE s = cur /\ cur # 0
  BY <1>2 DEF Orderly, Numbered
<1>3. ASSUME NEW c \in Cmds, Command(c) PROVE Orderly'
  <2>1. Orderly /\ Push(c) /\ (connected \/ connecting)
    BY <1>1, <1>3 DEF Command, ClientInv, TypeOK
  <2>2. cur # 0 /\ sock[cur] # "dead"
    BY <2>1 DEF Orderly, Flags
  <2>3. /\ queue' = wire'[cur]
        /\ half # None => queue' # <<>> /\ half = Head(queue')
        /\ \A s \in Sockets : s # cur => wire'[s] = wire[s]
    BY <2>1, <2>2, PushedOrderly
  <2> QED
    BY <1>0, <1>3, <2>1, <2>2, <2>3 DEF Command, Orderly, Flags
<1>4. ASSUME NEW c \in Cmds, CommandConnects(c) PROVE Orderly'
  <2>1. Orderly
    BY <1>1, <1>4 DEF CommandConnects, ClientInv, TypeOK
  <2>2. queue = <<>> /\ half = None
    BY <1>4, <2>1 DEF CommandConnects, Orderly, Flags
  <2>3. /\ cur' = cur + 1 /\ cur' \in Sockets /\ sock'[cur'] = "connecting"
        /\ \A s \in Sockets : s # cur' => sock'[s] = sock[s]
    BY <1>0, <1>4 DEF CommandConnects
  <2>4. \A s \in Sockets : s # cur' => sock'[s] \in {"unused", "dead"}
    <3>1. \A s \in Sockets : s # cur => sock[s] \in {"unused", "dead"}
      BY <2>1 DEF Orderly
    <3>2. cur \in Sockets => sock[cur] = "dead"
      BY <1>4, <2>1 DEF CommandConnects, Orderly, Flags, Numbered
    <3> QED
      BY <2>3, <3>1, <3>2
  <2>5. wire'[cur'] = <<>> /\ \A s \in Sockets : s > cur' => wire'[s] = <<>>
    BY <1>0, <1>4, <2>1, <2>3 DEF CommandConnects, Orderly, Numbered
  <2> QED
    BY <1>0, <1>4, <2>1, <2>2, <2>3, <2>4, <2>5 DEF CommandConnects, Orderly, Flags
<1>5. ASSUME NEW c \in Cmds, Timeout(c) PROVE Orderly'
  BY <1>1, <1>5 DEF Timeout, ClientInv, TypeOK, Orderly, Flags
<1>6. ASSUME NEW s \in Sockets, Connected(s) PROVE Orderly'
  <2>1. Orderly /\ Push(opener[s]) /\ sock[s] = "connecting"
    BY <1>1, <1>6 DEF Connected, Awaited, ClientInv, TypeOK
  <2>2. s = cur /\ cur # 0 /\ sock[cur] # "dead" /\ opener[s] \in Cmds
    BY <1>2, <2>1 DEF ClientInv, Opened
  <2>3. /\ queue' = wire'[cur]
        /\ half # None => queue' # <<>> /\ half = Head(queue')
        /\ \A t \in Sockets : t # cur => wire'[t] = wire[t]
    BY <2>1, <2>2, PushedOrderly
  <2>4. /\ sock'[cur] = "up" /\ \A t \in Sockets : t # cur => sock'[t] = sock[t]
        /\ connected' = TRUE /\ connecting' = FALSE
        /\ UNCHANGED <<cur, buffer, half, got>>
    BY <1>0, <1>6, <2>2 DEF Connected, IsUp
  <2>5. buffer' = <<>> /\ \A d \in Cmds : got'[d] \in {None, d}
    BY <2>1, <2>4 DEF Orderly
  <2>6. /\ \A t \in Sockets : t # cur' => sock'[t] \in {"unused", "dead"}
        /\ \A t \in Sockets : t > cur' => wire'[t] = <<>>
    <3>1. \A t \in Sockets : t > cur => t # cur
      BY <1>0
    <3>2. /\ \A t \in Sockets : t # cur => sock[t] \in {"unused", "dead"}
          /\ \A t \in Sockets : t > cur => wire[t] = <<>>
      BY <2>1 DEF Orderly
    <3> QED
      BY <2>3, <2>4, <3>1, <3>2
  <2>7. Flags'
    BY <2>2, <2>4 DEF Flags
  <2> QED
    BY <2>2, <2>3, <2>4, <2>5, <2>6, <2>7 DEF Orderly
<1>7. ASSUME NEW s \in Sockets, ConnectedLate(s) PROVE Orderly'
  <2>1. Orderly /\ sock[s] = "connecting"
    BY <1>1, <1>7 DEF ConnectedLate, ClientInv, TypeOK
  <2>2. s = cur /\ cur # 0
    BY <1>2, <2>1
  <2>3. /\ sock'[cur] = "up" /\ \A t \in Sockets : t # cur => sock'[t] = sock[t]
        /\ connected' = TRUE /\ connecting' = FALSE
        /\ UNCHANGED <<cur, buffer, half, got, queue, wire>>
    BY <1>0, <1>7, <2>2 DEF ConnectedLate, IsUp
  <2> QED
    BY <1>0, <2>1, <2>2, <2>3 DEF Orderly, Flags
<1>8. ASSUME NEW s \in Sockets, ConnectTimeout(s) PROVE Orderly'
  BY <1>8 DEF ConnectTimeout
<1>9. ASSUME NEW s \in Sockets, Reply(s) PROVE Orderly'
  <2>1. Orderly /\ sock[s] = "up" /\ wire[s] # <<>>
    BY <1>1, <1>9 DEF Reply, ClientInv, TypeOK
  <2>2. s = cur /\ cur # 0
    BY <1>2, <2>1
  <2>3. queue = wire[cur] /\ queue # <<>> /\ half \in {None, Head(queue)} /\ buffer = <<>>
    BY <2>1, <2>2 DEF Orderly
  <2>4. ProcessBuffer(<<Head(queue)>>)
    <3> DEFINE reply == IF half \in {None, Head(wire[s])} THEN Head(wire[s]) ELSE Mixed
    <3>1. ProcessBuffer(Append(buffer, reply))
      BY <1>9 DEF Reply
    <3>2. Append(buffer, reply) = <<Head(queue)>>
      BY <2>2, <2>3
    <3> QED
      BY <3>1, <3>2
  <2>5. /\ buffer' = <<>> /\ queue' = Tail(queue)
        /\ \A c \in Cmds : got'[c] \in {got[c], c}
    BY <2>3, <2>4, OneReply DEF ClientInv
  <2>6. /\ wire'[cur] = Tail(wire[cur]) /\ \A t \in Sockets : t # cur => wire'[t] = wire[t]
        /\ half' = None /\ UNCHANGED <<connected, connecting, cur, sock>>
    BY <1>0, <1>9, <2>2 DEF Reply
  <2> QED
    BY <1>0, <2>1, <2>2, <2>3, <2>5, <2>6 DEF Orderly, Flags
<1>10. ASSUME NEW s \in Sockets, HalfReply(s) PROVE Orderly'
  <2>1. Orderly /\ sock[s] = "up"
    BY <1>1, <1>10 DEF HalfReply, ClientInv, TypeOK
  <2>2. s = cur /\ cur # 0
    BY <1>2, <2>1
  <2> QED
    BY <1>10, <2>1, <2>2 DEF HalfReply, Orderly, Flags
<1>11. ASSUME NEW s \in Sockets, SocketError(s) \/ SocketClose(s) PROVE Orderly'
  <2>1. stale = FALSE /\ half = None /\ (SocketClose(s) => queue = <<>>)
    BY <1>11 DEF SocketError, SocketClose, ClientInv, TypeOK
  <2>2. Orderly /\ sock[s] \in {"connecting", "up"}
    BY <1>1, <1>11, <2>1 DEF SocketError, SocketClose
  <2>3. s = cur /\ cur # 0
    BY <1>2, <2>2
  <2>4. /\ sock' = [sock EXCEPT ![cur] = "dead"] /\ wire' = [wire EXCEPT ![cur] = <<>>]
        /\ connected' = FALSE /\ connecting' = FALSE /\ queue' = <<>>
        /\ UNCHANGED <<cur, buffer, half, got>>
    BY <1>11, <2>1, <2>3 DEF SocketError, SocketClose
  <2>5. /\ sock'[cur] = "dead" /\ wire'[cur] = <<>>
        /\ \A t \in Sockets : t # cur => sock'[t] = sock[t] /\ wire'[t] = wire[t]
    BY <1>0, <2>3, <2>4
  <2> QED
    BY <1>0, <2>1, <2>2, <2>3, <2>4, <2>5 DEF Orderly, Flags
<1>12. CASE UNCHANGED vars
  BY <1>1, <1>12 DEF vars, ClientInv, TypeOK, Orderly, Flags
<1> QED
  BY <1>3, <1>4, <1>5, <1>6, <1>7, <1>8, <1>9, <1>10, <1>11, <1>12
  DEF Next, CommandStep, SocketStep

(* The client is typed and, unless stale, in order, always.                *)
THEOREM ClientInvariant ==
    ASSUME Numbered
    PROVE  Spec => []ClientInv
<1>1. ClientInv /\ [Next]_vars => ClientInv'
  BY ClientTypes, OrderlyStep DEF ClientInv
<1> QED
  BY ClientInit, <1>1, PTL DEF Spec

(* A command is resolved with its own reply or rejected, and the queue is  *)
(* what the connection has to answer, over reconnections too, unless one   *)
(* left a queue or a part of a reply behind (command, processBuffer and    *)
(* the handlers of the socket in redis-client.ts), for any number of       *)
(* commands and connections.                                               *)
THEOREM RepliesFindTheirCommands ==
    ASSUME Numbered
    PROVE  Spec => []RepliesMatch
<1>1. ClientInv => RepliesMatch
  BY DEF ClientInv, RepliesMatch, OwnReply, InStep, Orderly, Flags
<1> QED
  BY ClientInvariant, <1>1, PTL
-----------------------------------------------------------------------------
(* The balance of the fleet. *)

(* What is set for the fleet: its first credits pay for the calls it may   *)
(* make.  If they do not, instances can spend the same credits twice.      *)
Funded == /\ Initial \in Nat /\ Price \in Nat /\ TopUpAmount \in Nat
          /\ Budgets \subseteq [F!Ops -> Nat]
          /\ \A b \in Budgets : Price * b["call"] <= Initial

Spoilers == {"refund", "save", "suspend", "revoke", "outage"}
Unspoiled == \A op \in Spoilers : left[op] = budget[op]

(* The charges that Redis has not executed.                                *)
Due(w) == {p \in Instances \X Nat : p[2] \in 1..Len(w[p[1]]) /\ w[p[1]][p[2]].op = "deduct"}

Queue(w) == \E S : w \in Seq(S)

FleetTypes == /\ budget \in [F!Ops -> Nat] /\ Price * budget["call"] <= Initial
              /\ left \in [F!Ops -> Nat] /\ \A op \in F!Ops : left[op] <= budget[op]
              /\ DOMAIN q = Instances /\ q = [i \in Instances |-> q[i]]
              /\ \A i \in Instances : Queue(q[i])

(* Redis holds what was given, less the calls, plus the charges under way, *)
(* and no command is under way that overwrites a balance.                  *)
Books == /\ rds \in [credits : Int, active : BOOLEAN] /\ rds.active = TRUE
         /\ tally \in [taken : Int, added : Nat]
         /\ tally.taken = Price * (budget["call"] - left["call"])
         /\ \A i \in Instances : \A n \in 1..Len(q[i]) : q[i][n].op \notin {"save", "revoke"}
         /\ IsFiniteSet(Due(q))
         /\ rds.credits = Initial + tally.added - tally.taken + Price * Cardinality(Due(q))

FleetInv == FleetTypes /\ (Unspoiled => Books)

(* A charge that is due, by its queue and its place.                       *)
LEMMA DueAt ==
    ASSUME NEW w
    PROVE  /\ \A j \in Instances, n \in Nat :
                 <<j, n>> \in Due(w) <=> n \in 1..Len(w[j]) /\ w[j][n].op = "deduct"
           /\ \A p \in Due(w) : \E j \in Instances, n \in Nat : p = <<j, n>>
BY DEF Due

(* A command that is sent is the last of its queue.                        *)
LEMMA Sent ==
    ASSUME FleetTypes, NEW i \in Instances, NEW cmd, F!Send(i, cmd)
    PROVE  /\ DOMAIN q' = Instances /\ q' = [j \in Instances |-> q'[j]]
           /\ \A j \in Instances : Queue(q'[j])
           /\ \A j \in Instances : \A n \in 1..Len(q'[j]) :
                 \/ n \in 1..Len(q[j]) /\ q'[j][n] = q[j][n]
                 \/ q'[j][n] = cmd
           /\ cmd.op # "deduct" => Due(q') = Due(q)
           /\ cmd.op = "deduct" => Due(q') = Due(q) \cup {<<i, Len(q[i]) + 1>>}
           /\ <<i, Len(q[i]) + 1>> \notin Due(q)
<1>1. /\ q' = [q EXCEPT ![i] = Append(q[i], cmd)]
      /\ DOMAIN q = Instances /\ q = [j \in Instances |-> q[j]]
  BY DEF F!Send, FleetTypes
<1>2. PICK S : q[i] \in Seq(S)
  BY DEF FleetTypes, Queue
<1>3. q[i] \in Seq(S \cup {cmd})
  BY <1>2
<1>4. /\ q'[i] \in Seq(S \cup {cmd}) /\ Len(q'[i]) = Len(q[i]) + 1 /\ Len(q[i]) \in Nat
      /\ q'[i][Len(q[i]) + 1] = cmd /\ \A n \in 1..Len(q[i]) : q'[i][n] = q[i][n]
  BY <1>1, <1>3
<1>5. \A j \in Instances : j # i => q'[j] = q[j]
  BY <1>1
<1>6. \A j \in Instances : Queue(q'[j])
  BY <1>4, <1>5 DEF FleetTypes, Queue
<1>7. \A j \in Instances : \A n \in 1..Len(q'[j]) :
        \/ n \in 1..Len(q[j]) /\ q'[j][n] = q[j][n]
        \/ j = i /\ n = Len(q[i]) + 1 /\ q'[j][n] = cmd
  BY <1>4, <1>5
<1>8. \A j \in Instances : \A n \in 1..Len(q[j]) : n \in 1..Len(q'[j]) /\ q'[j][n] = q[j][n]
  BY <1>4, <1>5
<1>9. cmd.op # "deduct" => Due(q') = Due(q)
  BY <1>7, <1>8 DEF Due
<1>10. cmd.op = "deduct" => Due(q') = Due(q) \cup {<<i, Len(q[i]) + 1>>}
  BY <1>4, <1>7, <1>8 DEF Due
<1>11. <<i, Len(q[i]) + 1>> \notin Due(q)
  BY <1>4 DEF Due
<1>12. DOMAIN q' = Instances /\ q' = [j \in Instances |-> q'[j]]
  BY <1>1
<1>13. \A j \in Instances : \A n \in 1..Len(q'[j]) :
         (n \in 1..Len(q[j]) /\ q'[j][n] = q[j][n]) \/ q'[j][n] = cmd
  BY <1>7
<1> QED
  BY <1>6, <1>9, <1>10, <1>11, <1>12, <1>13, Zenon

(* The command that is executed was the first of its queue; those behind   *)
(* it move up, as many charges as before except its own.                   *)
LEMMA Executed ==
    ASSUME FleetTypes, IsFiniteSet(Due(q)), NEW i \in Instances, q[i] # <<>>,
           q' = [q EXCEPT ![i] = Tail(q[i])]
    PROVE  /\ DOMAIN q' = Instances /\ q' = [j \in Instances |-> q'[j]]
           /\ \A j \in Instances : Queue(q'[j])
           /\ \A j \in Instances : \A n \in 1..Len(q'[j]) :
                 \E m \in 1..Len(q[j]) : q'[j][n] = q[j][m]
           /\ IsFiniteSet(Due(q'))
           /\ Cardinality(Due(q)) = Cardinality(Due(q'))
                                      + (IF Head(q[i]).op = "deduct" THEN 1 ELSE 0)
<1>1. DOMAIN q = Instances /\ q = [j \in Instances |-> q[j]]
  BY DEF FleetTypes
<1>2. PICK S : q[i] \in Seq(S)
  BY DEF FleetTypes, Queue
<1>3. /\ q'[i] \in Seq(S) /\ Len(q'[i]) = Len(q[i]) - 1 /\ Len(q[i]) \in Nat \ {0}
      /\ \A n \in 1..Len(q'[i]) : n + 1 \in 1..Len(q[i]) /\ q'[i][n] = q[i][n + 1]
      /\ Head(q[i]) = q[i][1]
  BY <1>1, <1>2
<1>4. \A j \in Instances : j # i => q'[j] = q[j]
  BY <1>1
<1>5. \A j \in Instances : Queue(q'[j])
  BY <1>3, <1>4 DEF FleetTypes, Queue
<1>6. \A j \in Instances : \A n \in 1..Len(q'[j]) : \E m \in 1..Len(q[j]) : q'[j][n] = q[j][m]
  BY <1>3, <1>4
<1> DEFINE D == Due(q) \ {<<i, 1>>}
           up == [p \in D |-> IF p[1] = i THEN <<i, p[2] - 1>> ELSE p]
<1>7. \A x \in D : \E j \in Instances, n \in Nat :
         /\ x = <<j, n>> /\ n \in 1..Len(q[j]) /\ q[j][n].op = "deduct" /\ (j = i => n > 1)
         /\ up[x] = IF j = i THEN <<i, n - 1>> ELSE <<j, n>>
  <2> SUFFICES ASSUME NEW x \in D
               PROVE  \E j \in Instances, n \in Nat :
                         /\ x = <<j, n>> /\ n \in 1..Len(q[j]) /\ q[j][n].op = "deduct"
                         /\ (j = i => n > 1)
                         /\ up[x] = IF j = i THEN <<i, n - 1>> ELSE <<j, n>>
    OBVIOUS
  <2>1. PICK j \in Instances, n \in Nat : x = <<j, n>>
    BY DueAt
  <2>2. n \in 1..Len(q[j]) /\ q[j][n].op = "deduct" /\ (j = i => n > 1)
    BY <2>1, DueAt
  <2>3. up[x] = IF j = i THEN <<i, n - 1>> ELSE <<j, n>>
    BY <2>1
  <2> QED
    BY <2>1, <2>2, <2>3
<1>8. /\ \A x \in D : up[x] \in Due(q')
      /\ \A x, y \in D : up[x] = up[y] => x = y
  <2>1. ASSUME NEW x \in D PROVE up[x] \in Due(q')
    <3>1. PICK j \in Instances, n \in Nat :
             /\ x = <<j, n>> /\ n \in 1..Len(q[j]) /\ q[j][n].op = "deduct" /\ (j = i => n > 1)
             /\ up[x] = IF j = i THEN <<i, n - 1>> ELSE <<j, n>>
      BY <1>7
    <3>2. CASE j # i
      BY <1>4, <3>1, <3>2, DueAt
    <3>3. CASE j = i
      <4>1. n - 1 \in 1..Len(q'[i]) /\ q'[i][n - 1] = q[i][n] /\ n - 1 \in Nat
        <5>1. n - 1 \in 1..Len(q'[i]) /\ n - 1 \in Nat
          BY <1>3, <3>1, <3>3
        <5>2. q'[i][n - 1] = q[i][(n - 1) + 1]
          BY <1>3, <5>1
        <5> QED
          BY <5>1, <5>2
      <4>2. <<i, n - 1>> \in Due(q')
        BY <3>1, <3>3, <4>1, DueAt
      <4> QED
        BY <3>1, <3>3, <4>2
    <3> QED
      BY <3>2, <3>3
  <2>2. ASSUME NEW x \in D, NEW y \in D, up[x] = up[y] PROVE x = y
    <3> HIDE DEF D, up
    <3>1. PICK j \in Instances, n \in Nat :
             x = <<j, n>> /\ up[x] = IF j = i THEN <<i, n - 1>> ELSE <<j, n>>
      BY <1>7, <2>2
    <3>2. PICK k \in Instances, m \in Nat :
             y = <<k, m>> /\ up[y] = IF k = i THEN <<i, m - 1>> ELSE <<k, m>>
      BY <1>7, <2>2
    <3>3. j = k
      BY <2>2, <3>1, <3>2
    <3>4. n = m
      BY <2>2, <3>1, <3>2, <3>3
    <3> QED
      BY <3>1, <3>2, <3>3, <3>4
  <2> QED
    BY <2>1, <2>2
<1>9. \A z \in Due(q') : \E x \in D : up[x] = z
  <2> SUFFICES ASSUME NEW z \in Due(q') PROVE \E x \in D : up[x] = z
    OBVIOUS
  <2>1. PICK j \in Instances, n \in Nat : z = <<j, n>>
    BY DueAt
  <2>2. n \in 1..Len(q'[j]) /\ q'[j][n].op = "deduct"
    BY <2>1, DueAt
  <2>3. CASE j # i
    <3>1. <<j, n>> \in D
      BY <1>4, <2>2, <2>3, DueAt
    <3> QED
      BY <2>1, <2>3, <3>1
  <2>4. CASE j = i
    <3>1. n + 1 \in Nat /\ n + 1 \in 1..Len(q[i]) /\ q[i][n + 1].op = "deduct" /\ n + 1 # 1
      BY <1>3, <2>2, <2>4
    <3>2. <<i, n + 1>> \in D
      BY <3>1, DueAt
    <3>3. up[<<i, n + 1>>] = <<i, n>>
      BY <3>2
    <3> QED
      BY <2>1, <2>4, <3>2, <3>3
  <2> QED
    BY <2>3, <2>4
<1>10. ExistsBijection(D, Due(q'))
  <2>1. up \in [D -> Due(q')]
    BY <1>8
  <2> HIDE DEF D, up
  <2>2. up \in Injection(D, Due(q'))
    BY <1>8, <2>1 DEF Injection, IsInjective
  <2>3. up \in Surjection(D, Due(q'))
    BY <1>9, <2>1 DEF Surjection
  <2> QED
    BY <2>2, <2>3 DEF ExistsBijection, Bijection
<1>11. IsFiniteSet(D) /\ Cardinality(D) = IF <<i, 1>> \in Due(q) THEN Cardinality(Due(q)) - 1
                                                             ELSE Cardinality(Due(q))
  BY FS_RemoveElement
<1>12. IsFiniteSet(Due(q')) /\ Cardinality(Due(q')) = Cardinality(D)
  <2> HIDE DEF D
  <2> QED
    BY <1>10, <1>11, FS_Bijection
<1>13. <<i, 1>> \in Due(q) <=> Head(q[i]).op = "deduct"
  BY <1>3 DEF Due
<1>14. Cardinality(Due(q)) \in Nat
  BY FS_CardinalityType
<1>15. DOMAIN q' = Instances /\ q' = [j \in Instances |-> q'[j]]
  BY <1>1
<1>16. Cardinality(Due(q)) = Cardinality(Due(q')) + (IF Head(q[i]).op = "deduct" THEN 1 ELSE 0)
  BY <1>11, <1>12, <1>13, <1>14
<1> QED
  BY <1>5, <1>6, <1>12, <1>15, <1>16

(* The initial state: nothing is due.                                      *)
LEMMA FleetInit == Funded /\ F!Init => FleetInv
<1> SUFFICES ASSUME Funded, F!Init PROVE FleetInv
  OBVIOUS
<1>1. FleetTypes
  BY EmptyQueue DEF F!Init, FleetTypes, Funded, Queue
<1>2. Due(q) = {}
  BY DEF F!Init, Due
<1>3. IsFiniteSet(Due(q)) /\ Cardinality(Due(q)) = 0
  BY <1>2, FS_EmptySet
<1>4. budget["call"] \in Nat
  BY <1>1 DEF FleetTypes, F!Ops
<1>5. Price * (budget["call"] - left["call"]) = 0
  BY <1>4 DEF F!Init, Funded
<1>6. Price * Cardinality(Due(q)) = 0
  BY <1>3 DEF Funded
<1>7. Books
  BY <1>3, <1>5, <1>6 DEF F!Init, Books, Funded
<1> QED
  BY <1>1, <1>7 DEF FleetInv

(* What may happen becomes less, one by one; what spoils the balance shows.*)
LEMMA Spent ==
    ASSUME FleetTypes, NEW op \in F!Ops, F!Spend(op), budget' = budget
    PROVE  /\ left' \in [F!Ops -> Nat] /\ \A o \in F!Ops : left'[o] <= budget'[o]
           /\ Unspoiled' => Unspoiled /\ op \notin Spoilers
           /\ \A o \in F!Ops \ {op} : left'[o] = left[o]
           /\ left[op] > 0 /\ left'[op] = left[op] - 1
<1>1. Spoilers \subseteq F!Ops
  BY DEF Spoilers, F!Ops
<1>2. /\ left' \in [F!Ops -> Nat] /\ \A o \in F!Ops : left'[o] <= budget'[o]
      /\ \A o \in F!Ops \ {op} : left'[o] = left[o]
      /\ left[op] > 0 /\ left'[op] = left[op] - 1
  BY DEF F!Spend, FleetTypes
<1>3. op \in Spoilers => ~Unspoiled'
  BY <1>2 DEF Unspoiled, FleetTypes
<1>4. op \notin Spoilers => (Unspoiled' => Unspoiled)
  BY <1>1, <1>2 DEF Unspoiled
<1> QED
  BY <1>2, <1>3, <1>4

(* The books go on when commands are sent that charge nothing.             *)
LEMMA Harmless ==
    ASSUME Books, UNCHANGED <<rds, tally, budget>>, left'["call"] = left["call"],
           Due(q') = Due(q), NEW cmd, cmd.op \notin {"save", "revoke"},
           \A j \in Instances : \A n \in 1..Len(q'[j]) :
              (n \in 1..Len(q[j]) /\ q'[j][n] = q[j][n]) \/ q'[j][n] = cmd
    PROVE  Books'
BY DEF Books

(* A command that charges nothing is sent, in a step that spends nothing or*)
(* something that does not spoil.                                          *)
LEMMA SendsHarmless ==
    ASSUME FleetInv, NEW i \in Instances, NEW cmd, F!Send(i, cmd),
           cmd.op \notin {"deduct", "save", "revoke"}, UNCHANGED <<rds, tally, budget>>,
           \/ left' = left
           \/ \E op \in {"topUp", "autoTopup", "rotate"} : F!Spend(op)
    PROVE  FleetInv'
<1>1. {"topUp", "autoTopup", "rotate"} \subseteq F!Ops /\ "call" \in F!Ops
  BY DEF F!Ops
<1>2. /\ left' \in [F!Ops -> Nat] /\ \A o \in F!Ops : left'[o] <= budget'[o]
      /\ Unspoiled' => Unspoiled
      /\ left'["call"] = left["call"]
  <2>1. CASE left' = left
    BY <1>1, <2>1 DEF FleetInv, FleetTypes, Unspoiled
  <2>2. ASSUME NEW op \in {"topUp", "autoTopup", "rotate"}, F!Spend(op)
        PROVE  /\ left' \in [F!Ops -> Nat] /\ \A o \in F!Ops : left'[o] <= budget'[o]
               /\ Unspoiled' => Unspoiled
               /\ left'["call"] = left["call"]
    BY <1>1, <2>2, Spent DEF FleetInv
  <2> QED
    BY <2>1, <2>2
<1>3. /\ DOMAIN q' = Instances /\ q' = [j \in Instances |-> q'[j]]
      /\ \A j \in Instances : Queue(q'[j])
      /\ \A j \in Instances : \A n \in 1..Len(q'[j]) :
            (n \in 1..Len(q[j]) /\ q'[j][n] = q[j][n]) \/ q'[j][n] = cmd
      /\ Due(q') = Due(q)
  BY Sent DEF FleetInv
<1>4. FleetTypes'
  BY <1>2, <1>3 DEF FleetInv, FleetTypes
<1>5. Unspoiled' => Books'
  BY <1>2, <1>3, Harmless DEF FleetInv
<1> QED
  BY <1>4, <1>5 DEF FleetInv

(* An admitted call is charged: what is due grows by what it takes.        *)
LEMMA CallBooks ==
    ASSUME Funded, FleetInv, NEW i \in Instances, F!Call(i)
    PROVE  FleetInv'
<1>1. /\ F!Spend("call") /\ "call" \in F!Ops /\ F!Send(i, [op |-> "deduct"])
      /\ tally' = [tally EXCEPT !.taken = @ + Price] /\ UNCHANGED <<rds, budget>>
  BY DEF F!Call, F!Ops
<1>2. /\ left' \in [F!Ops -> Nat] /\ \A o \in F!Ops : left'[o] <= budget'[o]
      /\ Unspoiled' => Unspoiled
      /\ left["call"] > 0 /\ left'["call"] = left["call"] - 1
  BY <1>1, Spent DEF FleetInv
<1> DEFINE p == <<i, Len(q[i]) + 1>>
<1>3. /\ DOMAIN q' = Instances /\ q' = [j \in Instances |-> q'[j]]
      /\ \A j \in Instances : Queue(q'[j])
      /\ \A j \in Instances : \A n \in 1..Len(q'[j]) :
            (n \in 1..Len(q[j]) /\ q'[j][n] = q[j][n]) \/ q'[j][n] = [op |-> "deduct"]
      /\ Due(q') = Due(q) \cup {p} /\ p \notin Due(q)
  BY <1>1, Sent DEF FleetInv
<1>4. FleetTypes'
  BY <1>1, <1>2, <1>3 DEF FleetInv, FleetTypes
<1>5. ASSUME Books PROVE Books'
  <2>1. /\ IsFiniteSet(Due(q')) /\ Cardinality(Due(q')) = Cardinality(Due(q)) + 1
        /\ Cardinality(Due(q)) \in Nat
    <3> HIDE DEF p
    <3> QED
      BY <1>3, <1>5, FS_AddElement, FS_CardinalityType DEF Books
  <2>2. /\ tally' \in [taken : Int, added : Nat] /\ tally'.taken = tally.taken + Price
        /\ tally'.added = tally.added /\ tally.taken \in Int /\ tally.added \in Nat
    BY <1>1, <1>5 DEF Books, Funded
  <2>3. tally'.taken = Price * (budget'["call"] - left'["call"])
    <3>1. \A x, b, l \in Int : x = Price * (b - l) => x + Price = Price * (b - (l - 1))
      BY DEF Funded
    <3>2. budget["call"] \in Int /\ left["call"] \in Int
      BY <1>1 DEF FleetInv, FleetTypes
    <3> QED
      BY <1>1, <1>2, <1>5, <2>2, <3>1, <3>2 DEF Books
  <2>4. Price * Cardinality(Due(q')) = Price * Cardinality(Due(q)) + Price
        /\ Price * Cardinality(Due(q)) \in Int
    BY <2>1 DEF Funded
  <2>5. rds'.credits = Initial + tally'.added - tally'.taken + Price * Cardinality(Due(q'))
    BY <1>1, <1>5, <2>2, <2>4 DEF Books, Funded
  <2>6. \A j \in Instances : \A n \in 1..Len(q'[j]) : q'[j][n].op \notin {"save", "revoke"}
    BY <1>3, <1>5 DEF Books
  <2> QED
    BY <1>1, <1>5, <2>1, <2>2, <2>3, <2>5, <2>6 DEF Books
<1> QED
  BY <1>2, <1>4, <1>5 DEF FleetInv

(* Redis executes a command: a charge finds the credits for it, because    *)
(* what is due is held, and a top-up is added and counted.                 *)
LEMMA ExecBooks ==
    ASSUME Funded, FleetInv, NEW i \in Instances, F!Exec(i)
    PROVE  FleetInv'
<1>1. /\ q[i] # <<>> /\ q' = [q EXCEPT ![i] = Tail(q[i])]
      /\ UNCHANGED <<budget, left>>
  BY DEF F!Exec
<1>2. CASE ~Unspoiled
  <2>1. FleetTypes'
    <3>1. DOMAIN q' = Instances /\ q' = [j \in Instances |-> q'[j]]
      BY <1>1 DEF FleetInv, FleetTypes
    <3>2. Queue(q'[i])
      <4>1. PICK S : q[i] \in Seq(S)
        BY DEF FleetInv, FleetTypes, Queue
      <4>2. q'[i] \in Seq(S)
        BY <1>1, <4>1 DEF FleetInv, FleetTypes
      <4> QED
        BY <4>2 DEF Queue
    <3>3. \A j \in Instances : Queue(q'[j])
      BY <1>1, <3>2 DEF FleetInv, FleetTypes
    <3> QED
      BY <1>1, <3>1, <3>3 DEF FleetInv, FleetTypes
  <2> QED
    BY <1>1, <1>2, <2>1 DEF FleetInv, Unspoiled
<1>3. CASE Unspoiled
  <2>0. FleetTypes /\ Books
    BY <1>3 DEF FleetInv
  <2>1. /\ DOMAIN q' = Instances /\ q' = [j \in Instances |-> q'[j]]
        /\ \A j \in Instances : Queue(q'[j])
        /\ \A j \in Instances : \A n \in 1..Len(q'[j]) :
              \E m \in 1..Len(q[j]) : q'[j][n] = q[j][m]
        /\ IsFiniteSet(Due(q'))
        /\ Cardinality(Due(q)) = Cardinality(Due(q'))
                                    + (IF Head(q[i]).op = "deduct" THEN 1 ELSE 0)
    BY <1>1, <2>0, Executed DEF Books
  <2>2. FleetTypes'
    BY <1>1, <2>0, <2>1 DEF FleetTypes
  <2>3. Head(q[i]).op \notin {"save", "revoke"}
    <3>1. Len(q[i]) > 0 /\ Len(q[i]) \in Nat /\ Head(q[i]) = q[i][1]
      <4>1. PICK S : q[i] \in Seq(S)
        BY <2>0 DEF FleetTypes, Queue
      <4> QED
        BY <1>1, <4>1
    <3> QED
      BY <2>0, <3>1 DEF Books
  <2>4. \A j \in Instances : \A n \in 1..Len(q'[j]) : q'[j][n].op \notin {"save", "revoke"}
    BY <2>0, <2>1 DEF Books
  <2>5. Cardinality(Due(q')) \in Nat /\ Cardinality(Due(q)) \in Nat
    BY <2>0, <2>1, FS_CardinalityType DEF Books
  <2>6. rds.credits \in Int /\ rds.active = TRUE /\ tally.taken \in Int /\ tally.added \in Nat
    BY <2>0 DEF Books
  <2> DEFINE before == Price * Cardinality(Due(q))
             after == Price * Cardinality(Due(q'))
  <2>7. before = after + (IF Head(q[i]).op = "deduct" THEN Price ELSE 0)
    <3>1. \A n \in Nat : Price * (n + 1) = Price * n + Price /\ Price * n \in Nat
      BY DEF Funded
    <3>2. CASE Head(q[i]).op = "deduct"
      <4>1. Cardinality(Due(q)) = Cardinality(Due(q')) + 1
        BY <2>1, <3>2
      <4> QED
        BY <2>5, <3>1, <3>2, <4>1
    <3>3. CASE Head(q[i]).op # "deduct"
      <4>1. Cardinality(Due(q)) = Cardinality(Due(q'))
        BY <2>1, <2>5, <3>3
      <4> QED
        BY <2>5, <3>1, <3>3, <4>1
    <3> QED
      BY <3>2, <3>3
  <2>8. before \in Nat /\ after \in Nat
    BY <2>5 DEF Funded
  <2>b. rds.credits = Initial + tally.added - tally.taken + before
    BY <2>0 DEF Books
  <2>f. Initial \in Nat /\ Price \in Nat /\ TopUpAmount \in Nat
    BY DEF Funded
  <2>r. /\ rds \in [credits : Int, active : BOOLEAN] /\ rds.active = TRUE
        /\ tally \in [taken : Int, added : Nat]
    BY <2>0 DEF Books
  <2> HIDE DEF before, after
  <2>9. \/ /\ Head(q[i]).op = "deduct" /\ tally' = tally
           /\ rds' = [rds EXCEPT !.credits = @ - Price]
        \/ /\ Head(q[i]).op = "topup"
           /\ tally' = [tally EXCEPT !.added = @ + TopUpAmount]
           /\ rds' = [rds EXCEPT !.credits = @ + TopUpAmount]
        \/ /\ Head(q[i]).op \notin {"deduct", "topup"} /\ tally' = tally /\ rds' = rds
    <3>1. Head(q[i]).op = "topup" => tally' = [tally EXCEPT !.added = @ + TopUpAmount]
      BY <2>6 DEF F!Exec
    <3>2. Head(q[i]).op # "topup" => tally' = tally
      BY DEF F!Exec
    <3>3. CASE Head(q[i]).op = "deduct"
      <4>1. rds.credits >= Price
        <5>1. tally.taken <= Initial
          <6>1. budget["call"] \in Nat /\ left["call"] \in Nat /\ left["call"] <= budget["call"]
            BY <2>0 DEF FleetTypes, F!Ops
          <6>2. \A b, l \in Nat : l <= b => Price * (b - l) <= Price * b
            <7>1. \A b, l \in Nat : Price * (b - l) = Price * b - Price * l /\ Price * l \in Nat
                                    /\ Price * b \in Nat
              BY DEF Funded
            <7> QED
              BY <7>1
          <6>3. tally.taken <= Price * budget["call"]
            <7>1. tally.taken = Price * (budget["call"] - left["call"])
              BY <2>0 DEF Books
            <7> QED
              BY <6>1, <6>2, <7>1
          <6>4. Price * budget["call"] \in Int /\ Price * budget["call"] <= Initial
            BY <2>0, <6>1 DEF FleetTypes, Funded
          <6> QED
            BY <2>6, <6>3, <6>4 DEF Funded
        <5> QED
          BY <2>b, <2>6, <2>7, <2>8, <3>3, <5>1 DEF Funded
      <4>2. rds' = F!RedisDeduct(i)
        BY <2>6, <3>3, <4>1 DEF F!Exec
      <4> QED
        BY <3>2, <3>3, <4>2 DEF F!RedisDeduct
    <3>4. CASE Head(q[i]).op = "topup"
      BY <2>6, <3>1, <3>4 DEF F!Exec
    <3>5. CASE Head(q[i]).op \notin {"deduct", "topup"}
      BY <2>3, <3>2, <3>5 DEF F!Exec
    <3> QED
      BY <3>3, <3>4, <3>5
  <2>10. /\ rds' \in [credits : Int, active : BOOLEAN] /\ rds'.active = TRUE
         /\ tally' \in [taken : Int, added : Nat]
         /\ tally'.taken = tally.taken
         /\ rds'.credits = Initial + tally'.added - tally'.taken + after
    <3>1. CASE /\ Head(q[i]).op = "deduct" /\ tally' = tally
               /\ rds' = [rds EXCEPT !.credits = @ - Price]
      <4>1. /\ rds' \in [credits : Int, active : BOOLEAN] /\ rds'.active = TRUE
            /\ rds'.credits = rds.credits - Price
        BY <2>f, <2>r, <3>1
      <4>2. tally' \in [taken : Int, added : Nat] /\ tally'.taken = tally.taken
        BY <2>r, <3>1
      <4>3. before = after + Price
        BY <2>7, <3>1
      <4>4. rds'.credits = Initial + tally'.added - tally'.taken + after
        BY <2>b, <2>f, <2>6, <2>8, <3>1, <4>1, <4>3
      <4> QED
        BY <4>1, <4>2, <4>4
    <3>2. CASE /\ Head(q[i]).op = "topup"
               /\ tally' = [tally EXCEPT !.added = @ + TopUpAmount]
               /\ rds' = [rds EXCEPT !.credits = @ + TopUpAmount]
      <4>1. /\ rds' \in [credits : Int, active : BOOLEAN] /\ rds'.active = TRUE
            /\ rds'.credits = rds.credits + TopUpAmount
        BY <2>f, <2>r, <3>2
      <4>2. /\ tally' \in [taken : Int, added : Nat] /\ tally'.taken = tally.taken
            /\ tally'.added = tally.added + TopUpAmount
        BY <2>f, <2>r, <3>2
      <4>3. before = after
        BY <2>7, <2>8, <3>2
      <4>4. rds'.credits = Initial + tally'.added - tally'.taken + after
        BY <2>b, <2>f, <2>6, <2>8, <4>1, <4>2, <4>3
      <4> QED
        BY <4>1, <4>2, <4>4
    <3>3. CASE Head(q[i]).op \notin {"deduct", "topup"} /\ tally' = tally /\ rds' = rds
      <4>1. rds' \in [credits : Int, active : BOOLEAN] /\ rds'.active = TRUE
        BY <2>r, <3>3
      <4>2. tally' \in [taken : Int, added : Nat] /\ tally'.taken = tally.taken
        BY <2>r, <3>3
      <4>3. before = after
        BY <2>7, <2>8, <3>3
      <4>4. rds'.credits = Initial + tally'.added - tally'.taken + before
        BY <2>b, <3>3
      <4> QED
        BY <4>1, <4>2, <4>3, <4>4
    <3> QED
      BY <2>9, <3>1, <3>2, <3>3
  <2>11. Books'
    BY <1>1, <2>0, <2>1, <2>4, <2>10 DEF Books, after
  <2> QED
    BY <2>2, <2>11 DEF FleetInv
<1> QED
  BY <1>2, <1>3

(* Every step keeps the books, or spoils them and shows.                   *)
LEMMA FleetStep == Funded /\ FleetInv /\ [F!Next]_F!vars => FleetInv'
<1> SUFFICES ASSUME Funded, FleetInv, [F!Next]_F!vars PROVE FleetInv'
  OBVIOUS
<1>0. F!Ops \cap Spoilers = Spoilers /\ "lost" \in F!Ops
  BY DEF F!Ops, Spoilers
<1>1. ASSUME UNCHANGED <<rds, q, budget, left, tally>> PROVE FleetInv'
  BY <1>1 DEF FleetInv, FleetTypes, Unspoiled, Books
<1>2. ASSUME NEW op \in Spoilers, F!Spend(op), budget' = budget,
             DOMAIN q' = Instances, q' = [j \in Instances |-> q'[j]],
             \A j \in Instances : Queue(q'[j])
      PROVE  FleetInv'
  <2>1. /\ left' \in [F!Ops -> Nat] /\ ~Unspoiled'
        /\ \A o \in F!Ops : left'[o] <= budget'[o]
    BY <1>0, <1>2, Spent DEF FleetInv
  <2> QED
    BY <1>2, <2>1 DEF FleetInv, FleetTypes
<1>3. ASSUME NEW i \in Instances, NEW cmd, NEW op \in Spoilers,
             F!Spend(op), budget' = budget, F!Send(i, cmd)
      PROVE  FleetInv'
  <2>1. /\ DOMAIN q' = Instances /\ q' = [j \in Instances |-> q'[j]]
        /\ \A j \in Instances : Queue(q'[j])
    BY <1>3, Sent DEF FleetInv
  <2> QED
    BY <1>2, <1>3, <2>1
<1>4. ASSUME NEW i \in Instances, F!Call(i) PROVE FleetInv'
  BY <1>4, CallBooks
<1>5. ASSUME NEW i \in Instances, F!Refund(i) PROVE FleetInv'
  BY <1>2, <1>5 DEF F!Refund, FleetInv, FleetTypes, Spoilers
<1>6. ASSUME NEW i \in Instances, F!TopUp(i) \/ F!AutoTopup(i) PROVE FleetInv'
  <2>1. /\ \E op \in {"topUp", "autoTopup", "rotate"} : F!Spend(op)
        /\ F!Send(i, [op |-> "topup"]) /\ UNCHANGED <<rds, tally, budget>>
    BY <1>6 DEF F!TopUp, F!AutoTopup
  <2> QED
    BY <2>1, SendsHarmless
<1>7. ASSUME NEW i \in Instances, F!AdminSave(i) \/ F!Suspend(i) PROVE FleetInv'
  BY <1>3, <1>7 DEF F!AdminSave, F!Suspend, Spoilers
<1>8. ASSUME NEW i \in Instances, F!Revoke(i) PROVE FleetInv'
  BY <1>3, <1>8 DEF F!Revoke, Spoilers
<1>9. ASSUME NEW e PROVE F!Publish(e).op = "publish"
  BY DEF F!Publish
<1>10. ASSUME NEW i \in Instances, F!Rotate(i) PROVE FleetInv'
  <2>1. /\ \E op \in {"topUp", "autoTopup", "rotate"} : F!Spend(op)
        /\ F!Send(i, F!Publish([type |-> "key_revoked"])) /\ UNCHANGED <<rds, tally, budget>>
    BY <1>10 DEF F!Rotate
  <2> QED
    BY <1>9, <2>1, SendsHarmless
<1>11. ASSUME NEW i \in Instances, F!Refresh(i) PROVE FleetInv'
  <2>1. F!Send(i, [op |-> "get"]) /\ UNCHANGED <<rds, tally, budget, left>>
    BY <1>11 DEF F!Refresh
  <2> QED
    BY <2>1, SendsHarmless
<1>12. ASSUME NEW i \in Instances, F!Exec(i) PROVE FleetInv'
  BY <1>12, ExecBooks
<1>13. ASSUME NEW i \in Instances, F!Handle(i) PROVE FleetInv'
  <2>1. UNCHANGED <<rds, tally, budget, left>>
    BY <1>13 DEF F!Handle
  <2>2. q' = q \/ \E e : F!Send(i, F!Publish(e))
    BY <1>13 DEF F!Handle, F!CreditsChanged
  <2> QED
    BY <1>1, <1>9, <2>1, <2>2, SendsHarmless
<1>14. ASSUME NEW i \in Instances, F!Event(i) PROVE FleetInv'
  <2>1. UNCHANGED <<rds, tally, budget, left>>
    BY <1>14 DEF F!Event
  <2>2. q' = q \/ F!Send(i, [op |-> "get"])
    BY <1>14 DEF F!Event
  <2> QED
    BY <1>1, <2>1, <2>2, SendsHarmless
<1>15. ASSUME NEW i \in Instances, F!Outage(i) PROVE FleetInv'
  <2>1. F!Spend("outage") /\ budget' = budget /\ q' = [q EXCEPT ![i] = <<>>]
    BY <1>15 DEF F!Outage
  <2>2. /\ DOMAIN q' = Instances /\ q' = [j \in Instances |-> q'[j]]
        /\ \A j \in Instances : Queue(q'[j])
    BY <2>1, EmptyQueue DEF FleetInv, FleetTypes, Queue
  <2> QED
    BY <1>2, <2>1, <2>2 DEF Spoilers
<1>16. ASSUME NEW i \in Instances, F!SubscriberLost(i) PROVE FleetInv'
  <2>1. F!Spend("lost") /\ UNCHANGED <<rds, q, budget, tally>>
    BY <1>16 DEF F!SubscriberLost
  <2>2. /\ left' \in [F!Ops -> Nat] /\ \A o \in F!Ops : left'[o] <= budget'[o]
        /\ Unspoiled' => Unspoiled
        /\ \A o \in F!Ops \ {"lost"} : left'[o] = left[o]
    BY <1>0, <2>1, Spent DEF FleetInv
  <2>3. left'["call"] = left["call"]
    BY <2>2 DEF F!Ops
  <2> QED
    BY <2>1, <2>2, <2>3 DEF FleetInv, FleetTypes, Books
<1>17. CASE UNCHANGED F!vars
  BY <1>1, <1>17 DEF F!vars
<1> QED
  BY <1>4, <1>5, <1>6, <1>7, <1>8, <1>10, <1>11, <1>12, <1>13, <1>14, <1>15, <1>16, <1>17
  DEF F!Next, F!Operation, F!Failure

(* When nothing is under way Redis holds the first credits and the top-ups *)
(* less the calls (DEDUCT_LUA, TOPUP_LUA, handlePubSubMessage of           *)
(* redis-sync.ts), for any number of instances, whatever order replies and *)
(* events come in, as long as the first credits pay for the calls.         *)
THEOREM FleetKeepsBalance ==
    ASSUME Funded
    PROVE  F!Spec => []FleetBalance
<1>1. F!Init => FleetInv
  BY FleetInit
<1>2. FleetInv /\ [F!Next]_F!vars => FleetInv'
  BY FleetStep
<1>3. FleetInv => FleetBalance
  <2> SUFFICES ASSUME FleetInv, F!Quiet,
                      \A op \in {"refund", "save", "suspend", "revoke", "outage"} :
                         left[op] = budget[op]
               PROVE  rds.credits = Initial + tally.added - tally.taken
    BY DEF FleetBalance, F!FleetBalance
  <2>1. Books
    BY DEF FleetInv, Unspoiled, Spoilers
  <2>2. Due(q) = {}
    BY DEF F!Quiet, Due
  <2>3. Cardinality(Due(q)) = 0
    BY <2>2, FS_EmptySet
  <2>4. Price * Cardinality(Due(q)) = 0 /\ rds.credits \in Int
        /\ tally.taken \in Int /\ tally.added \in Int
    BY <2>1, <2>3 DEF Funded, Books
  <2> QED
    BY <2>1, <2>4 DEF Books, Funded
<1> QED
  BY <1>1, <1>2, <1>3, PTL DEF F!Spec
=============================================================================
