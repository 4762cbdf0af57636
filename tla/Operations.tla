----------------------------- MODULE Operations -----------------------------
(***************************************************************************)
(* What operators do to a server that is running: they put it into         *)
(* maintenance and drain it (server.ts), take and restore backups          *)
(* (backup.ts and its provider in server.ts), and reload its configuration *)
(* (server.ts, gate.ts).  Beside it the tasks that agents send each other  *)
(* (a2a-protocol.ts), exported for embedding.  A behaviour is the life of  *)
(* one of them, `mgr`, and `s` is its state.  `seen` belongs to the        *)
(* observer.                                                               *)
(***************************************************************************)
EXTENDS Integers, Sequences, FiniteSets, SequencesExt, FiniteSetsExt, Functions

CONSTANTS Keys, Aliases,    \* API keys and their aliases
          Names,            \* of teams and groups
          Urls, Filters,    \* of webhooks
          DrainTimeout,     \* how long gracefulStop waits for calls
          MaxTasks,         \* tasks that A2AManager keeps
          MaxOps, MaxClock  \* bounds: of calls and of time, by manager

VARIABLES mgr, s, seen, now, ops

vars == <<mgr, s, seen, now, ops>>

Call(m) == /\ mgr = m /\ ops < MaxOps[m] /\ ops' = ops + 1
           /\ UNCHANGED <<mgr, now>>
Event(m) == mgr = m /\ UNCHANGED <<mgr, now, ops>>       \* a timer or an answer

Never == -1
None == "none"
Without(f, K) == [k \in DOMAIN f \ K |-> f[k]]
With(f, k, v) == [j \in DOMAIN f \cup {k} |-> IF j = k THEN v ELSE f[j]]
-----------------------------------------------------------------------------
(* Maintenance and shutdown.  A call is counted from its admission until   *)
(* its connection closes; the drain looks at the count every 100 ms.       *)
(* seen.admitted: the calls that were open when the door was closed, by    *)
(* maintenance and by the drain.                                           *)

DrainInit ==
    /\ mgr = "drain"
    /\ s = [maintenance |-> FALSE, since |-> Never, draining |-> Never, down |-> FALSE,
            open |-> {}]
    /\ seen = [calls |-> 0, audit |-> <<>>, admitted |-> [maintenance |-> {}, drain |-> {}],
               cut |-> {}, waited |-> 0]

(* Slip: only maintenance turns calls away.                                *)
AdmitsDraining == ~s.maintenance

Admits == s.draining = Never /\ ~s.maintenance
Arrive == /\ Call("drain")
          /\ seen' = [seen EXCEPT !.calls = @ + 1]
          /\ IF Admits THEN s' = [s EXCEPT !.open = @ \cup {seen.calls}] ELSE UNCHANGED s
Close(c) == /\ Event("drain") /\ c \in s.open
            /\ s' = [s EXCEPT !.open = @ \ {c}] /\ UNCHANGED seen

(* Slip: every request is put on record, whether it changes the mode or    *)
(* not.                                                                    *)
AuditedAlways(on) == Append(seen.audit, on)

Audited(on) == IF on = s.maintenance THEN seen.audit ELSE Append(seen.audit, on)
SetMaintenance(on) ==
    /\ Call("drain")
    /\ s' = [s EXCEPT !.maintenance = on, !.since = IF on THEN now ELSE Never]
    /\ seen' = [seen EXCEPT !.audit = Audited(on),
                            !.admitted.maintenance = IF s.maintenance THEN @ ELSE s.open]
GracefulStop ==
    /\ Call("drain") /\ s.draining = Never
    /\ s' = [s EXCEPT !.draining = now]
    /\ seen' = [seen EXCEPT !.admitted.drain = s.open]

(* Slip: one look too early.                                               *)
DrainedSoon == s.open = {} \/ now - s.draining >= DrainTimeout - 1

Drained == s.open = {} \/ now - s.draining >= DrainTimeout
TearDown == /\ Event("drain") /\ s.draining # Never /\ ~s.down /\ Drained
            /\ s' = [s EXCEPT !.down = TRUE]
            /\ seen' = [seen EXCEPT !.cut = s.open, !.waited = now - s.draining]
-----------------------------------------------------------------------------
(* Backup and restore.  Keys are kept in the order of their Map, which the *)
(* index of aliases is rebuilt in.  Of a record: its credits, its alias,   *)
(* and whether it has a webhook, one of the fields that an import forgets. *)
(* Identifiers of teams and groups are random, here numbers given once.    *)
(* seen.taken: the keys at the backup; seen.before: the state before a     *)
(* restore that nothing has followed; seen.odd: an alias was refused, or  *)
(* a restore gave one to two keys.                                         *)

NoBackup == [taken |-> FALSE]
NoRestore == [mode |-> None]
EmptyStore == [keys |-> <<>>, index |-> <<>>, teams |-> <<>>, groups |-> <<>>, member |-> <<>>]
SnapshotInit == /\ mgr = "snapshot"
                /\ s = [store |-> EmptyStore, backup |-> NoBackup]
                /\ seen = [ids |-> 0, taken |-> <<>>, before |-> NoRestore, odd |-> FALSE]

Store == s.store
KeyNames(keys) == {keys[i].key : i \in DOMAIN keys}
At(keys, k) == CHOOSE i \in DOMAIN keys : keys[i].key = k
Rec(keys, k) == keys[At(keys, k)]
Ids(list) == {list[i].id : i \in DOMAIN list}
Active(list) == SelectSeq(list, LAMBDA x : x.active)
Followed == [seen EXCEPT !.before = NoRestore]

Edit(store) == Call("snapshot") /\ s' = [s EXCEPT !.store = store]

CreateKey(k) == /\ k \notin KeyNames(Store.keys) /\ seen' = Followed
                /\ Edit([Store EXCEPT !.keys = Append(@, [key |-> k, credits |-> 2, alias |-> None,
                                                          webhook |-> FALSE])])
UseKey(k) == /\ k \in KeyNames(Store.keys) /\ Rec(Store.keys, k).credits > 0 /\ seen' = Followed
             /\ Edit([Store EXCEPT !.keys[At(Store.keys, k)].credits = @ - 1])
SetKeyWebhook(k) == /\ k \in KeyNames(Store.keys) /\ seen' = Followed
                    /\ Edit([Store EXCEPT !.keys[At(Store.keys, k)].webhook = TRUE])

(* The old alias is out of the index before the new one is looked at.      *)
SetAlias(k, a) ==
    /\ k \in KeyNames(Store.keys)
    /\ LET old == Rec(Store.keys, k).alias
           index == Without(Store.index, {old})
           taken == a \in DOMAIN index /\ index[a] # k
       IN  /\ Edit(IF taken THEN [Store EXCEPT !.index = index]
                   ELSE [Store EXCEPT !.keys[At(Store.keys, k)].alias = a,
                                      !.index = IF a = None THEN index ELSE With(index, a, k)])
           /\ seen' = [Followed EXCEPT !.odd = @ \/ (taken /\ old # None)]

NewId == seen.ids + 1
CreateTeam(n) == /\ Edit([Store EXCEPT !.teams = Append(@, [id |-> NewId, name |-> n, active |-> TRUE])])
                 /\ seen' = [Followed EXCEPT !.ids = NewId]
DeleteTeam(i) == /\ i \in DOMAIN Store.teams /\ Store.teams[i].active
                 /\ Edit([Store EXCEPT !.teams[i].active = FALSE]) /\ seen' = Followed

(* Slip: names are not compared.                                           *)
NameFreeAlways(groups, n) == TRUE

NameFree(groups, n) == \A i \in DOMAIN groups : groups[i].active => groups[i].name # n
CreateGroup(n) ==
    /\ NameFree(Store.groups, n)
    /\ Edit([Store EXCEPT !.groups = Append(@, [id |-> NewId, name |-> n, active |-> TRUE])])
    /\ seen' = [Followed EXCEPT !.ids = NewId]
DeleteGroup(i) ==
    /\ i \in DOMAIN Store.groups /\ Store.groups[i].active /\ seen' = Followed
    /\ Edit([Store EXCEPT !.groups[i].active = FALSE,
                          !.member = Without(@, {k \in DOMAIN @ : @[k] = Store.groups[i].id})])
AssignKey(k, i) == /\ k \in KeyNames(Store.keys) /\ i \in DOMAIN Store.groups /\ Store.groups[i].active
                   /\ Edit([Store EXCEPT !.member = With(@, k, Store.groups[i].id)]) /\ seen' = Followed

CreateSnapshot ==
    /\ Call("snapshot") /\ seen' = [Followed EXCEPT !.taken = Store.keys]
    /\ s' = [s EXCEPT !.backup = [taken |-> TRUE, whole |-> TRUE, keys |-> Store.keys,
                                  teams |-> Active(Store.teams), groups |-> Active(Store.groups)]]
Damage == /\ Call("snapshot") /\ s.backup.taken /\ s.backup.whole /\ s.backup.keys # <<>>
          /\ s' = [s EXCEPT !.backup.whole = FALSE, !.backup.keys[1].credits = @ + 5]
          /\ seen' = Followed
NewServer == /\ s.backup.taken /\ Edit(EmptyStore) /\ seen' = [Followed EXCEPT !.odd = FALSE]

Sanitized(r) == [r EXCEPT !.webhook = FALSE]

(* Slip: the record that is there is changed and not replaced.             *)
ImportedOver(keys, r, mode) ==
    IF r.key \notin KeyNames(keys) THEN Append(keys, Sanitized(r))
    ELSE [keys EXCEPT ![At(keys, r.key)] = [Sanitized(r) EXCEPT !.credits = keys[At(keys, r.key)].credits]]

Imported(keys, r, mode) ==
    IF r.key \notin KeyNames(keys) THEN Append(keys, Sanitized(r))
    ELSE IF mode # "overwrite" THEN keys
    ELSE [keys EXCEPT ![At(keys, r.key)] = Sanitized(r)]
(* Slip: the index keeps what it had.                                      *)
RebuiltOver(keys, index) == index

(* rebuildAliasIndex: of two keys with an alias, the later one has it.     *)
Rebuilt(keys, index) ==
    LET with == SelectSeq(keys, LAMBDA r : r.alias # None)
    IN  FoldLeft(LAMBDA f, r : With(f, r.alias, r.key), <<>>, with)
ImportKeys(store, keys, mode) ==
    LET all == FoldLeft(LAMBDA acc, r : Imported(acc, r, mode), store.keys, keys)
    IN  [store EXCEPT !.keys = all, !.index = Rebuilt(all, @)]

(* What is known by its identifier is skipped, also when it was deleted;   *)
(* the rest is made anew.  Groups of a name that is taken are errors.      *)
Made(list, x, mode, isFree) ==
    IF (mode = "skip" /\ x.id \in Ids(list)) \/ ~isFree THEN list
    ELSE Append(list, [x EXCEPT !.id = seen.ids + 1 + Len(list)])
ImportTeams(list, teams, mode) == FoldLeft(LAMBDA acc, t : Made(acc, t, mode, TRUE), list, teams)
ImportGroups(list, groups, mode) ==
    FoldLeft(LAMBDA acc, g : Made(acc, g, mode, NameFree(acc, g.name)), list, groups)

AliasesUnique(keys) == \A i, j \in DOMAIN keys :
    i # j /\ keys[i].alias # None => keys[i].alias # keys[j].alias

ImportMode(mode) == IF mode = "merge" THEN "skip" ELSE "overwrite"
(* Slip: the checksum is not compared.                                     *)
ValidAlways == s.backup.taken

(* validateSnapshot: the data match their checksum.                        *)
Valid == s.backup.taken /\ s.backup.whole
RestoreFromSnapshot(mode) ==
    /\ Valid
    /\ LET m == ImportMode(mode)
           b == s.backup
           withKeys == IF b.keys = <<>> THEN Store ELSE ImportKeys(Store, b.keys, m)
           store == [withKeys EXCEPT !.teams = ImportTeams(@, b.teams, m),
                                     !.groups = ImportGroups(@, b.groups, m)]
       IN  /\ Edit(store)
           /\ seen' = [seen EXCEPT
                         !.ids = @ + Len(store.teams) + Len(store.groups) + 1,
                         !.before = [mode |-> mode, store |-> Store],
                         !.odd = IF b.keys = <<>> THEN @ ELSE ~AliasesUnique(store.keys)]

(* /keys/import with the keys of the backup.                               *)
HandleKeyImport(mode) ==
    /\ s.backup.taken /\ s.backup.keys # <<>>
    /\ LET store == ImportKeys(Store, s.backup.keys, mode)
       IN  Edit(store) /\ seen' = [Followed EXCEPT !.odd = ~AliasesUnique(store.keys)]
-----------------------------------------------------------------------------
(* Reload of the configuration.  What runs is a copy of it: the limiter's  *)
(* limit, the alert engine's rules and the webhook router with the rules   *)
(* of its filters.  A url stands for the endpoint with its secret and its  *)
(* number of retries, which are compared alike.  Events are numbered; the  *)
(* default emitter has some in its buffer and some in its queue of         *)
(* retries.  seen.lost: events that went with their emitter; seen.failed:  *)
(* events refused once or held by a pause; made, removed and restored:     *)
(* filters changed since the router was built.                             *)

Absent == "absent"       \* a field the file does not have
NoRouter == [url |-> None, rules |-> {}, there |-> FALSE]
RouterOf(url, filters) == IF url = None /\ filters = {} THEN NoRouter
                          ELSE [url |-> url, rules |-> filters, there |-> TRUE]
Patched(old, new) == IF new = Absent THEN old ELSE new
NothingChanged == [made |-> {}, removed |-> {}, restored |-> {}]

ReloadInit ==
    /\ mgr = "reload"
    /\ \E url \in Urls \cup {None}, filters \in SUBSET Filters :
          s = [url |-> url, limit |-> "high", rules |-> "few", filters |-> filters,
               limiter |-> "high", engine |-> "few", router |-> RouterOf(url, filters),
               buffer |-> {}, retry |-> {}, paused |-> FALSE]
    /\ seen = [emitted |-> 0, sent |-> {}, lost |-> {}, failed |-> {}, byHand |-> FALSE,
               since |-> NothingChanged]

EmitEvent ==
    /\ Call("reload") /\ s.router.url # None
    /\ s' = [s EXCEPT !.buffer = @ \cup {seen.emitted}]
    /\ seen' = [seen EXCEPT !.emitted = @ + 1, !.failed = IF s.paused THEN @ \cup {seen.emitted} ELSE @]
Flush(ok) ==
    /\ Event("reload") /\ s.buffer # {} /\ ~s.paused
    /\ s' = [s EXCEPT !.buffer = {}, !.retry = IF ok THEN @ ELSE @ \cup s.buffer]
    /\ seen' = IF ok THEN [seen EXCEPT !.sent = @ \cup s.buffer]
               ELSE [seen EXCEPT !.failed = @ \cup s.buffer]
Retry == /\ Event("reload") /\ s.retry # {}
         /\ s' = [s EXCEPT !.retry = {}] /\ seen' = [seen EXCEPT !.sent = @ \cup s.retry]
PauseWebhook == /\ Call("reload") /\ s.router.url # None /\ ~s.paused
                /\ s' = [s EXCEPT !.paused = TRUE]
                /\ seen' = [seen EXCEPT !.failed = @ \cup s.buffer]
(* resume flushes what has gathered.                                       *)
ResumeWebhook(ok) ==
    /\ Call("reload") /\ s.router.url # None /\ s.paused
    /\ s' = [s EXCEPT !.paused = FALSE, !.buffer = {}, !.retry = IF ok THEN @ ELSE @ \cup s.buffer]
    /\ seen' = IF ok THEN [seen EXCEPT !.sent = @ \cup s.buffer] ELSE seen

CreateFilter(f) == /\ Call("reload") /\ s.router.there /\ f \notin s.router.rules
                   /\ s' = [s EXCEPT !.router.rules = @ \cup {f}]
                   /\ seen' = [seen EXCEPT !.since.made = @ \cup {f}]
DeleteFilter(f) == /\ Call("reload") /\ f \in s.router.rules
                   /\ s' = [s EXCEPT !.router.rules = @ \ {f}]
                   /\ seen' = [seen EXCEPT !.since.removed = @ \cup {f}]
ImportWebhookFilters(F) == /\ Call("reload") /\ F # {}
                           /\ s' = [s EXCEPT !.filters = @ \cup F]
                           /\ seen' = [seen EXCEPT !.since.restored = @ \cup F]
ConfigureAlerts(rules) == /\ Call("reload") /\ s' = [s EXCEPT !.engine = rules]
                          /\ seen' = [seen EXCEPT !.byHand = TRUE]

(* Slip: the limiter is not told.                                          *)
LimiterAfterNot(limit) == s.limiter

LimiterAfter(limit) == IF limit \in {Absent, s.limit} THEN s.limiter ELSE limit
EngineAfter(rules) == IF rules \in {Absent, s.rules} THEN s.engine ELSE rules
(* Slip: the emitter is destroyed and what it holds is dropped.            *)
LeftUnsent == s.buffer

(* What destroy of the emitter leaves unsent when the endpoint is well: it *)
(* flushes the buffer unless it is paused.                                 *)
Unsent == IF s.paused THEN s.buffer ELSE {}
(* Slip: the rules in force are carried over.                              *)
RebuiltRouterKept(url) == RouterOf(url, s.router.rules)

RebuiltRouter(url) == RouterOf(url, s.filters)
ReloadConfig(url, limit, rules, ok) ==
    /\ Call("reload")
    /\ LET new == Patched(s.url, url)
           changed == new # s.url
           lost == s.retry \cup Unsent \cup (IF ok THEN {} ELSE s.buffer)
           base == [s EXCEPT !.url = new, !.limit = Patched(@, limit), !.rules = Patched(@, rules),
                             !.limiter = LimiterAfter(limit), !.engine = EngineAfter(rules)]
       IN  /\ ok \/ (changed /\ s.buffer # {})
           /\ s' = IF changed THEN [base EXCEPT !.router = RebuiltRouter(new), !.buffer = {}, !.retry = {},
                                                !.paused = FALSE]
                   ELSE base
           /\ seen' = [seen EXCEPT
                         !.byHand = @ /\ rules \in {Absent, s.rules},
                         !.sent = IF changed THEN @ \cup (s.buffer \ lost) ELSE @,
                         !.lost = IF changed THEN @ \cup lost ELSE @,
                         !.failed = IF ok THEN @ ELSE @ \cup s.buffer,
                         !.since = IF changed THEN NothingChanged ELSE @]
-----------------------------------------------------------------------------
(* A2AManager: tasks in the order of their Map, with the state, its        *)
(* history and the time of the last change.  A message to a task that is   *)
(* there makes it work again, whatever its state, and tells no counter.    *)
(* seen.trail: the states of each task from its making; seen.gone: the     *)
(* states in which tasks were forgotten.                                   *)

TaskStates == {"submitted", "working", "completed", "canceled"}
Terminal == {"completed", "canceled"}
AgentsInit == /\ mgr = "agents"
              /\ s = [tasks |-> <<>>, active |-> 0, by |-> [st \in TaskStates |-> 0]]
              /\ seen = [trail |-> <<>>, gone |-> [st \in TaskStates |-> 0], made |-> 0, peak |-> 0,
                         resent |-> FALSE, revived |-> FALSE]

IsLive(t) == t.state \notin Terminal
LiveTasks(tasks) == {i \in DOMAIN tasks : IsLive(tasks[i])}
TaskIds == {s.tasks[i].id : i \in DOMAIN s.tasks}
PlaceOf(id) == CHOOSE i \in DOMAIN s.tasks : s.tasks[i].id = id
Forgotten(f, left) == [st \in TaskStates |-> f[st] + Cardinality({i \in DOMAIN s.tasks :
                          s.tasks[i].state = st /\ \A j \in DOMAIN left : left[j].id # s.tasks[i].id})]
Entered(t, st) == [t EXCEPT !.state = st, !.history = Append(@, t.state), !.updated = now]

(* Slip: the oldest goes, finished or not.                                 *)
MayGoAny(t) == TRUE

MayGo(t) == ~IsLive(t)
(* evictOldTasks: the least recently changed first, to four fifths.        *)
Evicted(tasks) ==
    LET older(i, j) == tasks[i].updated < tasks[j].updated \/ (tasks[i].updated = tasks[j].updated /\ i < j)
        out == FoldLeft(LAMBDA acc, i : IF 5 * (Len(tasks) - Cardinality(acc)) < 4 * MaxTasks \/ ~MayGo(tasks[i])
                                        THEN acc ELSE acc \cup {tasks[i].id},
                        {}, SetToSortSeq(DOMAIN tasks, older))
    IN  IF Len(tasks) < MaxTasks THEN tasks ELSE SelectSeq(tasks, LAMBDA t : t.id \notin out)

HandleTaskSend(id) ==
    /\ Call("agents")
    /\ IF id \in TaskIds
       THEN LET i == PlaceOf(id)
            IN  /\ s' = [s EXCEPT !.tasks[i] = Entered(@, "working")]
                /\ seen' = [seen EXCEPT !.trail[id] = Append(@, "working"), !.resent = TRUE,
                                        !.revived = @ \/ ~IsLive(s.tasks[i])]
       ELSE LET left == Evicted(s.tasks)
                fresh == [id |-> id, state |-> "submitted", history |-> <<>>, updated |-> now]
            IN  /\ s' = [s EXCEPT !.tasks = Append(left, fresh), !.active = @ + 1, !.by["submitted"] = @ + 1]
                /\ seen' = [seen EXCEPT !.trail = With(@, id, <<"submitted">>), !.made = @ + 1,
                                        !.gone = Forgotten(@, left),
                                        !.peak = Max({@, Cardinality(LiveTasks(left)) + 1})]

(* Slip: a finished task counts once more when it is finished again.       *)
FinishesAgain(old, new) == new \in Terminal

Finishes(old, new) == new \in Terminal /\ old \notin Terminal
(* Slip: the state a task leaves keeps its count.                          *)
Moved(old, new, by) == [by EXCEPT ![new] = @ + 1]

Recounted(old, new, by) == [[by EXCEPT ![old] = Max({0, @ - 1})] EXCEPT ![new] = @ + 1]
TransitionTask(i, st) ==
    /\ Call("agents") /\ i \in DOMAIN s.tasks
    /\ LET old == s.tasks[i].state
       IN  /\ s' = [s EXCEPT !.tasks[i] = Entered(@, st), !.by = Recounted(old, st, @),
                             !.active = IF Finishes(old, st) THEN Max({0, @ - 1}) ELSE @]
           /\ seen' = [seen EXCEPT !.trail[s.tasks[i].id] = Append(@, st),
                                   !.revived = @ \/ (old \in Terminal /\ st \notin Terminal)]
HandleTaskCancel(i) == i \in DOMAIN s.tasks /\ IsLive(s.tasks[i]) /\ TransitionTask(i, "canceled")
CleanupTasks(age) ==
    /\ Call("agents")
    /\ LET kept == SelectSeq(s.tasks, LAMBDA t : t.updated >= now - age)
           out == {i \in LiveTasks(s.tasks) : s.tasks[i].updated < now - age}
       IN  /\ kept # s.tasks
           /\ s' = [s EXCEPT !.tasks = kept, !.active = Max({0, @ - Cardinality(out)})]
           /\ seen' = [seen EXCEPT !.gone = Forgotten(@, kept)]
-----------------------------------------------------------------------------
Tick == /\ now < MaxClock[mgr] /\ now' = now + 1 /\ UNCHANGED <<mgr, s, seen, ops>>

Init == now = 0 /\ ops = 0 /\ (DrainInit \/ SnapshotInit \/ ReloadInit \/ AgentsInit)

DrainNext == \/ Arrive \/ GracefulStop \/ TearDown
             \/ \E on \in BOOLEAN : SetMaintenance(on)
             \/ mgr = "drain" /\ \E c \in s.open : Close(c)
SnapshotNext ==
    /\ mgr = "snapshot"
    /\ \/ CreateSnapshot \/ Damage \/ NewServer
       \/ \E k \in Keys : CreateKey(k) \/ UseKey(k) \/ SetKeyWebhook(k)
       \/ \E k \in Keys, a \in Aliases \cup {None} : SetAlias(k, a)
       \/ \E n \in Names : CreateTeam(n) \/ CreateGroup(n)
       \/ \E i \in DOMAIN Store.teams : DeleteTeam(i)
       \/ \E i \in DOMAIN Store.groups : DeleteGroup(i) \/ \E k \in Keys : AssignKey(k, i)
       \/ \E mode \in {"full", "merge", "overwrite"} : RestoreFromSnapshot(mode)
       \/ \E mode \in {"skip", "overwrite", "error"} : HandleKeyImport(mode)
ReloadNext ==
    \/ EmitEvent \/ Retry \/ PauseWebhook
    \/ \E ok \in BOOLEAN : Flush(ok) \/ ResumeWebhook(ok)
    \/ \E f \in Filters : CreateFilter(f) \/ DeleteFilter(f) \/ ImportWebhookFilters({f})
    \/ \E rules \in {"few", "many"} : ConfigureAlerts(rules)
    \/ \E url \in Urls \cup {None, Absent}, limit \in {"high", "low", Absent},
       rules \in {"few", "many", Absent}, ok \in BOOLEAN :
          ReloadConfig(url, limit, rules, ok)
AgentsNext == \/ \E id \in Keys : HandleTaskSend(id)
              \/ mgr = "agents" /\ \E i \in DOMAIN s.tasks :
                    HandleTaskCancel(i) \/ \E st \in {"working", "completed"} : TransitionTask(i, st)
              \/ \E age \in {0, 1} : CleanupTasks(age)
Next == DrainNext \/ SnapshotNext \/ ReloadNext \/ AgentsNext \/ Tick
-----------------------------------------------------------------------------
(* Whatever is switched and in whatever order, the record of maintenance   *)
(* alternates and says what holds; behind a closed door only calls that    *)
(* were inside stay (handleRequest), and the server is torn down over an   *)
(* open call only after the whole time it had (gracefulStop).              *)
DrainHonoured == mgr = "drain" =>
    /\ \A i \in 2 .. Len(seen.audit) : seen.audit[i] # seen.audit[i - 1]
    /\ s.maintenance = (seen.audit # <<>> /\ Last(seen.audit))
    /\ s.maintenance = (s.since # Never)
    /\ s.maintenance => s.open \subseteq seen.admitted.maintenance
    /\ s.draining # Never => s.open \subseteq seen.admitted.drain
    /\ seen.cut # {} => seen.waited >= DrainTimeout

(* However keys, teams and groups were changed, deleted, backed up and     *)
(* restored: an alias leads to a key that has it, and to the only one      *)
(* unless an alias was refused or a restore gave it to two; active groups  *)
(* differ in name and members belong to active ones.  A restore brings     *)
(* back every key of the backup and removes nothing; in mode merge what is *)
(* there stays as it is, in the others it becomes what the backup says     *)
(* (importKeys, restoreFromSnapshot).                                      *)
AliasesHonoured ==
    /\ \A a \in DOMAIN Store.index :
          Store.index[a] \in KeyNames(Store.keys) /\ Rec(Store.keys, Store.index[a]).alias = a
    /\ ~seen.odd => \A i \in DOMAIN Store.keys :
          Store.keys[i].alias # None =>
             Store.keys[i].alias \in DOMAIN Store.index /\ Store.index[Store.keys[i].alias] = Store.keys[i].key
GroupsHonoured ==
    /\ \A i, j \in DOMAIN Store.groups :
          i # j /\ Store.groups[i].active /\ Store.groups[j].active => Store.groups[i].name # Store.groups[j].name
    /\ \A k \in DOMAIN Store.member : \E i \in DOMAIN Store.groups :
          Store.groups[i].id = Store.member[k] /\ Store.groups[i].active
RestoreHonoured ==
    LET before == seen.before.store
        merge == seen.before.mode = "merge"
    IN  seen.before.mode # None =>
          /\ KeyNames(Store.keys) = KeyNames(before.keys) \cup KeyNames(seen.taken)
          /\ \A k \in KeyNames(Store.keys) :
                LET stays == k \in KeyNames(before.keys) /\ (merge \/ k \notin KeyNames(seen.taken))
                IN  Rec(Store.keys, k) = IF stays THEN Rec(before.keys, k) ELSE Sanitized(Rec(seen.taken, k))
          /\ Ids(before.teams) \subseteq Ids(Store.teams) /\ Ids(before.groups) \subseteq Ids(Store.groups)
          /\ merge /\ Ids(s.backup.teams) \subseteq Ids(before.teams) => Store.teams = before.teams
          /\ \A i \in DOMAIN s.backup.groups :
                merge \/ ~NameFree(Store.groups, s.backup.groups[i].name)
SnapshotHonoured == mgr = "snapshot" => AliasesHonoured /\ GroupsHonoured /\ RestoreHonoured

(* After any reloads what runs agrees with the configuration: the limit,   *)
(* the endpoint, the alert rules unless an administrator set others, the   *)
(* filters but for those changed since the router was built; an event is   *)
(* in one place, and lost with its emitter only if it had been refused or  *)
(* held (updateConfig, handleConfigReload).                                *)
ReloadsHonoured == mgr = "reload" =>
    /\ s.limiter = s.limit /\ s.router.url = s.url
    /\ ~seen.byHand => s.engine = s.rules
    /\ s.router.rules \subseteq s.filters \cup seen.since.made
    /\ s.filters \subseteq s.router.rules \cup seen.since.removed \cup seen.since.restored
    /\ s.buffer \cup s.retry \cup seen.sent \cup seen.lost = 0 .. seen.emitted - 1
    /\ Cardinality(s.buffer) + Cardinality(s.retry) + Cardinality(seen.sent) + Cardinality(seen.lost)
          = seen.emitted
    /\ seen.lost \subseteq seen.failed

(* Tasks of agents have their whole history; the counter of active tasks   *)
(* never says too many and is exact while no finished task was taken up    *)
(* again; each state counts the tasks in it, the forgotten ones included,  *)
(* while no message went to a task that was there; and the table passes    *)
(* its limit only with live tasks (A2AManager).                            *)
AgentsHonoured == mgr = "agents" =>
    LET tasks == s.tasks
        live == Cardinality(LiveTasks(tasks))
    IN  /\ \A i \in DOMAIN tasks : Append(tasks[i].history, tasks[i].state) = seen.trail[tasks[i].id]
        /\ s.active <= live /\ (seen.revived \/ s.active = live)
        /\ seen.resent \/ \A st \in TaskStates :
              s.by[st] = seen.gone[st] + Cardinality({i \in DOMAIN tasks : tasks[i].state = st})
        /\ FoldFunction(+, 0, s.by) >= seen.made
        /\ Len(tasks) <= Max({MaxTasks, seen.peak})
=============================================================================
