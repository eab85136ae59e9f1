--------------------------- MODULE ConnectionPool ---------------------------
(***************************************************************************)
(* The connection pool (proxy/app/shared/connection_pool.py): tasks of one *)
(* event loop that acquire, use and give back connections, close, drain or *)
(* check the pool, by the methods that take its lock and by those that do  *)
(* not, with connections that break and tasks that are cancelled.          *)
(*                                                                         *)
(* A step goes from one await to the next; connecting, closing and waiting *)
(* for the lock are awaits (where an object's close is no coroutine, the   *)
(* code does not yield there; the model lets others run).  A task is its   *)
(* place, the connection it has in hand, and the counter or list of the    *)
(* loop it is in.  Statistics that no method reads are left out.           *)
(***************************************************************************)
EXTENDS Naturals, SequencesExt

CONSTANTS Tasks, Conns,     \* connections that can be made
          MAX_CONNECTIONS, MAX_KEEPALIVE, MAX_RETRIES,
          Kinds,            \* objects of the factory: [reports, coroutine: BOOLEAN]
          MaxCalls,         \* bound: calls of the pool's methods
          MaxFaults         \* bound: connections that break, tasks cancelled

VARIABLES kind,         \* reports: has closed or is_connected; coroutine: close is one
          factory,      \* a factory is set
          connections, available, in_use, closed,
          conn,         \* connection -> "none", "open", "broken" or "shut"
          lock,         \* the task that holds it, as a set
          task, calls, faults,
          strays,       \* history: connections a cancelled task or a *_sync method left behind
          bypassed      \* history: the list was changed without the lock while a task held it

pool == <<connections, available, in_use, closed>>
history == <<strays, bypassed>>
vars == <<kind, factory, pool, conn, lock, task, calls, faults, history>>

Idle == [at |-> "idle", conn |-> 0, n |-> 0, todo |-> <<>>]

Init ==
    /\ kind \in Kinds /\ factory \in BOOLEAN
    /\ connections = <<>> /\ available = <<>> /\ in_use = {} /\ closed = FALSE
    /\ conn = [c \in Conns |-> "none"] /\ lock = {} /\ task = [t \in Tasks |-> Idle]
    /\ calls = 0 /\ faults = 0 /\ strays = {} /\ bypassed = FALSE

TypeOK ==
    /\ ToSet(connections) \subseteq Conns \cup {0}     \* 0 is Python's None
    /\ ToSet(available) \cup in_use \cup strays \subseteq Conns
    /\ conn \in [Conns -> {"none", "open", "broken", "shut"}]
    /\ Cardinality(lock) <= 1 /\ lock \subseteq Tasks
    /\ \A t \in Tasks : /\ task[t].conn \in Conns \cup {0}
                        /\ task[t].at \in {"idle", "want", "closing", "creating", "using", "returning", "discarding",
                                            "using_sync", "checking", "shutting", "draining"}
    /\ calls \in 0..MaxCalls /\ faults \in 0..MaxFaults

Holding == {"using", "returning", "using_sync"}
Held == {task[t].conn : t \in {u \in Tasks : task[u].at \in Holding}}

Call == calls < MaxCalls /\ calls' = calls + 1
Goto(t, at, c, n, todo) == task' = [task EXCEPT ![t] = [at |-> at, conn |-> c, n |-> n, todo |-> todo]]
Return(t) == task' = [task EXCEPT ![t] = Idle]
Bypass(t) == bypassed' = (bypassed \/ (connections' # connections /\ lock \ {t} # {}))

\* An object that has neither attribute is always valid.
_is_valid(c) == kind.reports => conn[c] = "open"

Fresh == {c \in Conns : conn[c] = "none"}
Shut(S) == conn' = [c \in Conns |-> IF c \in S THEN "shut" ELSE conn[c]]
\* _close_connection_sync cannot close an object whose close is a coroutine.
_close_connection_sync(S) == IF kind.coroutine THEN UNCHANGED conn ELSE Shut(S)
Abandoned(S) == IF kind.coroutine THEN {c \in S : conn[c] = "open"} ELSE {}

-----------------------------------------------------------------------------
(* acquire, as a context manager *)

Want(t) ==
    /\ Call /\ task[t].at = "idle" /\ Goto(t, "want", 0, 0, <<>>)
    /\ UNCHANGED <<kind, factory, pool, conn, lock, faults, history>>

\* The loop over available connections and what follows, up to the next await.
Scan(t, conns) ==
    LET c == Last(available) IN
    CASE available # <<>> /\ _is_valid(c) ->
            /\ available' = Front(available) /\ in_use' = in_use \cup {c}
            /\ lock' = {} /\ Goto(t, "using", c, 0, <<>>)
      [] available # <<>> /\ ~_is_valid(c) ->
            /\ available' = Front(available) /\ lock' = {t} /\ Goto(t, "closing", c, 0, <<>>)
            /\ UNCHANGED in_use
      [] available = <<>> /\ Len(conns) < MAX_CONNECTIONS /\ factory ->
            /\ lock' = {t} /\ Goto(t, "creating", 0, 0, <<>>) /\ UNCHANGED <<available, in_use>>
      [] OTHER ->      \* PoolExhaustedError, or no factory
            /\ lock' = {} /\ Return(t) /\ UNCHANGED <<available, in_use>>

\* Variant: without the lock.
acquire_unlocked(t) ==
    /\ task[t].at = "want"
    /\ IF closed THEN Return(t) /\ UNCHANGED <<available, in_use, lock>> ELSE Scan(t, connections)
    /\ UNCHANGED <<kind, factory, connections, closed, conn, calls, faults, history>>

acquire(t) ==
    /\ task[t].at = "want" /\ lock = {}
    /\ IF closed THEN Return(t) /\ UNCHANGED <<available, in_use, lock>> ELSE Scan(t, connections)
    /\ UNCHANGED <<kind, factory, connections, closed, conn, calls, faults, history>>

\* An invalid candidate has been closed; remove raises if the list no longer has it.
closed_candidate(t) ==
    LET c == task[t].conn IN
    /\ task[t].at = "closing"
    /\ Shut({c}) /\ connections' = RemoveFirst(connections, c)
    /\ IF Contains(connections, c) THEN Scan(t, connections')
       ELSE lock' = {} /\ Return(t) /\ UNCHANGED <<available, in_use>>
    /\ UNCHANGED <<kind, factory, closed, calls, faults, history>>

\* A failed attempt is repeated after a delay, the last one raises.
_create_connection(t, ok) ==
    LET c == CHOOSE f \in Fresh : TRUE IN
    /\ task[t].at = "creating" /\ Fresh # {}
    /\ CASE ok -> /\ conn' = [conn EXCEPT ![c] = "open"] /\ connections' = Append(connections, c)
                  /\ in_use' = in_use \cup {c} /\ lock' = {} /\ Goto(t, "using", c, 0, <<>>)
         [] ~ok /\ task[t].n < MAX_RETRIES -> /\ Goto(t, "creating", 0, task[t].n + 1, <<>>)
                                              /\ UNCHANGED <<conn, connections, in_use, lock>>
         [] OTHER -> Return(t) /\ lock' = {} /\ UNCHANGED <<conn, connections, in_use>>
    /\ UNCHANGED <<kind, factory, available, closed, calls, faults, history>>

\* The body ends, with or without an exception, and the finally clause waits for the lock.
Leave(t) ==
    /\ task[t].at = "using" /\ Goto(t, "returning", task[t].conn, 0, <<>>)
    /\ UNCHANGED <<kind, factory, pool, conn, lock, calls, faults, history>>

give_back(t) ==
    LET c == task[t].conn IN
    /\ task[t].at = "returning" /\ lock = {}
    /\ in_use' = in_use \ {c}
    /\ IF _is_valid(c) /\ Len(available) < MAX_KEEPALIVE
       THEN available' = Append(available, c) /\ Return(t) /\ UNCHANGED lock
       ELSE lock' = {t} /\ Goto(t, "discarding", c, 0, <<>>) /\ UNCHANGED available
    /\ UNCHANGED <<kind, factory, connections, closed, conn, calls, faults, history>>

discarded(t) ==
    LET c == task[t].conn IN
    /\ task[t].at = "discarding"
    /\ Shut({c}) /\ connections' = RemoveFirst(connections, c)
    /\ lock' = {} /\ Return(t)
    /\ UNCHANGED <<kind, factory, available, in_use, closed, calls, faults, history>>

-----------------------------------------------------------------------------
(* The methods without await and without the lock *)

\* Where the loop over the candidates, from the last, stops: at a valid one, or at one that is
\* closed and that remove does not find; 0 if at none.
Stop ==
    LET at == {i \in DOMAIN available : _is_valid(available[i]) \/ ~Contains(connections, available[i])}
    IN IF at = {} THEN 0 ELSE CHOOSE i \in at : \A j \in at : j <= i

\* What is left of the list after the last k candidates have been removed from it.
Purged[k \in 0..Len(available)] ==
    IF k = 0 THEN connections ELSE RemoveFirst(Purged[k - 1], available[(Len(available) - k) + 1])

\* Without a factory None is entered in the list before PoolExhaustedError.
acquire_sync(t) ==
    LET raises == Stop > 0 /\ ~_is_valid(available[Stop])
        left == SubSeq(available, 1, IF raises THEN Stop - 1 ELSE Stop)
        bad == ToSet(available) \ ToSet(left)
        listed == Purged[Len(available) - Len(left)]
        room == Len(listed) < MAX_CONNECTIONS
        c == CHOOSE f \in Fresh : TRUE
        Take(d) == in_use' = in_use \cup {d} /\ Goto(t, "using_sync", d, 0, <<>>)
    IN
    /\ Call /\ task[t].at = "idle" /\ ~closed
    /\ strays' = strays \cup Abandoned(bad)
    /\ CASE raises ->
              /\ available' = left /\ connections' = listed
              /\ _close_connection_sync(bad) /\ UNCHANGED <<in_use, task>>
         [] ~raises /\ left # <<>> ->
              /\ available' = Front(left) /\ connections' = listed /\ Take(Last(left))
              /\ _close_connection_sync(bad)
         [] ~raises /\ left = <<>> /\ room /\ factory ->
              /\ Fresh # {} /\ available' = <<>> /\ connections' = Append(listed, c) /\ Take(c)
              /\ conn' = [d \in Conns |-> CASE d = c -> "open"
                                            [] d \in bad /\ ~kind.coroutine -> "shut"
                                            [] OTHER -> conn[d]]
         [] OTHER ->
              /\ available' = <<>> /\ connections' = IF room THEN Append(listed, 0) ELSE listed
              /\ _close_connection_sync(bad) /\ UNCHANGED <<in_use, task>>
    /\ Bypass(t)
    /\ UNCHANGED <<kind, factory, closed, lock, faults>>

release_sync(t) ==
    LET c == task[t].conn
        keep == _is_valid(c) /\ Len(available) < MAX_KEEPALIVE IN
    /\ task[t].at = "using_sync"
    /\ in_use' = in_use \ {c} /\ Return(t)
    /\ IF keep THEN available' = Append(available, c) /\ UNCHANGED <<connections, conn, history>>
       ELSE /\ connections' = RemoveFirst(connections, c) /\ _close_connection_sync({c})
            /\ Bypass(t) /\ strays' = strays \cup Abandoned({c}) /\ UNCHANGED available
    /\ UNCHANGED <<kind, factory, closed, lock, calls, faults>>

close_sync(t) ==
    /\ Call /\ task[t].at = "idle"
    /\ closed' = TRUE /\ connections' = <<>> /\ available' = <<>> /\ in_use' = {}
    /\ _close_connection_sync(ToSet(connections) \ {0})
    /\ Bypass(t) /\ strays' = strays \cup Abandoned(ToSet(connections) \ {0})
    /\ UNCHANGED <<kind, factory, lock, task, faults>>

set_factory ==
    /\ ~factory /\ factory' = TRUE
    /\ UNCHANGED <<kind, pool, conn, lock, task, calls, faults, history>>

-----------------------------------------------------------------------------
(* close, drain and health_check *)

\* The i-th connection of the list, which is read again at every turn, is being closed.
Closing(t, i) ==
    IF i <= Len(connections)
    THEN /\ Goto(t, "shutting", connections[i], i, <<>>) /\ lock' = {t}
         /\ UNCHANGED <<connections, available, in_use>>
    ELSE /\ connections' = <<>> /\ available' = <<>> /\ in_use' = {} /\ lock' = {} /\ Return(t)

close(t) ==
    /\ Call /\ task[t].at = "idle" /\ lock = {}
    /\ closed' = TRUE /\ Closing(t, 1)
    /\ UNCHANGED <<kind, factory, conn, faults, history>>

close_next(t) ==
    /\ task[t].at = "shutting" /\ Shut({task[t].conn}) /\ Closing(t, task[t].n + 1)
    /\ UNCHANGED <<kind, factory, closed, calls, faults, history>>

\* drain works on a copy of the list; connections in use are closed too and stay in use.
Draining(t, todo) ==
    IF todo # <<>> THEN /\ Goto(t, "draining", Head(todo), 0, Tail(todo)) /\ lock' = {t}
                        /\ UNCHANGED <<connections, available>>
    ELSE connections' = <<>> /\ available' = <<>> /\ lock' = {} /\ Return(t)

drain(t) ==
    /\ Call /\ task[t].at = "idle" /\ lock = {} /\ Draining(t, connections)
    /\ UNCHANGED <<kind, factory, in_use, closed, conn, faults, history>>

drain_next(t) ==
    /\ task[t].at = "draining" /\ Shut({task[t].conn}) /\ Draining(t, task[t].todo)
    /\ UNCHANGED <<kind, factory, in_use, closed, calls, faults, history>>

\* The next invalid one of a copy of the available connections, without the lock; remove raises
\* if it is no longer available, and the check gives up.
Checking(t, todo) ==
    LET bad == {i \in DOMAIN todo : ~_is_valid(todo[i])}
        i == CHOOSE j \in bad : \A k \in bad : j <= k
    IN IF bad = {} \/ ~Contains(available, todo[i])
       THEN Return(t) /\ UNCHANGED available
       ELSE /\ available' = RemoveFirst(available, todo[i])
            /\ Goto(t, "checking", todo[i], 0, SubSeq(todo, i + 1, Len(todo)))

health_check(t) ==
    /\ Call /\ task[t].at = "idle" /\ ~closed /\ Checking(t, available)
    /\ UNCHANGED <<kind, factory, connections, in_use, closed, conn, lock, faults, history>>

health_next(t) ==
    LET c == task[t].conn IN
    /\ task[t].at = "checking" /\ Shut({c})
    /\ connections' = RemoveFirst(connections, c)
    /\ Bypass(t)
    /\ Checking(t, task[t].todo)
    /\ UNCHANGED <<kind, factory, in_use, closed, lock, calls, faults, strays>>

-----------------------------------------------------------------------------
Break(c) ==
    /\ faults < MaxFaults /\ faults' = faults + 1
    /\ conn[c] = "open" /\ conn' = [conn EXCEPT ![c] = "broken"]
    /\ UNCHANGED <<kind, factory, pool, lock, task, calls, history>>

\* CancelledError at an await.  In the body it runs the finally clause, anywhere else it leaves
\* the method and what it had in hand.
Cancel(t) ==
    /\ faults < MaxFaults /\ faults' = faults + 1
    /\ task[t].at \notin {"idle", "using_sync"}
    /\ IF task[t].at = "using" THEN Goto(t, "returning", task[t].conn, 0, <<>>) /\ UNCHANGED strays
       ELSE Return(t) /\ strays' = strays \cup ({task[t].conn} \ {0})
    /\ lock' = lock \ {t}
    /\ UNCHANGED <<kind, factory, pool, conn, calls, bypassed>>

Next ==
    \/ \E t \in Tasks :
         \/ Want(t) \/ acquire(t) \/ closed_candidate(t) \/ Leave(t) \/ give_back(t) \/ discarded(t)
         \/ \E ok \in BOOLEAN : _create_connection(t, ok)
         \/ acquire_sync(t) \/ release_sync(t) \/ close_sync(t)
         \/ close(t) \/ close_next(t) \/ drain(t) \/ drain_next(t)
         \/ health_check(t) \/ health_next(t) \/ Cancel(t)
    \/ \E c \in Conns : Break(c)
    \/ set_factory

Spec == Init /\ [][Next]_vars

-----------------------------------------------------------------------------
(***************************************************************************)
(* A connection is in one pair of hands: no two tasks use the same one,    *)
(* and none is offered while it is in use, however acquiring, checking,    *)
(* draining and closing overlap.  The idle ones stay within max_keepalive, *)
(* and unless a method without the lock has changed the list under one     *)
(* that holds it, the pool stays within max_connections and knows or has   *)
(* lent every connection that is still open, except strays.                *)
(***************************************************************************)
PoolSound ==
    /\ \A t, u \in Tasks : t # u /\ {task[t].at, task[u].at} \subseteq Holding => task[t].conn # task[u].conn
    /\ Held \cap ToSet(available) = {} /\ IsInjective(available)
    /\ Len(available) <= MAX_KEEPALIVE
    /\ in_use \subseteq Held \cup strays
    /\ bypassed \/ /\ Len(connections) <= MAX_CONNECTIONS
                   /\ {c \in Conns : conn[c] = "open"} \subseteq ToSet(connections) \cup Held \cup strays
=============================================================================
