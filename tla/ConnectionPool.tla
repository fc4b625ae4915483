--------------------------- MODULE ConnectionPool ---------------------------
(* ConnectionPool of core_engine/connections/pool.py: tasks that borrow and   *)
(* return connections, the background task that culls stale ones, and         *)
(* shutdown.  Each action runs from one await of the code to the next.        *)
EXTENDS Integers, Sequences, FiniteSets, SequencesExt

CONSTANTS
    Tasks,          \* the asyncio tasks that use the pool
    MaxConnections  \* config.max_connections

ASSUME PoolAssumption == IsFiniteSet(Tasks) /\ MaxConnections \in Nat \ {0}

(* A connection is named by the value of _created_count that counts it; the   *)
(* count is never decremented, so there are never more than MaxConnections.   *)
Conn == 1..MaxConnections
None == 0

VARIABLES
    idle,     \* _pool, the queue of idle connections
    created,  \* _created_count
    closed,   \* the connections close() was called on
    pc,       \* pc[t]: where task t is in acquire and release
    has,      \* has[t]: the connection t holds
    holder,   \* the tasks inside `async with self._lock`
    culling,  \* the list _cull_stale keeps of the connections it took out
    phase     \* "up", then shutdown's "stopping", "draining" and "down"

vars == <<idle, created, closed, pc, has, holder, culling, phase>>

\* "check": awaits _validate_connection in acquire; "again": acquire called anew;
\* "lock", "create": before and inside the lock; "wait": awaits _pool.get();
\* "using": between acquire and release; "return": awaits validation in release
PC == {"out", "again", "check", "lock", "create", "wait", "using", "return"}

\* A pool that was initialized.
Init == /\ idle = <<>> /\ created = 0 /\ closed = {}
        /\ pc = [t \in Tasks |-> "out"]
        /\ has = [t \in Tasks |-> None]
        /\ holder = {} /\ culling = <<>> /\ phase = "up"

Goto(t, label) == pc' = [pc EXCEPT ![t] = label]
Hold(t, c) == has' = [has EXCEPT ![t] = c]
Close(c) == closed' = closed \cup {c}

\* put_nowait, or close() where the queue is full
PutBack(c) == IF Len(idle) < MaxConnections
              THEN idle' = Append(idle, c) /\ UNCHANGED closed
              ELSE Close(c) /\ UNCHANGED idle

-----------------------------------------------------------------------------
(* acquire                                                                    *)

\* The oldest idle connection is taken out of the queue, to be validated.
GetIdle(t) ==
    /\ idle # <<>>
    /\ Hold(t, Head(idle))
    /\ Goto(t, "check")
    /\ idle' = Tail(idle)

\* get_nowait
TryIdle(t) ==
    /\ pc[t] \in {"out", "again"}
    /\ GetIdle(t)
    /\ UNCHANGED <<created, closed, holder, culling, phase>>

\* QueueEmpty: on to the lock.
NothingIdle(t) ==
    /\ pc[t] \in {"out", "again"}
    /\ idle = <<>>
    /\ Goto(t, "lock")
    /\ UNCHANGED <<idle, created, closed, has, holder, culling, phase>>

LockFree == holder = {}

MayCreate == created < MaxConnections

\* The lock is held across the creation and its retries.
BeginCreate(t) ==
    /\ pc[t] = "lock"
    /\ LockFree
    /\ MayCreate
    /\ holder' = holder \cup {t}
    /\ Goto(t, "create")
    /\ UNCHANGED <<idle, created, closed, has, culling, phase>>

\* The pool has made all it may: wait for one to come back.
BeginWait(t) ==
    /\ pc[t] = "lock"
    /\ LockFree
    /\ ~MayCreate
    /\ Goto(t, "wait")
    /\ UNCHANGED <<idle, created, closed, has, holder, culling, phase>>

Created(t) ==
    /\ pc[t] = "create"
    /\ created' = created + 1
    /\ Hold(t, created + 1)
    /\ holder' = holder \ {t}
    /\ Goto(t, "using")
    /\ UNCHANGED <<idle, closed, culling, phase>>

\* Every attempt of _raw_create_with_retry failed; acquire raises.
CreateFails(t) ==
    /\ pc[t] = "create"
    /\ holder' = holder \ {t}
    /\ Goto(t, "out")
    /\ UNCHANGED <<idle, created, closed, has, culling, phase>>

\* A connection that came back.
StopWaiting(t) ==
    /\ pc[t] = "wait"
    /\ GetIdle(t)
    /\ UNCHANGED <<created, closed, holder, culling, phase>>

\* A bug: a waiter has no timeout.
WaitTimesOut_Never(t) == FALSE
\* RuntimeError("Connection pool exhausted — all connections in use").  The
\* timer may fire before a waiter runs for a connection that has come back.
WaitTimesOut(t) ==
    /\ pc[t] = "wait"
    /\ Goto(t, "out")
    /\ UNCHANGED <<idle, created, closed, has, holder, culling, phase>>

CheckPasses(t) ==
    /\ pc[t] = "check"
    /\ Goto(t, "using")
    /\ UNCHANGED <<idle, created, closed, has, holder, culling, phase>>

\* The connection is closed and acquire calls itself.
CheckFails(t) ==
    /\ pc[t] = "check"
    /\ Close(has[t])
    /\ Hold(t, None)
    /\ Goto(t, "again")
    /\ UNCHANGED <<idle, created, holder, culling, phase>>

-----------------------------------------------------------------------------
(* release                                                                    *)

BeginReturn(t) ==
    /\ pc[t] = "using"
    /\ Goto(t, "return")
    /\ UNCHANGED <<idle, created, closed, has, holder, culling, phase>>

Returned(t) ==
    /\ pc[t] = "return"
    /\ PutBack(has[t])
    /\ Hold(t, None)
    /\ Goto(t, "out")
    /\ UNCHANGED <<created, holder, culling, phase>>

ReturnedBroken(t) ==
    /\ pc[t] = "return"
    /\ Close(has[t])
    /\ Hold(t, None)
    /\ Goto(t, "out")
    /\ UNCHANGED <<idle, created, holder, culling, phase>>

\* The task is cancelled inside acquire or release.  The lock is released; a
\* connection that was being validated is neither queued nor closed.
Cancelled(t) ==
    /\ pc[t] \in {"check", "lock", "create", "wait", "return"}
    /\ holder' = holder \ {t}
    /\ Hold(t, None)
    /\ Goto(t, "out")
    /\ UNCHANGED <<idle, created, closed, culling, phase>>

-----------------------------------------------------------------------------
(* _health_loop and _cull_stale                                               *)

\* All idle connections are taken out; they are looked at one await after another.
BeginCull ==
    /\ phase = "up" /\ culling = <<>> /\ idle # <<>>
    /\ culling' = idle
    /\ idle' = <<>>
    /\ UNCHANGED <<created, closed, pc, has, holder, phase>>

CullClose ==
    /\ phase = "up" /\ culling # <<>>
    /\ Close(Head(culling))
    /\ culling' = Tail(culling)
    /\ UNCHANGED <<idle, created, pc, has, holder, phase>>

\* A bug: the cull goes on after a healthy connection was put back.
CullKeep_Twice ==
    /\ phase = "up" /\ culling # <<>>
    /\ PutBack(Head(culling))
    /\ UNCHANGED <<created, pc, has, holder, culling, phase>>
CullKeep ==
    /\ phase = "up" /\ culling # <<>>
    /\ PutBack(Head(culling))
    /\ culling' = Tail(culling)
    /\ UNCHANGED <<created, pc, has, holder, phase>>

\* A validation raises: the loop logs it and drops the rest of the list.
CullRaises ==
    /\ phase = "up" /\ culling # <<>>
    /\ culling' = <<>>
    /\ UNCHANGED <<idle, created, closed, pc, has, holder, phase>>

-----------------------------------------------------------------------------
(* shutdown                                                                   *)

BeginShutdown ==
    /\ phase = "up"
    /\ phase' = "stopping"
    /\ UNCHANGED <<idle, created, closed, pc, has, holder, culling>>

\* CancelledError ends the health task, and with it the list of a cull.
HealthTaskEnds ==
    /\ phase = "stopping"
    /\ phase' = "draining"
    /\ culling' = <<>>
    /\ UNCHANGED <<idle, created, closed, pc, has, holder>>

Drain ==
    /\ phase = "draining" /\ idle # <<>>
    /\ Close(Head(idle))
    /\ idle' = Tail(idle)
    /\ UNCHANGED <<created, pc, has, holder, culling, phase>>

EndShutdown ==
    /\ phase = "draining" /\ idle = <<>>
    /\ phase' = "down"
    /\ UNCHANGED <<idle, created, closed, pc, has, holder, culling>>

-----------------------------------------------------------------------------
TakeLock(t) == BeginCreate(t) \/ BeginWait(t)
Creation(t) == Created(t) \/ CreateFails(t)
Wait(t) == StopWaiting(t) \/ WaitTimesOut(t)
Check(t) == CheckPasses(t) \/ CheckFails(t)
Return(t) == Returned(t) \/ ReturnedBroken(t)
Cull == BeginCull \/ CullClose \/ CullKeep \/ CullRaises
Shutdown == HealthTaskEnds \/ Drain \/ EndShutdown

Acquire(t) == \/ TryIdle(t) \/ NothingIdle(t) \/ TakeLock(t) \/ Creation(t)
              \/ Wait(t) \/ Check(t)

Next == \/ \E t \in Tasks : Acquire(t) \/ BeginReturn(t) \/ Return(t) \/ Cancelled(t)
        \/ Cull \/ BeginShutdown \/ Shutdown

(* Validation and creation answer, the wait has a timer, the event loop runs  *)
(* what is ready, and asyncio.Lock serves its waiters in order (hence SF).    *)
(* Nobody is bound to call acquire, and a borrower may keep its connection.   *)
Fairness ==
    /\ \A t \in Tasks :
         /\ WF_vars(pc[t] = "again" /\ (TryIdle(t) \/ NothingIdle(t)))
         /\ SF_vars(TakeLock(t)) /\ WF_vars(Creation(t))
         /\ WF_vars(WaitTimesOut(t)) /\ WF_vars(Check(t)) /\ WF_vars(Return(t))
    /\ WF_vars(Shutdown)

Spec == Init /\ [][Next]_vars
FairSpec == Spec /\ Fairness
-----------------------------------------------------------------------------
\* Every variable keeps its type; in particular the count keeps its maximum.
TypeOK ==
    /\ idle \in Seq(Conn) /\ culling \in Seq(Conn)
    /\ created \in 0..MaxConnections
    /\ closed \subseteq Conn
    /\ pc \in [Tasks -> PC]
    /\ has \in [Tasks -> Conn \cup {None}]
    /\ holder \subseteq Tasks
    /\ phase \in {"up", "stopping", "draining", "down"}

\* No connection is in two hands: it is with one borrower, or once in the queue,
\* or once in the cull's list, or closed - and a closed one is never lent again.
OneOwner ==
    LET held == {has[t] : t \in Tasks} \ {None} IN
    /\ IsInjective(idle) /\ IsInjective(culling)
    /\ \A t, u \in Tasks : has[t] = has[u] /\ has[t] # None => t = u
    /\ ToSet(idle) \cap (ToSet(culling) \cup held \cup closed) = {}
    /\ ToSet(culling) \cap (held \cup closed) = {}
    /\ held \cap closed = {}
    /\ \A c \in ToSet(idle) \cup ToSet(culling) \cup held \cup closed : c <= created

\* The pool never makes more connections than it may, counting the one being
\* made: the count is compared and raised under one lock.
CreatedWithinMax ==
    created + Cardinality({t \in Tasks : pc[t] = "create"}) <= MaxConnections

\* There is always room for a connection that comes back from a borrower or from
\* the cull: the branches of release and _cull_stale that close a healthy
\* connection because the queue is full are never taken.
RoomToPutBack ==
    (culling # <<>> \/ \E t \in Tasks : pc[t] = "return") => Len(idle) < MaxConnections

(* What holds between any two steps, with validations, culls, creations,      *)
(* cancellations and shutdown under way: the variables are well typed, each   *)
(* connection has one owner, no more are made than allowed, and there is room *)
(* to put each back.                                                          *)
Consistent == TypeOK /\ OneOwner /\ CreatedWithinMax /\ RoomToPutBack

\* Every acquire ends, with a connection or an error, also when connections keep
\* failing their validation and creations keep failing; and shutdown ends
\* although tasks go on borrowing and returning.
CallsEnd ==
    /\ \A t \in Tasks : pc[t] \in {"again", "check", "lock", "create", "wait"}
                          ~> pc[t] \in {"using", "out"}
    /\ phase = "stopping" ~> phase = "down"
=============================================================================
