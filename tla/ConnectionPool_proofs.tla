----------------------- MODULE ConnectionPool_proofs -----------------------
(* For any finite set of tasks and every max_connections: the safety          *)
(* properties of ConnectionPool that the run `pool` checks on one instance,   *)
(* with culls, cancellations at every await and shutdown.  The invariant adds *)
(* to OneOwner who may hold a connection and who the lock.                    *)
EXTENDS ConnectionPool, SequenceTheorems, FiniteSetTheorems, TLAPS

Phases == {"up", "stopping", "draining", "down"}

\* A task has a connection exactly where acquire or release works on it.
Holders == \A t \in Tasks : has[t] # None <=> pc[t] \in {"check", "using", "return"}

\* The lock is held only across a creation, by one task, and not in vain.
Locking ==
    /\ \A t \in Tasks : t \in holder <=> pc[t] = "create"
    /\ \A t, u \in holder : t = u
    /\ holder # {} => created < MaxConnections

\* OneOwner, said of each connection.
Owned ==
    /\ IsInjective(idle) /\ IsInjective(culling)
    /\ \A t, u \in Tasks : has[t] = has[u] /\ has[t] # None => t = u
    /\ \A c \in ToSet(idle) : /\ c \notin ToSet(culling) /\ c \notin closed
                              /\ c <= created /\ \A t \in Tasks : has[t] # c
    /\ \A c \in ToSet(culling) : /\ c \notin closed /\ c <= created
                                 /\ \A t \in Tasks : has[t] # c
    /\ \A t \in Tasks : has[t] # None => has[t] \notin closed /\ has[t] <= created
    /\ \A c \in closed : c <= created

IInv == TypeOK /\ Owned /\ Holders /\ Locking

-----------------------------------------------------------------------------
(* Sequences                                                                  *)

\* Nothing is in an empty queue.
LEMMA EmptyQueue ==
    /\ <<>> \in Seq(Conn) /\ ToSet(<<>>) = {} /\ IsInjective(<<>>)
  BY DEF ToSet, IsInjective

\* What is taken out of a queue without repetitions is in it no more.
LEMMA TakeFirst ==
    ASSUME NEW s \in Seq(Conn), s # <<>>
    PROVE  /\ Head(s) \in Conn /\ Head(s) \in ToSet(s)
           /\ Tail(s) \in Seq(Conn)
           /\ ToSet(s) = ToSet(Tail(s)) \cup {Head(s)}
           /\ IsInjective(s) => IsInjective(Tail(s)) /\ Head(s) \notin ToSet(Tail(s))
  <1> DEFINE h == Head(s)
             r == Tail(s)
  <1>1. /\ h \in Conn /\ h = s[1] /\ r \in Seq(Conn) /\ Len(s) \in Nat /\ Len(s) > 0
        /\ Len(r) = Len(s) - 1
        /\ \A i \in 1..Len(r) : r[i] = s[i + 1]
    BY HeadTailProperties, LenProperties, EmptySeq
  <1>2. DOMAIN s = 1..Len(s) /\ DOMAIN r = 1..Len(r)
    BY <1>1, LenProperties
  <1> HIDE DEF h, r
  <1>3. h \in ToSet(s)
    BY <1>1, <1>2 DEF ToSet
  <1>4. ToSet(r) \subseteq ToSet(s)
    <2>1. \A i \in 1..Len(r) : i + 1 \in 1..Len(s)
      BY <1>1
    <2> QED BY <1>1, <1>2, <2>1 DEF ToSet
  <1>5. ToSet(s) \subseteq ToSet(r) \cup {h}
    <2>1. \A i \in 1..Len(s) : i = 1 \/ (i - 1 \in 1..Len(r) /\ r[i - 1] = s[i])
      BY <1>1
    <2> QED BY <1>1, <1>2, <2>1 DEF ToSet
  <1>6. ASSUME IsInjective(s) PROVE IsInjective(r) /\ h \notin ToSet(r)
    <2>1. \A i, j \in 1..Len(s) : s[i] = s[j] => i = j
      BY <1>2, <1>6 DEF IsInjective
    <2>2. \A i \in 1..Len(r) : i + 1 \in 1..Len(s) /\ 1 \in 1..Len(s) /\ i + 1 # 1
      BY <1>1
    <2>3. \A i, j \in 1..Len(r) : r[i] = r[j] => i = j
      BY <1>1, <2>1, <2>2
    <2>4. \A i \in 1..Len(r) : r[i] # h
      BY <1>1, <2>1, <2>2
    <2> QED BY <1>2, <2>3, <2>4 DEF IsInjective, ToSet
  <1> QED BY <1>1, <1>3, <1>4, <1>5, <1>6 DEF h, r

\* Appending a newcomer keeps a queue without repetitions.
LEMMA PutLast ==
    ASSUME NEW s \in Seq(Conn), NEW c \in Conn
    PROVE  /\ Append(s, c) \in Seq(Conn)
           /\ ToSet(Append(s, c)) = ToSet(s) \cup {c}
           /\ IsInjective(s) /\ c \notin ToSet(s) => IsInjective(Append(s, c))
  <1> DEFINE a == Append(s, c)
  <1>1. /\ a \in Seq(Conn) /\ Len(a) = Len(s) + 1 /\ a[Len(s) + 1] = c
        /\ \A i \in 1..Len(s) : a[i] = s[i]
    BY AppendProperties
  <1>2. DOMAIN s = 1..Len(s) /\ DOMAIN a = 1..(Len(s) + 1) /\ Len(s) \in Nat
    BY <1>1, LenProperties
  <1> HIDE DEF a
  <1>3. ToSet(a) = ToSet(s) \cup {c}
    <2>1. ToSet(a) \subseteq ToSet(s) \cup {c}
      BY <1>1, <1>2 DEF ToSet
    <2>2. ToSet(s) \subseteq ToSet(a)
      BY <1>1, <1>2 DEF ToSet
    <2>3. c \in ToSet(a)
      BY <1>1, <1>2 DEF ToSet
    <2> QED BY <2>1, <2>2, <2>3
  <1>4. ASSUME IsInjective(s), c \notin ToSet(s) PROVE IsInjective(a)
    <2>1. \A i \in 1..Len(s) : s[i] # c
      BY <1>2, <1>4 DEF ToSet
    <2>2. \A i, j \in 1..Len(s) : s[i] = s[j] => i = j
      BY <1>2, <1>4 DEF IsInjective
    <2> QED BY <1>1, <1>2, <2>1, <2>2 DEF IsInjective
  <1> QED BY <1>1, <1>3, <1>4 DEF a

\* What a queue holds are connections.
LEMMA ElementsAreConns ==
    ASSUME NEW s \in Seq(Conn)
    PROVE  ToSet(s) \subseteq Conn
  BY LenProperties, ElementOfSeq DEF ToSet

\* A queue without repetitions that misses a connection is not full.
LEMMA RoomForOneMore ==
    ASSUME NEW s \in Seq(Conn), IsInjective(s), NEW c \in Conn, c \notin ToSet(s)
    PROVE  Len(s) < MaxConnections
  <1> DEFINE D == 1..Len(s)
  <1>1. Len(s) \in Nat /\ DOMAIN s = D /\ MaxConnections \in Nat
    BY LenProperties, PoolAssumption
  <1>2. IsFiniteSet(D) /\ Cardinality(D) = Len(s)
    BY <1>1, FS_Interval
  <1>3. IsFiniteSet(Conn) /\ Cardinality(Conn) = MaxConnections
    BY <1>1, FS_Interval DEF Conn
  <1>4. IsFiniteSet(Conn \ {c}) /\ Cardinality(Conn \ {c}) = MaxConnections - 1
    BY <1>1, <1>3, FS_RemoveElement
  <1>5. s \in Injection(D, Conn \ {c})
    <2>1. s \in [D -> Conn \ {c}]
      BY <1>1, ElementOfSeq, LenProperties DEF ToSet
    <2> QED BY <1>1, <2>1 DEF Injection, IsInjective
  <1>6. Cardinality(D) <= Cardinality(Conn \ {c})
    BY <1>2, <1>4, <1>5, FS_Injection
  <1> QED BY <1>1, <1>2, <1>4, <1>6
\* The set form of OneOwner and the pointwise one say the same.
LEMMA OwnedIsOneOwner == TypeOK => (Owned <=> OneOwner)
  <1> SUFFICES ASSUME TypeOK PROVE Owned <=> OneOwner
    OBVIOUS
  <1>1. /\ ToSet(idle) \subseteq Conn /\ ToSet(culling) \subseteq Conn
        /\ closed \subseteq Conn /\ None \notin Conn
    BY ElementsAreConns DEF TypeOK, Conn, None
  <1>2. Owned => OneOwner
    BY <1>1 DEF Owned, OneOwner
  <1>3. OneOwner => Owned
    BY <1>1 DEF Owned, OneOwner
  <1> QED BY <1>2, <1>3

-----------------------------------------------------------------------------
(* Every action keeps the invariant                                           *)

\* The facts about a state that every step below starts from.
LEMMA StateFacts ==
    ASSUME IInv
    PROVE  /\ idle \in Seq(Conn) /\ culling \in Seq(Conn) /\ created \in 0..MaxConnections
           /\ closed \subseteq Conn /\ pc \in [Tasks -> PC]
           /\ has \in [Tasks -> Conn \cup {None}]
           /\ holder \subseteq Tasks /\ phase \in Phases
           /\ ToSet(idle) \subseteq Conn /\ ToSet(culling) \subseteq Conn
           /\ None \notin Conn /\ MaxConnections \in Nat
           /\ Conn \subseteq Nat
  BY ElementsAreConns, PoolAssumption DEF IInv, TypeOK, Phases, Conn, None

LEMMA InitEstablishes == Init => IInv
  <1> SUFFICES ASSUME Init PROVE IInv
    OBVIOUS
  <1> USE EmptyQueue, PoolAssumption DEF Init
  <1>1. \A t \in Tasks : has[t] = None /\ pc[t] = "out"
    OBVIOUS
  <1>2. TypeOK
    BY DEF TypeOK, PC
  <1>3. Owned
    BY <1>1 DEF Owned
  <1>4. Holders /\ Locking
    BY <1>1 DEF Holders, Locking
  <1> QED BY <1>2, <1>3, <1>4 DEF IInv

\* A step of one task that neither takes nor gives a connection, nor the lock.
LEMMA WalkKeeps ==
    ASSUME IInv, NEW t \in Tasks, NEW label \in PC, Goto(t, label),
           UNCHANGED <<idle, created, closed, has, holder, culling, phase>>,
           label = "create" <=> pc[t] = "create",
           label \in {"check", "using", "return"} <=> pc[t] \in {"check", "using", "return"}
    PROVE  IInv'
  <1>1. pc \in [Tasks -> PC]
    BY StateFacts
  <1>2. pc' \in [Tasks -> PC] /\ pc'[t] = label /\ \A u \in Tasks : u # t => pc'[u] = pc[u]
    BY <1>1 DEF Goto
  <1>3. TypeOK'
    BY <1>2 DEF IInv, TypeOK
  <1>4. Owned'
    BY DEF IInv, Owned
  <1>5. Holders'
    BY <1>2 DEF IInv, Holders
  <1>6. Locking'
    <2>1. \A u \in Tasks : u \in holder <=> pc'[u] = "create"
      BY <1>2 DEF IInv, Locking
    <2> QED BY <2>1 DEF IInv, Locking
  <1> QED BY <1>3, <1>4, <1>5, <1>6 DEF IInv

\* The first idle connection goes to a task.
LEMMA GetIdleKeeps ==
    ASSUME IInv, NEW t \in Tasks, GetIdle(t), has[t] = None, pc[t] # "create",
           UNCHANGED <<created, closed, holder, culling, phase>>
    PROVE  IInv'
  <1> USE StateFacts
  <1>1. /\ idle # <<>> /\ Head(idle) \in Conn /\ Head(idle) \in ToSet(idle)
        /\ Tail(idle) \in Seq(Conn) /\ idle' = Tail(idle)
        /\ ToSet(idle) = ToSet(Tail(idle)) \cup {Head(idle)}
        /\ IsInjective(Tail(idle)) /\ Head(idle) \notin ToSet(Tail(idle))
    BY TakeFirst DEF GetIdle, IInv, Owned
  <1>2. /\ has' \in [Tasks -> Conn \cup {None}] /\ has'[t] = Head(idle)
        /\ \A u \in Tasks : u # t => has'[u] = has[u]
    BY <1>1 DEF GetIdle, Hold
  <1>3. /\ pc' \in [Tasks -> PC] /\ pc'[t] = "check"
        /\ \A u \in Tasks : u # t => pc'[u] = pc[u]
    BY DEF GetIdle, Goto, PC
  <1>4. TypeOK'
    BY <1>1, <1>2, <1>3 DEF IInv, TypeOK
  <1>5. Owned'
    BY <1>1, <1>2 DEF IInv, Owned
  <1>6. Holders'
    BY <1>1, <1>2, <1>3 DEF IInv, Holders
  <1>7. Locking'
    BY <1>3 DEF IInv, Locking
  <1> QED BY <1>4, <1>5, <1>6, <1>7 DEF IInv

LEMMA BeginCreateKeeps ==
    ASSUME IInv, NEW t \in Tasks, BeginCreate(t)
    PROVE  IInv'
  <1> USE StateFacts
  <1>1. /\ pc' \in [Tasks -> PC] /\ pc'[t] = "create"
        /\ \A u \in Tasks : u # t => pc'[u] = pc[u]
    BY DEF BeginCreate, Goto, PC
  <1>2. holder = {} /\ holder' = {t} /\ created < MaxConnections /\ pc[t] = "lock"
    BY DEF BeginCreate, LockFree, MayCreate
  <1>3. UNCHANGED <<idle, created, closed, has, culling, phase>>
    BY DEF BeginCreate
  <1>4. TypeOK'
    BY <1>1, <1>2, <1>3 DEF IInv, TypeOK
  <1>5. Owned'
    BY <1>3 DEF IInv, Owned
  <1>6. Holders'
    BY <1>1, <1>2, <1>3 DEF IInv, Holders
  <1>7. Locking'
    BY <1>1, <1>2, <1>3 DEF IInv, Locking
  <1> QED BY <1>4, <1>5, <1>6, <1>7 DEF IInv

\* The new connection gets a name nobody has.
LEMMA CreatedKeeps ==
    ASSUME IInv, NEW t \in Tasks, Created(t)
    PROVE  IInv'
  <1> USE StateFacts
  <1>1. /\ pc[t] = "create" /\ t \in holder /\ has[t] = None
        /\ created < MaxConnections /\ \A u \in holder : u = t
    BY DEF Created, IInv, Holders, Locking
  <1>2. /\ created' = created + 1 /\ created' \in 0..MaxConnections /\ created' \in Conn
        /\ holder' = {} /\ UNCHANGED <<idle, closed, culling, phase>>
    BY <1>1 DEF Created, Conn
  <1>3. /\ has' \in [Tasks -> Conn \cup {None}] /\ has'[t] = created'
        /\ \A u \in Tasks : u # t => has'[u] = has[u]
    BY <1>2 DEF Created, Hold
  <1>4. /\ pc' \in [Tasks -> PC] /\ pc'[t] = "using"
        /\ \A u \in Tasks : u # t => pc'[u] = pc[u]
    BY DEF Created, Goto, PC
  <1>5. /\ \A c \in ToSet(idle) \cup ToSet(culling) \cup closed : c <= created /\ c \in Nat
        /\ \A u \in Tasks : has[u] # None => has[u] <= created /\ has[u] \in Nat
        /\ created \in Nat
    BY DEF IInv, Owned
  <1>6. /\ \A c \in ToSet(idle) \cup ToSet(culling) \cup closed : c < created'
        /\ \A u \in Tasks : has[u] # None => has[u] < created'
        /\ \A c \in Nat : c < created' => c # created' /\ c <= created'
        /\ created' <= created' /\ created' # None
    BY <1>2, <1>5 DEF None
  <1>7. TypeOK'
    BY <1>2, <1>3, <1>4 DEF IInv, TypeOK
  <1>8. Owned'
    BY <1>2, <1>3, <1>5, <1>6 DEF IInv, Owned
  <1>9. Holders'
    BY <1>3, <1>4, <1>6 DEF IInv, Holders
  <1>10. Locking'
    BY <1>1, <1>2, <1>4 DEF IInv, Locking
  <1> QED BY <1>7, <1>8, <1>9, <1>10 DEF IInv

\* A task lets go of what it has, connection and lock, and the connection is
\* closed, queued, or out of the pool's sight.
LEMMA LetGoKeeps ==
    ASSUME IInv, NEW t \in Tasks, NEW label \in {"out", "again"},
           Hold(t, None), Goto(t, label), holder' = holder \ {t},
           UNCHANGED <<created, culling, phase>>,
           \/ UNCHANGED <<idle, closed>>
           \/ has[t] # None /\ Close(has[t]) /\ UNCHANGED idle
           \/ has[t] # None /\ PutBack(has[t])
    PROVE  IInv'
  <1> USE StateFacts
  <1>1. /\ has' \in [Tasks -> Conn \cup {None}] /\ has'[t] = None
        /\ \A u \in Tasks : u # t => has'[u] = has[u]
    BY DEF Hold
  <1>2. /\ pc' \in [Tasks -> PC] /\ pc'[t] \in {"out", "again"}
        /\ \A u \in Tasks : u # t => pc'[u] = pc[u]
    BY DEF Goto, PC
  <1>3. Holders' /\ Locking'
    BY <1>1, <1>2 DEF IInv, Holders, Locking
  <1>0. ASSUME has[t] # None
        PROVE  /\ has[t] \in Conn /\ has[t] \notin ToSet(idle)
               /\ has[t] \notin ToSet(culling) /\ has[t] \notin closed
               /\ has[t] <= created
               /\ \A u \in Tasks : u # t => has[u] # has[t]
    BY <1>0 DEF IInv, Owned
  <1> DEFINE c == has[t]
  <1>4. CASE UNCHANGED <<idle, closed>>
    <2>1. TypeOK'
      BY <1>1, <1>2, <1>4 DEF IInv, TypeOK
    <2>2. Owned'
      BY <1>1, <1>4 DEF IInv, Owned
    <2> QED BY <1>3, <2>1, <2>2 DEF IInv
  <1>5. CASE c # None /\ Close(c) /\ UNCHANGED idle
    <2>1. closed' = closed \cup {c} /\ closed' \subseteq Conn
      BY <1>5 DEF Close
    <2>0. /\ c \in Conn /\ c \notin ToSet(idle) /\ c \notin ToSet(culling)
          /\ c <= created /\ \A u \in Tasks : has'[u] # c
      BY <1>1, <1>5, <1>0
    <2> HIDE DEF c
    <2>2. TypeOK'
      BY <1>1, <1>2, <1>5, <2>1 DEF IInv, TypeOK
    <2>3. Owned'
      BY <1>1, <1>5, <2>1, <2>0 DEF IInv, Owned
    <2> QED BY <1>3, <2>2, <2>3 DEF IInv
  <1>6. CASE c # None /\ UNCHANGED closed /\ idle' = Append(idle, c)
    <2>1. /\ c \in Conn /\ c \notin ToSet(idle) /\ c \notin ToSet(culling)
          /\ c \notin closed /\ c <= created /\ \A u \in Tasks : has'[u] # c
      BY <1>1, <1>6, <1>0
    <2> HIDE DEF c
    <2>2. /\ idle' \in Seq(Conn) /\ ToSet(idle') = ToSet(idle) \cup {c}
          /\ IsInjective(idle')
      BY <1>6, <2>1, PutLast DEF IInv, Owned
    <2>3. TypeOK'
      BY <1>1, <1>2, <1>6, <2>2 DEF IInv, TypeOK
    <2>4. UNCHANGED <<created, culling, closed>>
      BY <1>6
    <2>5. \A d \in ToSet(idle') : /\ d \notin ToSet(culling) /\ d \notin closed
                                  /\ d <= created /\ \A u \in Tasks : has'[u] # d
      BY <1>1, <2>1, <2>2 DEF IInv, Owned
    <2>6. \A u, v \in Tasks : has'[u] = has'[v] /\ has'[u] # None => u = v
      BY <1>1 DEF IInv, Owned
    <2>7. \A d \in ToSet(culling) : \A u \in Tasks : has'[u] # d
      BY <1>1 DEF IInv, Owned
    <2>8. \A u \in Tasks : has'[u] # None => has'[u] \notin closed /\ has'[u] <= created
      BY <1>1 DEF IInv, Owned
    <2>9. Owned'
      BY <2>2, <2>4, <2>5, <2>6, <2>7, <2>8 DEF IInv, Owned
    <2> QED BY <1>3, <2>3, <2>9 DEF IInv
  <1> QED BY <1>4, <1>5, <1>6 DEF PutBack

\* The cull and the drain move the first connection of a list they took, and
\* shutdown or an exception drops the list.
LEMMA CullKeeps ==
    ASSUME IInv, Cull
    PROVE  IInv'
  <1> USE StateFacts
  <1>1. UNCHANGED <<created, pc, has, holder, phase>>
    BY DEF Cull, BeginCull, CullClose, CullKeep, CullRaises
  <1>2. Holders' /\ Locking'
    BY <1>1 DEF IInv, Holders, Locking
  <1> SUFFICES TypeOK' /\ Owned'
    BY <1>2 DEF IInv
  <1>3. CASE BeginCull
    <2>1. idle' = <<>> /\ culling' = idle /\ closed' = closed
      BY <1>3 DEF BeginCull
    <2>2. TypeOK'
      BY <1>1, <2>1, EmptyQueue DEF IInv, TypeOK
    <2>3. Owned'
      BY <1>1, <2>1, EmptyQueue DEF IInv, Owned
    <2> QED BY <2>2, <2>3
  <1>4. CASE CullRaises
    <2>1. idle' = idle /\ culling' = <<>> /\ closed' = closed
      BY <1>4 DEF CullRaises
    <2>2. TypeOK'
      BY <1>1, <2>1, EmptyQueue DEF IInv, TypeOK
    <2>3. Owned'
      BY <1>1, <2>1, EmptyQueue DEF IInv, Owned
    <2> QED BY <2>2, <2>3
  <1>5. CASE CullClose \/ CullKeep
    <2> DEFINE c == Head(culling)
    <2>1. /\ culling # <<>> /\ c \in Conn /\ c \in ToSet(culling)
          /\ Tail(culling) \in Seq(Conn) /\ culling' = Tail(culling)
          /\ ToSet(culling) = ToSet(Tail(culling)) \cup {c}
          /\ IsInjective(Tail(culling)) /\ c \notin ToSet(Tail(culling))
      BY <1>5, TakeFirst DEF CullClose, CullKeep, IInv, Owned
    <2>2. \/ closed' = closed \cup {c} /\ idle' = idle
          \/ closed' = closed /\ idle' = Append(idle, c)
      BY <1>5 DEF CullClose, CullKeep, PutBack, Close
    <2>3. c \notin ToSet(idle) /\ c \notin closed
      BY <2>1 DEF IInv, Owned
    <2>4. /\ Append(idle, c) \in Seq(Conn)
          /\ ToSet(Append(idle, c)) = ToSet(idle) \cup {c}
          /\ IsInjective(Append(idle, c))
      BY <2>1, <2>3, PutLast DEF IInv, Owned
    <2> HIDE DEF c
    <2>5. TypeOK'
      BY <1>1, <2>1, <2>2, <2>4 DEF IInv, TypeOK
    <2>6. CASE closed' = closed \cup {c} /\ idle' = idle
      BY <1>1, <2>1, <2>3, <2>5, <2>6 DEF IInv, Owned
    <2>7. CASE closed' = closed /\ idle' = Append(idle, c)
      BY <1>1, <2>1, <2>3, <2>4, <2>5, <2>7 DEF IInv, Owned
    <2> QED BY <2>2, <2>6, <2>7
  <1> QED BY <1>3, <1>4, <1>5 DEF Cull

LEMMA ShutdownKeeps ==
    ASSUME IInv, BeginShutdown \/ Shutdown
    PROVE  IInv'
  <1> USE StateFacts
  <1>1. UNCHANGED <<created, pc, has, holder>> /\ phase' \in Phases
    BY DEF BeginShutdown, Shutdown, HealthTaskEnds, Drain, EndShutdown, Phases
  <1>2. Holders' /\ Locking'
    BY <1>1 DEF IInv, Holders, Locking
  <1> SUFFICES TypeOK' /\ Owned'
    BY <1>2 DEF IInv
  <1>3. CASE Drain
    <2>1. /\ Tail(idle) \in Seq(Conn) /\ idle' = Tail(idle) /\ culling' = culling
          /\ Head(idle) \in Conn /\ closed' = closed \cup {Head(idle)}
          /\ ToSet(idle) = ToSet(Tail(idle)) \cup {Head(idle)}
          /\ IsInjective(Tail(idle)) /\ Head(idle) \notin ToSet(Tail(idle))
      BY <1>3, TakeFirst DEF Drain, Close, IInv, Owned
    <2>2. TypeOK'
      BY <1>1, <2>1 DEF IInv, TypeOK, Phases
    <2>3. Owned'
      BY <1>1, <2>1 DEF IInv, Owned
    <2> QED BY <2>2, <2>3
  <1>4. CASE BeginShutdown \/ HealthTaskEnds \/ EndShutdown
    <2>1. idle' = idle /\ closed' = closed /\ (culling' = culling \/ culling' = <<>>)
      BY <1>4 DEF BeginShutdown, HealthTaskEnds, EndShutdown
    <2>2. TypeOK'
      BY <1>1, <2>1, EmptyQueue DEF IInv, TypeOK, Phases
    <2>3. Owned'
      BY <1>1, <2>1, EmptyQueue DEF IInv, Owned
    <2> QED BY <2>2, <2>3
  <1> QED BY <1>3, <1>4 DEF Shutdown

LEMMA NextKeeps == IInv /\ [Next]_vars => IInv'
  <1> SUFFICES ASSUME IInv, [Next]_vars PROVE IInv'
    OBVIOUS
  <1>1. /\ \A t \in Tasks : has[t] # None <=> pc[t] \in {"check", "using", "return"}
        /\ \A t \in Tasks : t \in holder <=> pc[t] = "create"
        /\ holder \subseteq Tasks
    BY StateFacts DEF IInv, Holders, Locking
  <1>2. ASSUME NEW t \in Tasks, TryIdle(t) \/ StopWaiting(t) PROVE IInv'
    <2>1. GetIdle(t) /\ pc[t] \in {"out", "again", "wait"}
          /\ UNCHANGED <<created, closed, holder, culling, phase>>
      BY <1>2 DEF TryIdle, StopWaiting
    <2>2. has[t] = None /\ pc[t] # "create"
      BY <1>1, <2>1
    <2> QED BY <2>1, <2>2, GetIdleKeeps
  <1>3. ASSUME NEW t \in Tasks, NothingIdle(t) PROVE IInv'
    BY <1>3, WalkKeeps DEF NothingIdle, PC
  <1>4. ASSUME NEW t \in Tasks, BeginCreate(t) PROVE IInv'
    BY <1>4, BeginCreateKeeps
  <1>5. ASSUME NEW t \in Tasks, BeginWait(t) PROVE IInv'
    BY <1>5, WalkKeeps DEF BeginWait, PC
  <1>6. ASSUME NEW t \in Tasks, Created(t) PROVE IInv'
    BY <1>6, CreatedKeeps
  <1>7. ASSUME NEW t \in Tasks, CreateFails(t) PROVE IInv'
    <2>1. has \in [Tasks -> Conn \cup {None}] /\ has[t] = None
      BY <1>1, <1>7, StateFacts DEF CreateFails
    <2>2. Hold(t, None)
      BY <1>7, <2>1 DEF CreateFails, Hold
    <2> QED BY <1>7, <2>2, LetGoKeeps DEF CreateFails
  <1>8. ASSUME NEW t \in Tasks, WaitTimesOut(t) PROVE IInv'
    BY <1>8, WalkKeeps DEF WaitTimesOut, PC
  <1>9. ASSUME NEW t \in Tasks, CheckPasses(t) PROVE IInv'
    BY <1>9, WalkKeeps DEF CheckPasses, PC
  <1>10. ASSUME NEW t \in Tasks, CheckFails(t) PROVE IInv'
    <2>1. has[t] # None /\ t \notin holder
      BY <1>1, <1>10 DEF CheckFails
    <2> QED BY <1>10, <2>1, LetGoKeeps DEF CheckFails
  <1>11. ASSUME NEW t \in Tasks, BeginReturn(t) PROVE IInv'
    BY <1>11, WalkKeeps DEF BeginReturn, PC
  <1>12. ASSUME NEW t \in Tasks, Return(t) PROVE IInv'
    <2>1. has[t] # None /\ t \notin holder
      BY <1>1, <1>12 DEF Return, Returned, ReturnedBroken
    <2> QED BY <1>12, <2>1, LetGoKeeps DEF Return, Returned, ReturnedBroken
  <1>13. ASSUME NEW t \in Tasks, Cancelled(t) PROVE IInv'
    BY <1>13, LetGoKeeps DEF Cancelled
  <1>14. CASE Cull
    BY <1>14, CullKeeps
  <1>15. CASE BeginShutdown \/ Shutdown
    BY <1>15, ShutdownKeeps
  <1>16. CASE UNCHANGED vars
    BY <1>16 DEF vars, IInv, TypeOK, Owned, Holders, Locking
  <1> QED BY <1>2, <1>3, <1>4, <1>5, <1>6, <1>7, <1>8, <1>9, <1>10, <1>11, <1>12, <1>13,
             <1>14, <1>15, <1>16
          DEF Next, Acquire, TakeLock, Creation, Wait, Check

THEOREM Inductive == Spec => []IInv
  BY InitEstablishes, NextKeeps, PTL DEF Spec

-----------------------------------------------------------------------------
(* The theorems                                                               *)

\* The variables keep their types, and the pool its count.
THEOREM TypeCorrect == Spec => []TypeOK
  <1>1. IInv => TypeOK
    BY DEF IInv
  <1> QED BY <1>1, Inductive, PTL

\* No connection is lent twice, queued twice, or lent after it was closed.
THEOREM ConnectionsHaveOneOwner == Spec => []OneOwner
  <1>1. IInv => OneOwner
    BY OwnedIsOneOwner DEF IInv
  <1> QED BY <1>1, Inductive, PTL

\* The connections that were made and those being made are max_connections at most.
THEOREM NeverTooMany == Spec => []CreatedWithinMax
  <1>1. IInv => CreatedWithinMax
    <2> SUFFICES ASSUME IInv PROVE CreatedWithinMax
      OBVIOUS
    <2>1. {t \in Tasks : pc[t] = "create"} = holder
      BY StateFacts DEF IInv, Locking
    <2>2. created \in 0..MaxConnections /\ MaxConnections \in Nat
      BY StateFacts
    <2>3. CASE holder = {}
      BY <2>1, <2>2, <2>3, FS_EmptySet DEF CreatedWithinMax
    <2>4. CASE holder # {}
      <3>1. PICK t \in holder : holder = {t}
        BY <2>4 DEF IInv, Locking
      <3>2. Cardinality(holder) = 1
        BY <3>1, FS_Singleton
      <3>3. created < MaxConnections
        BY <2>4 DEF IInv, Locking
      <3>4. created + Cardinality(holder) <= MaxConnections
        BY <2>2, <3>2, <3>3
      <3> QED BY <2>1, <3>4 DEF CreatedWithinMax
    <2> QED BY <2>3, <2>4
  <1> QED BY <1>1, Inductive, PTL

\* A connection that comes back from a task or from the cull finds room.
THEOREM AlwaysRoom == Spec => []RoomToPutBack
  <1>1. IInv => RoomToPutBack
    <2> SUFFICES ASSUME IInv, culling # <<>> \/ \E t \in Tasks : pc[t] = "return"
                 PROVE  Len(idle) < MaxConnections
      BY DEF RoomToPutBack
    <2>1. \E c \in Conn : c \notin ToSet(idle)
      <3>1. CASE culling # <<>>
        BY <3>1, StateFacts, TakeFirst DEF IInv, Owned
      <3>2. CASE \E t \in Tasks : pc[t] = "return"
        BY <3>2, StateFacts DEF IInv, Owned, Holders
      <3> QED BY <3>1, <3>2
    <2> QED BY <2>1, RoomForOneMore, StateFacts DEF IInv, Owned
  <1> QED BY <1>1, Inductive, PTL

\* All of it at once: with validations, culls, creations, cancellations and
\* shutdown under way, owners, counts and room agree.
THEOREM StaysConsistent == Spec => []Consistent
  BY TypeCorrect, ConnectionsHaveOneOwner, NeverTooMany, AlwaysRoom, PTL DEF Consistent
=============================================================================
