------------------------------ MODULE Plugins -------------------------------
(* core_engine/plugins: discovery keeps the highest version of each name,     *)
(* resolve_load_order puts dependencies first and otherwise higher priority   *)
(* first, load_plugin initializes one at a time, and shutdown_all goes        *)
(* through the load order backwards.                                          *)
EXTENDS Integers, Sequences, FiniteSets, SequencesExt

CONSTANT Worlds   \* what the sources may hold: sequences of manifests

Manifests == [name : STRING, version : Seq(Int), priority : Nat, deps : Seq(STRING),
              enabled : BOOLEAN, entry : STRING]

VARIABLES found,      \* the manifests all sources yield, in the order of discovery
          phase,      \* "boot", "loading", "initializing", "loaded", "unbootable",
                      \* "stopping", "stopped"
          ordered,    \* what resolve_load_order answered
          pos,        \* how far load_all, and later shutdown_all, has come
          loadOrder,  \* _load_order: the keys of _plugins, in order
          state,      \* plugin -> PluginState
          elsewhere,  \* plugins that load_from_path put into the module's own registry
          asked       \* observation: whose shutdown was called, in order

pluginVars == <<found, phase, ordered, pos, loadOrder, state, elsewhere, asked>>

Names(ms) == {ms[i].name : i \in DOMAIN ms}
Named(ms, n) == ms[CHOOSE i \in DOMAIN ms : ms[i].name = n]

(* _compare_versions: at most three numbers, as many as both have.            *)
Newer(v, w) ==
  \E i \in DOMAIN v \cap DOMAIN w :
    v[i] > w[i] /\ \A j \in 1..(i - 1) : v[j] = w[j]

(* A version that is no sequence of numbers is <<>> here; int() raises, but   *)
(* only where two manifests of one name are compared.                         *)
Comparable(ms) ==
  \A i, j \in DOMAIN ms : i # j /\ ms[i].name = ms[j].name => ms[i].version # <<>>

(* final after the next manifest: a name keeps its place.                     *)
Keep(final, m) ==
  IF m.name \notin Names(final) THEN Append(final, m)
  ELSE [i \in DOMAIN final |->
          IF final[i].name = m.name /\ Newer(m.version, final[i].version)
            THEN m ELSE final[i]]

Discovered(ms) ==
  LET final[k \in 0..Len(ms)] ==
        IF k = 0 THEN <<>> ELSE Keep(final[k - 1], ms[k])
  IN final[Len(ms)]

---------------------------------------------------------------------------
(* resolve_load_order goes depth first.  s.open holds the calls of visit that *)
(* are under way, `visiting', the innermost last; s.ok turns FALSE where the  *)
(* code raises.  Visits of what is resolved return at once and are left out.  *)
Foremost(ms, todo) ==    \* sorted() by priority is stable
  CHOOSE i \in todo : \A j \in todo :
    \/ ms[i].priority > ms[j].priority
    \/ ms[i].priority = ms[j].priority /\ i <= j

Search_Variant(ms, s) ==
  \* A bug: a name is resolved when it is visited, before its dependencies.
  LET list == IF s.open = <<>> THEN [i \in DOMAIN ms |-> ms[i].name]
              ELSE Named(ms, Last(s.open)).deps
      todo == {i \in DOMAIN list : list[i] \notin Range(s.resolved)}
      name == list[IF s.open = <<>> THEN Foremost(ms, todo) ELSE Min(todo)]
  IN IF ~s.ok THEN s
     ELSE IF todo = {} THEN [s EXCEPT !.open = IF @ = <<>> THEN @ ELSE Front(@)]
     ELSE IF name \in Range(s.open) \/ name \notin Names(ms) THEN [s EXCEPT !.ok = FALSE]
     ELSE [s EXCEPT !.open = Append(@, name), !.resolved = Append(@, name)]

(* visit is called, or returns: a name stands behind its dependencies.        *)
Search(ms, s) ==
  LET list == IF s.open = <<>> THEN [i \in DOMAIN ms |-> ms[i].name]
              ELSE Named(ms, Last(s.open)).deps
      todo == {i \in DOMAIN list : list[i] \notin Range(s.resolved)}
      name == list[IF s.open = <<>> THEN Foremost(ms, todo) ELSE Min(todo)]
  IN IF ~s.ok \/ (todo = {} /\ s.open = <<>>) THEN s
     ELSE IF todo = {}
       THEN [s EXCEPT !.open = Front(@), !.resolved = Append(@, Last(s.open))]
     ELSE IF name \in Range(s.open) \/ name \notin Names(ms) THEN [s EXCEPT !.ok = FALSE]
     ELSE [s EXCEPT !.open = Append(@, name)]

(* visit is called for each manifest, and returns, once at most.              *)
ResolveLoadOrder(ms) ==
  LET after[k \in 0..2 * Len(ms)] ==
        IF k = 0 THEN [ok |-> TRUE, open |-> <<>>, resolved |-> <<>>]
        ELSE Search(ms, after[k - 1])
  IN after[2 * Len(ms)]

---------------------------------------------------------------------------
Init ==
  /\ found \in Worlds
  /\ phase = "boot" /\ ordered = <<>> /\ pos = 0
  /\ loadOrder = <<>> /\ elsewhere = {} /\ asked = <<>>
  /\ state = [n \in Names(found) |-> "unloaded"]

Manifest(n) == Named(Discovered(found), n)

(* discover and resolve_load_order at the start of load_all; an exception     *)
(* ends the start of the application.                                         *)
Resolve ==
  /\ phase = "boot"
  /\ LET order == ResolveLoadOrder(Discovered(found))
     IN IF Comparable(found) /\ order.ok
          THEN phase' = "loading" /\ ordered' = order.resolved /\ pos' = 1
          ELSE phase' = "unbootable" /\ UNCHANGED <<ordered, pos>>
  /\ UNCHANGED <<found, loadOrder, state, elsewhere, asked>>

MissingDependencies(n) ==
  {d \in Range(Manifest(n).deps) : d \notin Range(loadOrder) \/ state[d] # "active"}

(* One turn of load_all up to `await plugin.initialize()'.                    *)
LoadPlugin ==
  /\ phase = "loading" /\ pos \in DOMAIN ordered
  /\ LET n == ordered[pos]
     IN IF ~Manifest(n).enabled \/ Manifest(n).entry # "class"
          THEN pos' = pos + 1 /\ UNCHANGED <<phase, state>>    \* skipped, or no import
          ELSE IF MissingDependencies(n) # {}
          THEN pos' = pos + 1 /\ state' = [state EXCEPT ![n] = "failed"] /\ UNCHANGED phase
          ELSE phase' = "initializing" /\ state' = [state EXCEPT ![n] = "loading"]
               /\ UNCHANGED pos
  /\ UNCHANGED <<found, ordered, loadOrder, elsewhere, asked>>

(* initialize is the plugin's own: where it raises, the plugin is forgotten.  *)
Initialized ==
  /\ phase = "initializing"
  /\ phase' = "loading" /\ pos' = pos + 1
  /\ \/ UNCHANGED <<loadOrder, state>>
     \/ /\ state' = [state EXCEPT ![ordered[pos]] = "active"]
        /\ loadOrder' = Append(loadOrder, ordered[pos])
  /\ UNCHANGED <<found, ordered, elsewhere, asked>>

AllLoaded ==
  /\ phase = "loading" /\ pos > Len(ordered)
  /\ phase' = "loaded"
  /\ UNCHANGED <<found, ordered, pos, loadOrder, state, elsewhere, asked>>

(* A running plugin may call set_paused, and set_active again.                *)
Pause(n) ==
  /\ phase = "loaded" /\ n \in Range(loadOrder)
  /\ state' = [state EXCEPT ![n] = IF @ = "active" THEN "paused" ELSE "active"]
  /\ UNCHANGED <<found, phase, ordered, pos, loadOrder, elsewhere, asked>>

(* load_from_path ends in the module's load_plugin, which knows the registry  *)
(* singleton and not the manager's own: its plugins count for nobody here.    *)
LoadFromPath(n) ==
  /\ phase = "loaded" /\ Manifest(n).entry = "class"
  /\ Range(Manifest(n).deps) \subseteq elsewhere
  /\ elsewhere' = elsewhere \cup {n}
  /\ UNCHANGED <<found, phase, ordered, pos, loadOrder, state, asked>>

Shutdown ==
  /\ phase = "loaded"
  /\ phase' = "stopping" /\ pos' = Len(loadOrder)
  /\ UNCHANGED <<found, ordered, loadOrder, state, elsewhere, asked>>

ShutdownPlugin_Variant ==
  \* A bug: the load order is gone through from the front.
  /\ phase = "stopping" /\ pos > 0
  /\ pos' = pos - 1
  /\ LET n == loadOrder[Len(loadOrder) + 1 - pos]
     IN IF state[n] = "active"
          THEN /\ asked' = Append(asked, n)
               /\ \/ state' = [state EXCEPT ![n] = "disabled"]
                  \/ UNCHANGED state
          ELSE UNCHANGED <<state, asked>>
  /\ UNCHANGED <<found, phase, ordered, loadOrder, elsewhere>>

(* One turn of shutdown_all; a shutdown that raises leaves its plugin active. *)
ShutdownPlugin ==
  /\ phase = "stopping" /\ pos > 0
  /\ pos' = pos - 1
  /\ LET n == loadOrder[pos]
     IN IF state[n] = "active"
          THEN /\ asked' = Append(asked, n)
               /\ \/ state' = [state EXCEPT ![n] = "disabled"]
                  \/ UNCHANGED state
          ELSE UNCHANGED <<state, asked>>
  /\ UNCHANGED <<found, phase, ordered, loadOrder, elsewhere>>

AllStopped ==
  /\ phase = "stopping" /\ pos = 0
  /\ phase' = "stopped"
  /\ UNCHANGED <<found, ordered, pos, loadOrder, state, elsewhere, asked>>

---------------------------------------------------------------------------
At(s, x) == CHOOSE i \in DOMAIN s : s[i] = x

Needs(n) ==    \* n and what it cannot be loaded without: in every set that
              \* holds n and all that its members depend on
  {d \in Names(found) :
     \A S \in SUBSET Names(found) :
       n \in S /\ (\A m \in S : Range(Manifest(m).deps) \subseteq S) => d \in S}

(* The resolved order holds every name once, in its highest version, behind   *)
(* its dependencies; a plugin comes before one of higher priority only where  *)
(* something of at least that priority needs it; and whatever is loaded found *)
(* its dependencies loaded, although any initialize may have failed.          *)
LoadOrderSafe ==
  phase \notin {"boot", "unbootable"} =>
    /\ Range(ordered) = Names(found) /\ IsInjective(ordered)
    /\ \A i \in DOMAIN found : ~Newer(found[i].version, Manifest(found[i].name).version)
    /\ \A i \in DOMAIN ordered :
         /\ Range(Manifest(ordered[i]).deps) \subseteq {ordered[j] : j \in 1..(i - 1)}
         /\ \A j \in i..Len(ordered) :
              \E n \in Range(ordered) :
                /\ Manifest(n).priority >= Manifest(ordered[j]).priority
                /\ ordered[i] \in Needs(n)
    /\ \A i \in DOMAIN loadOrder :
         Range(Manifest(loadOrder[i]).deps) \subseteq {loadOrder[j] : j \in 1..(i - 1)}

(* No plugin is shut down before one that depends on it: each dependent was   *)
(* asked before, unless it had paused itself, and none is asked twice.        *)
StopsDependentsFirst ==
  /\ IsInjective(asked)
  /\ \A p, q \in Range(loadOrder) :
       p \in Range(Manifest(q).deps) /\ p \in Range(asked) =>
         \/ state[q] = "paused"
         \/ q \in Range(asked) /\ At(asked, q) < At(asked, p)
=============================================================================
