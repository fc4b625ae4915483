----------------------------- MODULE SkillRegistry ----------------------------
(* core_engine/skills/registry.py: handlers and metadata are filled from the    *)
(* files of the skills directory, or with built-in skills where there was no    *)
(* directory.  Python keeps a module that was imported once: its file may       *)
(* change, the registry goes on with the first one.                             *)
EXTENDS Naturals, Sequences, FiniteSets, SequencesExt

CONSTANTS Skills,    \* names of files
          Builtins,  \* names of the default skills
          Contents,  \* what a file may hold: [triggers, form], form one of "meta",
                     \* "plain" (no meta), "odd" (meta that is no dict), "broken"
          MaxEdits   \* bound

VARIABLES directory,  \* there is one
          files,      \* name -> content
          imported,   \* sys.modules: name -> content when it was first imported
          handlers,   \* trigger -> skill, of _handlers
          listed,     \* keys of _metadata
          edits,
          loadedFrom  \* observation: names of the files at the last load

skillVars == <<directory, files, imported, handlers, listed, edits, loadedFrom>>

Put(f, k, v) == [x \in DOMAIN f \cup {k} |-> IF x = k THEN v ELSE f[x]]

(* _load_skill on s = [imported, handlers, listed].                             *)
LoadSkill(s, name) ==
  LET m == IF name \in DOMAIN s.imported THEN s.imported[name] ELSE files[name]
      own == Put(s.handlers, name, name)
  IN CASE m.form = "broken" -> s
       [] m.form = "plain" \/ m.form = "odd" ->
            [s EXCEPT !.imported = Put(@, name, m), !.handlers = own]
       [] OTHER -> [imported |-> Put(s.imported, name, m),
                    handlers |-> [x \in DOMAIN own \cup m.triggers |->
                                    IF x \in m.triggers THEN name ELSE own[x]],
                    listed |-> s.listed \cup {name}]

(* _load_all on what is left of the tables; listdir answers in any order.       *)
LoadAll(h, l) ==
  IF ~directory
    THEN /\ directory' = TRUE /\ UNCHANGED imported
         /\ handlers' = [x \in DOMAIN h \cup Builtins |-> IF x \in Builtins THEN x ELSE h[x]]
         /\ listed' = l \cup Builtins
         /\ loadedFrom' = {}
    ELSE \E order \in SetToSeqs(DOMAIN files) :
           LET after[i \in 0..Len(order)] ==
                 IF i = 0 THEN [imported |-> imported, handlers |-> h, listed |-> l]
                          ELSE LoadSkill(after[i - 1], order[i])
               s == after[Len(order)]
           IN /\ imported' = s.imported /\ handlers' = s.handlers /\ listed' = s.listed
              /\ loadedFrom' = DOMAIN files
              /\ UNCHANGED directory

SkillInit ==
  /\ directory \in BOOLEAN /\ files = <<>> /\ imported = <<>>
  /\ handlers = <<>> /\ listed = {} /\ edits = 0 /\ loadedFrom = {}

(* The constructor, and later reload.                                           *)
Reload == LoadAll(<<>>, {}) /\ UNCHANGED <<files, edits>>

Edit(name, content) ==
  /\ directory /\ edits < MaxEdits
  /\ edits' = edits + 1
  /\ files' = Put(files, name, content)
  /\ UNCHANGED <<directory, imported, handlers, listed, loadedFrom>>

RemoveFile(name) ==
  /\ name \in DOMAIN files /\ edits < MaxEdits
  /\ edits' = edits + 1
  /\ files' = [x \in DOMAIN files \ {name} |-> files[x]]
  /\ UNCHANGED <<directory, imported, handlers, listed, loadedFrom>>

SkillNext ==
  \/ Reload
  \/ \E name \in Skills :
       RemoveFile(name) \/ \E content \in Contents : Edit(name, content)

---------------------------------------------------------------------------
(* Every trigger leads to a skill of the last load: a built-in one, or one      *)
(* whose file was there and asks for it, whatever files came and went since the *)
(* module was first imported; every listed skill answers to its name; and no    *)
(* built-in skill is listed beside those of files.                              *)
SkillsOfTheLastLoad ==
  /\ \A x \in DOMAIN handlers : handlers[x] \in loadedFrom \cup Builtins
  /\ listed \subseteq DOMAIN handlers
  /\ \A x \in DOMAIN handlers :
       handlers[x] \in loadedFrom =>
         x = handlers[x] \/ x \in imported[handlers[x]].triggers
  /\ loadedFrom # {} => listed \subseteq loadedFrom
=============================================================================
