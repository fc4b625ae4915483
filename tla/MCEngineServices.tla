--------------------------- MODULE MCEngineServices ---------------------------
EXTENDS EngineServices

P(name, version, priority, deps, enabled, entry) ==
  [name |-> name, version |-> version, priority |-> priority, deps |-> deps,
   enabled |-> enabled, entry |-> entry]

\* Two sources with three versions of one plugin; priorities against the
\* dependencies; a cycle, a missing name, a version that is no number.
MCWorlds ==
  {<<P("translate", <<1, 0>>, 50, <<"cache">>, TRUE, "class"),
     P("cache", <<1, 2>>, 20, <<>>, TRUE, "class"),
     P("audit", <<2>>, 0, <<"cache">>, TRUE, "class"),
     P("cache", <<1, 10, 3>>, 80, <<>>, TRUE, "class")>>,
   <<P("a", <<1>>, 50, <<>>, TRUE, "class"), P("a", <<>>, 50, <<>>, TRUE, "class")>>}
  \cup {<<P("a", <<1, 0>>, 50, <<"b">>, how[1], how[2]),
          P("b", <<>>, priority, deps, TRUE, "class"),
          P("c", <<1>>, 80, <<"a">>, TRUE, "class")>> :
            how \in {<<TRUE, "class">>, <<FALSE, "class">>, <<TRUE, "broken">>},
            priority \in {20, 80}, deps \in {<<>>, <<"c">>, <<"x">>}}

MCCritical == <<"create_translator", "get_skills">>
MCNeeded == [config |-> {"pyproject", "environment"}, network |-> {"server"}]

MCExplicit ==
  {[ENVIRONMENT |-> e] : e \in {"development", "staging", "production", "qa"}}
    \cup {[ENVIRONMENT |-> e, LOG_LEVEL |-> l, DEV_MODE |-> "0"] :
            e \in {"staging", "production"}, l \in {"LOUD", "INFO"}}

MCContents ==
  [triggers : {{"say"}, {"other", "say"}}, form : {"meta"}]
    \cup [triggers : {{}}, form : {"plain", "broken"}]
=============================================================================
