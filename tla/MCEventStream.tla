---------------------------- MODULE MCEventStream ---------------------------
EXTENDS EventStream

MCCasts == <<"trigger", "metrics", "trigger">>
=============================================================================
