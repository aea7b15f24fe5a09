---------------------------- MODULE MCCoreStream ----------------------------
(* A small instance of CoreStream: more events than the buffer holds, and  *)
(* errors of two kinds and of both at once.                                *)
EXTENDS CoreStream

MCErrors == {{"deadline"}, {"429", "timeout"}, {"500", "timeout"}, {}}
=============================================================================
