-------------------------- MODULE PipelineContext --------------------------
(***************************************************************************)
(* The context that travels with a request from filter to filter           *)
(* (sphere/src/pipeline/context.rs).  Annotations are kept as one log in   *)
(* the order they were made; an Option that is not set is None.            *)
(***************************************************************************)
EXTENDS SequenceHelpers

CONSTANT None

NewContext == [identity |-> None, notes |-> <<>>, inputTokens |-> None,
               sessionTokens |-> None, turns |-> None]

Annotate(context, key, value) ==
  [context EXCEPT !.notes = Append(@, <<key, value>>)]

AnnotateAll(context, key, values) ==
  [context EXCEPT !.notes = @ \o [i \in DOMAIN values |-> <<key, values[i]>>]]

GetAnnotations(context, key) ==
  FlattenSeq([i \in DOMAIN context.notes |->
                IF context.notes[i][1] = key THEN <<context.notes[i][2]>> ELSE <<>>])

UnwrapOr(option, default) == IF option = None THEN default ELSE option
=============================================================================
