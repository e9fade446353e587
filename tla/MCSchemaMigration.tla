-------------------------- MODULE MCSchemaMigration --------------------------
(* Programs of several versions over the tables of runs and of what they did. *)
EXTENDS SchemaMigration

CONSTANTS older, newer, newer2, strict

Col(type, required) == [type |-> type, required |-> required, key |-> FALSE, refs |-> Null]
Id == [type |-> "integer", required |-> FALSE, key |-> TRUE, refs |-> Null]
RunId == [type |-> "integer", required |-> TRUE, key |-> FALSE, refs |-> "runs"]

Index(cols, unique) == [cols |-> cols, unique |-> unique]

\* An older version had a column more, and other indexes.
OldModel ==
    [runs |-> [cols |-> [id |-> Id, host |-> Col("text", FALSE), legacy |-> Col("text", FALSE)],
               indexes |-> <<>>],
     events |-> [cols |-> [id |-> Id, run_id |-> RunId],
                 indexes |-> [idx_events |-> Index({"run_id"}, FALSE),
                              idx_old |-> Index({"id"}, FALSE)]]]

NewModel ==
    [runs |-> [cols |-> [id |-> Id, host |-> Col("text", FALSE)], indexes |-> <<>>],
     events |-> [cols |-> [id |-> Id, run_id |-> RunId, path |-> Col("text", FALSE)],
                 indexes |-> [idx_events |-> Index({"run_id", "id"}, FALSE),
                              uq_events |-> Index({"id"}, TRUE)]]]

\* A version with another type, and with a new column that must not be null.
StrictModel ==
    [runs |-> [cols |-> [id |-> Id, host |-> Col("blob", FALSE)], indexes |-> <<>>],
     events |-> [cols |-> [id |-> Id, run_id |-> RunId, status |-> Col("text", TRUE)],
                 indexes |-> <<>>]]

Versions == [p \in Programs |-> CASE p = older -> OldModel [] p = strict -> StrictModel
                                  [] OTHER -> NewModel]

RunsFirst == [runs |-> 1, events |-> 2]
=============================================================================
