-------------------------- MODULE MCScheduleUpdate --------------------------
(***************************************************************************)
(* Instances of ScheduleUpdate for TLC.                                    *)
(***************************************************************************)
EXTENDS ScheduleUpdate

CONSTANTS day, night

\* A forma that keeps, edits, adds, removes or reorders layers, or names none.
AnyWishes == {<<>>, <<day>>, <<night>>, <<day, night>>, <<night, day>>, <<day, day, night>>}

\* A forma that never removes one.
GrowingWishes == {<<day, night>>, <<night, day>>}

\* A forma that removes the first of two layers.
RemovalWishes == {<<night>>}

OneLayer  == <<day>>
TwoLayers == <<day, night>>
=============================================================================
