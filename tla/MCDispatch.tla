----------------------------- MODULE MCDispatch -----------------------------
(* A small worker: a tick is half an hour, a week is eight of them.           *)
EXTENDS Dispatch

CONSTANTS u1, u2

MCEvery == [s \in Schedules |-> IF s = "dispatch_recaps" THEN 4 ELSE 2]
MCNear  == [s \in Schedules |-> IF s = "dispatch_recaps" THEN 4
                                ELSE IF s = "ingest_core" THEN 1 ELSE 2]
=============================================================================
