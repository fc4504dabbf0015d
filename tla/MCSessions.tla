----------------------------- MODULE MCSessions -----------------------------
(***************************************************************************)
(* Small instances of Sessions for TLC.                                    *)
(***************************************************************************)
EXTENDS Sessions

CONSTANTS cp1, s1, s2, s3, m1, m2

MCChargers == {cp1}
MCOneSession == {s1}
MCTwoSessions == {s1, s2}
MCThreeSessions == {s1, s2, s3}
MCOneCharger == [s \in Sessions |-> cp1]
MCCalls == {m1, m2}
MCOneCall == {m1}
=============================================================================
