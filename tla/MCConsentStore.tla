--------------------------- MODULE MCConsentStore ---------------------------
(* ConsentStore on a few processes, its gate checked against Mix32. *)
EXTENDS ConsentStore

M == INSTANCE Mix32

\* Gate() returns true when the low bit of Mix32(disableTelemetry) is clear.
ASSUME GateIsMix32 ==
    \A off \in BOOLEAN : GateBit[off] = M!Mix(<<0, IF off THEN 1 ELSE 0>>)[2] % 2
=============================================================================
