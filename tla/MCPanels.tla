------------------------------ MODULE MCPanels -------------------------------
(* Small instances of Panels for TLC. *)
EXTENDS Panels

\* One entry more than the first page.
MCAuditLog == <<[id |-> "e2", createdAt |-> "t2"], [id |-> "e1", createdAt |-> "t1"]>>
CONSTANTS c1, c2, u1
\* One grant this device can fulfil, one it has no key for.
MCRequested == {<<c1, u1>>, <<c2, u1>>}
=============================================================================
