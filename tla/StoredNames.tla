----------------------------- MODULE StoredNames -----------------------------
(***************************************************************************)
(* What Windows stores, by name: a value is a pair <<where, name>>, and a    *)
(* setting of a power scheme one of that scheme.                            *)
(***************************************************************************)

Schemes == {"balanced", "ultimate"}
Scheme == <<"POWER", "scheme">>

\* A setting of the active power scheme, in a row of the table.
Active(name) == <<"ACTIVE", name>>
Of(scheme, name) == <<"POWER", name, scheme>>

\* What a probe wants of a flag of the boot configuration, whatever its content.
Enabled == "enabled"
=============================================================================
