------------------------------- MODULE MCFlow -------------------------------
(* Small instances of DbscFlow for TLC. *)
EXTENDS DbscFlow, TLC

CONSTANT login

MCJwkKind == DeviceKey :> "EC"

MCTexts == Ids \cup Authorizations \cup {EmptyText, CookieName, RefreshPath}

=============================================================================
