------------------------------ MODULE Optional ------------------------------
(* Rust's Option<T>: a value of T, or None. *)

CONSTANT None

Option(T) == T \cup {None}

=============================================================================
