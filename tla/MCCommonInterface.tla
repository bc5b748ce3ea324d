------------------------- MODULE MCCommonInterface -------------------------
(* Boxes for TLC: two slots, and which services their modules take. *)
EXTENDS CommonInterface, TLC

TwoSlots == <<"A", "B">>

\* Services a to c; b and c share a transponder.
ThreeServices == "a" :> 1 @@ "b" :> 2 @@ "c" :> 2
\* a may be chained through both slots; b and c share B, h2 and h3 may watch the same.
BSharedByTwo == "A" :> {"a"} @@ "B" :> {"a", "b", "c"}
ThreeWatch == "h1" :> {"a"} @@ "h2" :> {"b"} @@ "h3" :> {"b", "c"}
NoneMapped == "A" :> {} @@ "B" :> {}

\* b and c on one transponder, each taken by a module of its own.
OneEach == "A" :> {"b"} @@ "B" :> {"c"}
TwoWatch == "h1" :> {"b"} @@ "h2" :> {"c"}

=============================================================================
