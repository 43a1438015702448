--------------------------- MODULE MCNativeViews ---------------------------
(* Three instances of NativeViews for model checking.                        *)
EXTENDS NativeViews, TLC

\* Growing memories and callbacks that borrow them: "a" and "b" share the
\* memory "m", which for "b" is the second of two; the table never changes.
GrowingMemories == "a" :> <<"m">> @@ "b" :> <<"n", "m">>
ConstantTable == "a" :> "shared" @@ "b" :> "shared"
NoFunctions == "a" :> {} @@ "b" :> {}

\* Changing tables: "a" caches the dispatch of a table that "b" writes.
SharedMemory == "a" :> <<"m">> @@ "b" :> <<"m">>
Functions == "a" :> {"fa"} @@ "b" :> {"fb"}

\* One instance that writes a table nobody else can reach.
NoMemories == "a" :> <<>>
OneTable == "a" :> "private"
OwnFunctions == "a" :> {"fa"}
=============================================================================
