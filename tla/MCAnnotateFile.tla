--------------------------- MODULE MCAnnotateFile ---------------------------
(* Small instances of AnnotateFile for TLC. *)
EXTENDS AnnotateFile, TLC

\* A place in an order of the values.
Place(x, order) == CHOOSE i \in DOMAIN order : order[i] = x

\* A hash that scatters: consecutive numbers do not get consecutive ids.
MCDigest(key, value, seq, by) ==
    LET n == Place(key, <<"f", "g">>) + 2 * Place(value, <<"old", "new", "none">>)
             + 8 * seq + 4 * 8 * Place(by, <<"ann", "bob">>)
    IN  (n * 29) % 101

\* One author writes, and the other undoes and redoes.
OneWrites == "ann" :> {"old"} @@ "bob" :> {}
=============================================================================
