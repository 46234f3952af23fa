---------------------------- MODULE MCImportFlow -----------------------------
(***************************************************************************)
(* Two files: one a browser export with a login twice, spelled             *)
(* differently, a login without an address and a row that cannot be read;  *)
(* the other with a note alone.  Read with the wrong format a file has     *)
(* other rows.  The logins' entries are 2 and 3 bytes long, so that both   *)
(* limits close a chunk, and the note's is larger than any request may be. *)
(***************************************************************************)
EXTENDS ImportFlow

Address(host, www) == [host |-> host, www |-> www, port |-> ""]
Login(id, urls, bytes) ==
    [id |-> id, type |-> "login", username |-> "me", urls |-> urls, bytes |-> bytes]
Note(id) == [id |-> id, type |-> "note", username |-> "", urls |-> <<>>, bytes |-> 6]

RowsOfA == <<Login("a1", <<Address("mail", TRUE)>>, 2), Login("a2", <<>>, 2),
             Login("a3", <<Address("mail", FALSE)>>, 3)>>
RowsOfB == <<Note("b1")>>

MCContents(f, fmt) ==
    CASE f = "A" /\ fmt = "browser-csv" -> [rows |-> RowsOfA, errors |-> 1]
      [] f = "A" /\ fmt = "generic-csv" -> [rows |-> Tail(RowsOfA), errors |-> 2]
      [] f = "B" /\ fmt = "generic-csv" -> [rows |-> RowsOfB, errors |-> 0]
      [] f = "B" /\ fmt = "browser-csv" -> [rows |-> <<>>, errors |-> 1]

MCDetectedFormat(f) == IF f = "A" THEN "browser-csv" ELSE "generic-csv"

MCAdditions == {Login("elsewhere", <<Address("mail", TRUE)>>, 1)}
=============================================================================
