------------------------------ MODULE MCIntake ------------------------------
(* Small instances of Intake for TLC. *)
EXTENDS Intake

P(kind, value) == [kind |-> kind, value |-> value]
Text(parts) == [json |-> FALSE, level |-> "", head |-> <<>>, body |-> parts]
Json(level, head, body) == [json |-> TRUE, level |-> level, head |-> head, body |-> body]

MCValues == {"a", "b", "ERROR", "FATAL", "INFO"}

(* One error of two words in several forms, and lines of other kinds. *)
MCLines == {
    Text(<<P("date", "a"), P("level", "ERROR"), P("word", "a"), P("word", "b"), P("uuid", "a")>>),
    Text(<<P("word", "b"), P("uuid", "b"), P("level", "ERROR"), P("word", "a"), P("digits", "b")>>),
    Text(<<P("iso", "a"), P("level", "ERROR"), P("word", "a"), P("word", "b")>>),
    Text(<<P("iso", "b"), P("level", "ERROR"), P("word", "a"), P("word", "b")>>),
    Text(<<P("level", "INFO"), P("word", "a"), P("level", "FATAL"), P("ip", "a"), P("podSuffix", "b")>>),
    Text(<<P("level", "INFO"), P("word", "a")>>),
    Json("ERROR", <<P("iso", "b")>>, <<P("stopWord", "a"), P("word", "b"), P("word", "a"), P("number", "a")>>),
    Json("INFO", <<P("level", "ERROR")>>, <<P("word", "a"), P("epoch", "b"), P("uuidDigits", "a")>>),
    Json("ERROR", <<>>, <<>>)}

(* Three bits; what is left of a time stamp is a token like any other. *)
MCHash == [p \in Part |->
    CASE p.kind = "word" /\ p.value = "a" -> {1, 2}
      [] p.kind = "word" -> {2, 3}
      [] p.kind = "level" -> {1, 2, 3}
      [] p.value = "a" -> {1}
      [] OTHER -> {3}]
=============================================================================
