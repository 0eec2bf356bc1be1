----------------------------- MODULE MCHttpConn -----------------------------
(* Requests of every kind of answer, with and without a body and           *)
(* keep-alive; one body has a line end in it.                              *)
EXTENDS HttpConn

Ask(line, headers, body) == [line |-> line, headers |-> headers, body |-> body]
File == Ask("GET /file", <<"keep-alive">>, <<>>)
None == Ask("GET /none", <<"keep-alive">>, <<>>)
Empty == Ask("GET /empty", <<"keep-alive", "Length 4">>, <<"b", "CR", "LF", "b">>)

MCScripts == {
    <<File, None>>,
    <<File, Ask("GET /file", <<"Length 2">>, <<"b", "b">>)>>,
    <<Empty, File>>,
    <<Ask("GET /secret", <<"Length 2">>, <<"LF", "b">>)>>,
    <<Ask("GET /dir", <<"Host">>, <<>>)>>,
    <<Ask("GET http://host", <<>>, <<>>)>>,
    <<Ask("PUT /file", <<>>, <<>>)>>}
MCTarget == [w \in {"GET /file", "GET /none", "GET /empty", "GET /secret", "GET /dir",
                      "GET http://host"} |->
             CASE w = "GET /file" -> "regular" [] w = "GET /none" -> "missing"
               [] w = "GET /empty" -> "empty" [] w = "GET /secret" -> "private"
               [] w = "GET http://host" -> "hostonly"
               [] OTHER -> "directory"]
MCLength == [w \in {"Length 2", "Length 4"} |-> IF w = "Length 2" THEN 2 ELSE 4]
=============================================================================
