----------------------------- MODULE MCServices -----------------------------
(* One service of each kind, or of each way to read its connections.  The  *)
(* clients' scripts have empty values, unknown commands and commands after *)
(* a logout; lengths below and above the limits; bodies and TLS that look  *)
(* like headers; and a header block over the limit.                        *)
EXTENDS Process

CONSTANTS nas, gamespy, natneg

MCKind == (nas :> "http") @@ (gamespy :> "tcp") @@ (natneg :> "udp")
MCProtocols == gamespy :> {"profile", "search", "browser"}

Pair(key, value) == <<key, value>>
Login == <<Pair(<<"login">>, << >>), Pair(<<"user">>, <<"nal">>)>>
Ka == <<Pair(<<"ka">>, << >>)>>
Out == <<Pair(<<"logout">>, << >>)>>

MCLetters == {"fi", "nal", "login", "user", "ka", "logout"}

MCScripts ==
  ("profile" :> {<<Login, Out, Ka>>}) @@ ("search" :> {<<Out, Ka>>})
  @@ ("browser" :> {<<<<0, 3, 1>>, <<0, 5, 0, 0, 3>>, <<0, 3, 3>>, <<0, 2, 9>>>>, <<<<0, 3, 1>>, <<0, 9, 9>>>>})

MCRequests ==
  LET get == [head |-> <<"get", Host, Host, Blank>>, body |-> << >>]
      post == [head |-> <<"post", Host, "two", Host, Blank>>, body |-> <<Host, "x">>]
      long == [head |-> <<"get", Host, "a", "b", "c", Host, Blank>>, body |-> << >>]
      tls == [head |-> <<Hello, Host, Host>>, body |-> << >>]
  IN  {<<post, get>>, <<tls>>, <<long>>}
MCSymbols == {Hello, "get", "post", Host, "two", "a", "b", "c", Blank, "x"}
MCLengthLines == "two" :> 2
=============================================================================
