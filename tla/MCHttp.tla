------------------------------- MODULE MCHttp -------------------------------
(***************************************************************************)
(* The instance of Http for TLC: clients that send up to three requests,   *)
(* kept or closed connections, and bad lines among them.                   *)
(***************************************************************************)
EXTENDS Http

CRLF == <<"CR", "LF">>
Request(version, headers) == <<"GET", "/", version>> \o CRLF \o headers \o CRLF
Header(value) == <<"Connection:", value>> \o CRLF

Messages == {Request("HTTP/1.1", <<>>),
             Request("HTTP/1.0", <<"Connection:", "Keep-Alive", "CR">> \o CRLF),
             Request("HTTP/1.0", <<>>),
             Request("HTTP/1.1", Header("close")),
             <<"POST", "/", "HTTP/2.0">> \o CRLF,
             <<"CR", "GET">> \o CRLF}

SomeStreams == {a \o b : a \in Messages, b \in Messages}
               \cup {a \o a \o a : a \in Messages}
=============================================================================
