----------------------------- MODULE MCHttpServer -----------------------------
(* Instances of HttpServer for TLC: each stream is a case of the parser.      *)
EXTENDS HttpServer

First(method, version) == <<method, " ", "url", " ", version, "lf">>

Cases ==
  {\* a request with "cr" and a header, and one with a folded header
   <<"GET", " ", "url", " ", "HTTP/1.0", "cr", "lf", "Host", "lf", "cr", "lf">>,
   First("GET", "HTTP/1.1") \o <<"Host", "lf", " ", "more", "lf", "lf">>,
   \* no version at first, a line too long, an illegal byte
   <<"GET", " ", "url", "lf", "HTTP/1.0", "lf", "lf">>,
   <<"GET", " ", "url", " ", " ", " ", " ", " ", " ">>,
   First("HEAD", "HTTP/1.1") \o <<"ctl", "lf", "lf">>,
   \* too many headers, a continuation of nothing
   First("HEAD", "HTTP/1.0") \o <<"a", "lf", "b", "lf", "c", "lf", "lf">>,
   First("GET", "HTTP/1.0") \o <<" ", "more", "lf", "lf">>,
   \* bodies: no length, one that is not seen, one that is, one that is none
   First("DELETE", "HTTP/1.0") \o <<"lf">>,
   First("POST", "HTTP/1.0") \o <<"Content-Length", " ", "1", "lf", "lf", "x">>,
   First("POST", "HTTP/1.0") \o <<"Content", " ", "1", "lf", "lf", "x">>,
   First("POST", "HTTP/1.0") \o <<"Content", " ", "x", "lf", "lf">>}
=============================================================================
