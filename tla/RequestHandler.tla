--------------------------- MODULE RequestHandler ---------------------------
(***************************************************************************)
(* The request handlers of http/request_handler.cpp between one client and *)
(* an application that fills in their interfaces.  The application keeps   *)
(* one value per path, answers as the result types allow and deletes at    *)
(* once or later; it may fail any time.  The client believes what the      *)
(* status lines tell it.  Application and client are external.             *)
(***************************************************************************)
EXTENDS Naturals, FiniteSets

CONSTANTS
  Path,      \* the resources
  Body,      \* what they may hold
  Absent, Moved,      \* no content at a path: nothing there, or elsewhere
  Unknown, Leaving,   \* what the client knows instead: nothing, or that a deletion was promised
  Choices,   \* ... or that it is to choose between several representations
  None,      \* no message
  MaxStamp   \* bound: writes per resource

ASSUME HandlerAssumption ==
  /\ MaxStamp \in Nat /\ None \notin Body \cup (0 .. MaxStamp)
  /\ Cardinality({Absent, Moved, Unknown, Leaving, Choices} \ Body) = 5

HTTPStatusCode ==
  [CONTINUE |-> 100, SWITCHING_PROTOCOLS |-> 101, OK |-> 200, CREATED |-> 201, ACCEPTED |-> 202, NO_CONTENT |-> 204,
   MULTIPLE_CHOICES |-> 300, MOVED_PERMANENTLY |-> 301, FOUND |-> 302, SEE_OTHER |-> 303, NOT_MODIFIED |-> 304,
   BAD_REQUEST |-> 400, UNAUTHORIZED |-> 401, FORBIDDEN |-> 403, NOT_FOUND |-> 404, INTERNAL_SERVER_ERROR |-> 500,
   NOT_IMPLEMENTED |-> 501, BAD_GATEWAY |-> 502, SERVICE_UNAVAILABLE |-> 503]

\* The number a status line begins with; the reason behind it is the code's name.
status_code_to_string(code) ==
  CASE code = "MOVED_PERMANENTLY" -> 300
    [] code = "FOUND" -> 301
    [] OTHER -> HTTPStatusCode[code]

NoHeaders == <<>>
Header(name, value) == [h \in {name} |-> value]
AllMethods == {"GET", "HEAD", "POST", "PUT", "DELETE", "TRACE", "OPTIONS"}

\* A response as operator<< writes it, whatever the order of its parts.
HTTPResponse(code, headers, body) ==
  [number |-> status_code_to_string(code), reason |-> code, headers |-> headers, body |-> body]

Response ==
  [number : Nat, reason : DOMAIN HTTPStatusCode, body : Body \cup {None},
   headers : {NoHeaders, Header("Allow", AllMethods)} \cup {Header("ETag", b) : b \in Body}]

ASSUME ResponseAssumption == None \notin Response

-----------------------------------------------------------------------------
VARIABLES
  store,    \* what the application has at each path
  stamp,    \* when it was written last
  leaving,  \* paths whose deletion was accepted
  belief,   \* what the client takes to be at each path
  request,  \* the request under way
  response  \* the response to it, on its way

vars == <<store, stamp, leaving, belief, request, response>>
app == <<store, stamp, leaving>>

Init ==
  /\ store \in [Path -> Body \cup {Absent, Moved}]
  /\ stamp = [p \in Path |-> 0] /\ leaving = {}
  /\ belief = [p \in Path |-> Unknown]
  /\ request = None /\ response = None

\* At most one of the conditional headers; OPTIONS may also ask for the server.
Conditions ==
  {NoHeaders} \cup {Header(h, t) : h \in {"If-Modified-Since", "If-Unmodified-Since"}, t \in 0 .. MaxStamp}
  \cup {Header(h, b) : h \in {"If-Match", "If-None-Match"}, b \in Body}

Request ==
  [method : {"GET"}, path : Path, headers : Conditions, body : {None}]
  \cup [method : {"POST", "PUT"}, path : Path, headers : {NoHeaders}, body : Body]
  \cup [method : {"DELETE", "HEAD", "OPTIONS"}, path : Path, headers : {NoHeaders}, body : {None}]
  \cup [method : {"OPTIONS", "TRACE"}, path : {"*"}, headers : {NoHeaders}, body : Body \cup {None}]

Send == request = None /\ request' \in Request /\ UNCHANGED <<store, stamp, leaving, belief, response>>

Pending(method) == request # None /\ request.method = method /\ response = None
Reply(r) == response' = r /\ UNCHANGED <<belief, request>>
Answer(code, body) == HTTPResponse(code, NoHeaders, body)

-----------------------------------------------------------------------------
(* The interfaces, as an application may implement them: which results it  *)
(* may give, and what it then does.                                        *)

Here(p) == store[p] \in Body
Place(p) == IF Here(p) THEN "OK" ELSE IF store[p] = Moved THEN "MOVED_PERMANENTLY" ELSE "NOT_FOUND"

\* A condition that fails is an error: GETResultState has no other word for it.
Holds(p, c) ==
  /\ c.modified_since # None => stamp[p] > c.modified_since
  /\ c.unmodified_since # None => stamp[p] <= c.unmodified_since
  /\ c.match # None => store[p] = c.match
  /\ c.none_match # None => store[p] # c.none_match
get(p, c) == {"ERROR"} \cup (IF Here(p) /\ ~Holds(p, c) THEN {} ELSE {Place(p)})
head(p) == IF Here(p) THEN Header("ETag", store[p]) ELSE NoHeaders

Write(p, v) ==
  /\ stamp[p] < MaxStamp
  /\ store' = [store EXCEPT ![p] = v]
  /\ stamp' = [stamp EXCEPT ![p] = @ + 1]
  /\ leaving' = leaving \ {p}

post(p, v, result) ==
  \/ result = "CREATED" /\ ~Here(p) /\ Write(p, v)
  \/ result \in {"OK", "NO_CONTENT"} /\ Here(p) /\ Write(p, v)
  \/ result \in {"SEE_OTHER", "ERROR"} /\ UNCHANGED app
put(p, v, result) ==
  \/ result = "OK" /\ Here(p) /\ Write(p, v)
  \/ result = Place(p) /\ ~Here(p) /\ UNCHANGED app
  \/ result \in {"ERROR", "UNIMPLEMENTED"} /\ UNCHANGED app
del(p, result) ==
  \/ result = "DELETED" /\ Here(p) /\ store' = [store EXCEPT ![p] = Absent] /\ leaving' = leaving \ {p} /\ UNCHANGED stamp
  \/ result = "DELETE_ACCEPTED" /\ Here(p) /\ leaving' = leaving \cup {p} /\ UNCHANGED <<store, stamp>>
  \/ result = "NOT_FOUND" /\ ~Here(p) /\ UNCHANGED app
  \/ result = "ERROR" /\ UNCHANGED app

\* A deletion that was accepted happens.
Purge ==
  /\ \E p \in leaving : store' = [store EXCEPT ![p] = Absent] /\ leaving' = leaving \ {p}
  /\ UNCHANGED <<stamp, belief, request, response>>

-----------------------------------------------------------------------------
(* The handlers.                                                           *)

options_request ==
  /\ Pending("OPTIONS")
  /\ Reply(HTTPResponse("OK", IF request.path = "*" THEN Header("Allow", AllMethods) ELSE NoHeaders, None))
  /\ UNCHANGED app

find_if_exists(headers, key) == IF key \in DOMAIN headers THEN headers[key] ELSE None

\* Faulty: two headers are mixed up.
GETConditionals_Mixed(headers) ==
  [modified_since   |-> find_if_exists(headers, "If-Modified-Since"),
   unmodified_since |-> find_if_exists(headers, "If-Unmodified-Since"),
   match            |-> find_if_exists(headers, "If-None-Match"),
   none_match       |-> find_if_exists(headers, "If-Match")]

GETConditionals(headers) ==
  [modified_since   |-> find_if_exists(headers, "If-Modified-Since"),
   unmodified_since |-> find_if_exists(headers, "If-Unmodified-Since"),
   match            |-> find_if_exists(headers, "If-Match"),
   none_match       |-> find_if_exists(headers, "If-None-Match")]

\* The status for each result.
GETStatus ==
  [OK |-> "OK", NOT_FOUND |-> "NOT_FOUND", ERROR |-> "INTERNAL_SERVER_ERROR", MOVED_PERMANENTLY |-> "MOVED_PERMANENTLY"]
POSTStatus ==
  [OK |-> "OK", CREATED |-> "CREATED", NO_CONTENT |-> "NO_CONTENT", SEE_OTHER |-> "SEE_OTHER",
   ERROR |-> "INTERNAL_SERVER_ERROR"]
PUTStatus ==
  [OK |-> "OK", NOT_FOUND |-> "NOT_FOUND", ERROR |-> "INTERNAL_SERVER_ERROR",
   MOVED_PERMANENTLY |-> "MOVED_PERMANENTLY", UNIMPLEMENTED |-> "NOT_IMPLEMENTED"]

\* Faulty: a deletion that is only accepted is reported as done.
DELETEStatus_Done ==
  [DELETED |-> "OK", DELETE_ACCEPTED |-> "OK", NOT_FOUND |-> "NOT_FOUND", ERROR |-> "INTERNAL_SERVER_ERROR"]

DELETEStatus ==
  [DELETED |-> "OK", DELETE_ACCEPTED |-> "ACCEPTED", NOT_FOUND |-> "NOT_FOUND", ERROR |-> "INTERNAL_SERVER_ERROR"]

get_request ==
  /\ Pending("GET")
  /\ \E result \in get(request.path, GETConditionals(request.headers)) :
       Reply(Answer(GETStatus[result], IF result = "OK" THEN store[request.path] ELSE None))
  /\ UNCHANGED app

head_request == Pending("HEAD") /\ Reply(HTTPResponse("OK", head(request.path), None)) /\ UNCHANGED app

\* The application's body is passed on for OK and CREATED; it is the value that was posted.
post_request ==
  /\ Pending("POST")
  /\ \E result \in DOMAIN POSTStatus :
       /\ post(request.path, request.body, result)
       /\ Reply(Answer(POSTStatus[result], IF result \in {"OK", "CREATED"} THEN request.body ELSE None))

put_request ==
  /\ Pending("PUT")
  /\ \E result \in DOMAIN PUTStatus :
       put(request.path, request.body, result) /\ Reply(Answer(PUTStatus[result], None))

delete_request ==
  /\ Pending("DELETE")
  /\ \E result \in DOMAIN DELETEStatus : del(request.path, result) /\ Reply(Answer(DELETEStatus[result], None))

trace_request == Pending("TRACE") /\ Reply(Answer("OK", request.body)) /\ UNCHANGED app

-----------------------------------------------------------------------------
(* The client reads the number of the status line.  A path it was promised *)
(* the deletion of is left alone until it is written or not found.         *)

Learn(p, v) == [belief EXCEPT ![p] = v]
Look(p, v) == IF belief[p] = Leaving THEN belief ELSE Learn(p, v)
Learned(m, p, n) ==
  CASE m = "GET" /\ n = 200 -> Look(p, response.body)
    [] m = "HEAD" /\ "ETag" \in DOMAIN response.headers -> Look(p, response.headers["ETag"])
    [] m \in {"GET", "PUT", "DELETE"} /\ n = 404 -> Learn(p, Absent)
    [] m \in {"GET", "PUT"} /\ n = 300 -> Learn(p, Choices)
    [] m \in {"GET", "PUT"} /\ n = 301 -> Learn(p, Moved)
    [] m \in {"POST", "PUT"} /\ n \in {200, 201, 204} -> Learn(p, request.body)
    [] m = "DELETE" /\ n = 200 -> Learn(p, Absent)
    [] m = "DELETE" /\ n = 202 -> Learn(p, Leaving)
    [] OTHER -> belief

Receive ==
  /\ response # None
  /\ belief' = Learned(request.method, request.path, response.number)
  /\ request' = None /\ response' = None
  /\ UNCHANGED app

Next ==
  \/ Send \/ Receive \/ Purge
  \/ options_request \/ get_request \/ head_request \/ post_request \/ put_request \/ delete_request \/ trace_request

Spec == Init /\ [][Next]_vars

-----------------------------------------------------------------------------
(* Properties.                                                             *)

(***************************************************************************)
(* What a client concludes from the sequence of status numbers it gets is  *)
(* how things are, but for one number: of a resource that has moved it may *)
(* hear that it is not there, when it deletes it, and what it hears when   *)
(* it gets or puts it is "300", not the 301 of the table in http.hpp, so   *)
(* that it takes it for one of several representations.  Every other       *)
(* result reaches it under a number that means what the application did.   *)
(***************************************************************************)
TellsTruth ==
  \A p \in Path :
    request = None => \/ belief[p] \in {Unknown, Leaving, store[p]}
                      \/ belief[p] \in {Absent, Choices} /\ store[p] = Moved

(***************************************************************************)
(* A conditional GET is answered with content only when the condition the  *)
(* client wrote holds: the four headers reach the application under their  *)
(* own names.                                                              *)
(***************************************************************************)
ConditionHonoured ==
  response # None /\ request.method = "GET" /\ response.number = 200 =>
    \A h \in DOMAIN request.headers :
      /\ h = "If-Modified-Since" => stamp[request.path] > request.headers[h]
      /\ h = "If-Unmodified-Since" => stamp[request.path] <= request.headers[h]
      /\ h = "If-Match" => response.body = request.headers[h]
      /\ h = "If-None-Match" => response.body # request.headers[h]
=============================================================================
