------------------------ MODULE RequestHandlerProofs ------------------------
(***************************************************************************)
(* Proofs about RequestHandler for any resources, contents and number of   *)
(* writes.                                                                 *)
(***************************************************************************)
EXTENDS RequestHandler, TLAPS

USE HandlerAssumption, ResponseAssumption

-----------------------------------------------------------------------------
(* The invariant.                                                          *)

HandlerTyped ==
  /\ store \in [Path -> Body \cup {Absent, Moved}]
  /\ stamp \in [Path -> Nat]
  /\ belief = [p \in Path |-> belief[p]]
  /\ request \in Request \cup {None}
  /\ response \in Response \cup {None}
  /\ request = None => response = None

\* What the client will take to be at each path once it has read what is on its way.
Concluding ==
  IF response = None THEN belief ELSE Learned(request.method, request.path, response.number)

Fits(v, s) == v \in {Unknown, Leaving, s} \/ (v \in {Absent, Choices} /\ s = Moved)

(***************************************************************************)
(* The claim has to be made of what the client is about to conclude: the   *)
(* application may carry out a deletion while a response is on its way.    *)
(* It does so only where the client knows, or is being told, of it.        *)
(***************************************************************************)
Promised ==
  /\ leaving \subseteq {p \in Path : Here(p)}
  /\ \A p \in Path : Fits(Concluding[p], store[p])
  /\ \A p \in leaving : Concluding[p] = Leaving

HandlerInvariant == HandlerTyped /\ Promised /\ ConditionHonoured

-----------------------------------------------------------------------------
(* The status lines.                                                       *)

\* The number under which each status is sent.
LEMMA Numbers ==
  /\ status_code_to_string("OK") = 200
  /\ status_code_to_string("CREATED") = 201
  /\ status_code_to_string("ACCEPTED") = 202
  /\ status_code_to_string("NO_CONTENT") = 204
  /\ status_code_to_string("MOVED_PERMANENTLY") = 300
  /\ status_code_to_string("SEE_OTHER") = 303
  /\ status_code_to_string("NOT_FOUND") = 404
  /\ status_code_to_string("INTERNAL_SERVER_ERROR") = 500
  /\ status_code_to_string("NOT_IMPLEMENTED") = 501
  BY DEF status_code_to_string, HTTPStatusCode

Statuses ==
  {"OK", "CREATED", "ACCEPTED", "NO_CONTENT", "MOVED_PERMANENTLY", "SEE_OTHER", "NOT_FOUND",
   "INTERNAL_SERVER_ERROR", "NOT_IMPLEMENTED"}

LEMMA StatusTyped ==
  ASSUME NEW code \in Statuses
  PROVE  code \in DOMAIN HTTPStatusCode /\ status_code_to_string(code) \in Nat
  <1>1. code \in DOMAIN HTTPStatusCode
    BY DEF Statuses, HTTPStatusCode
  <1> QED BY <1>1, Numbers DEF Statuses

LEMMA ResponseTyped ==
  ASSUME NEW code \in Statuses, NEW body \in Body \cup {None},
         NEW headers \in {NoHeaders, Header("Allow", AllMethods)} \cup {Header("ETag", b) : b \in Body}
  PROVE  /\ HTTPResponse(code, headers, body) \in Response
         /\ HTTPResponse(code, headers, body) # None
         /\ HTTPResponse(code, headers, body).number = status_code_to_string(code)
         /\ HTTPResponse(code, headers, body).headers = headers
         /\ HTTPResponse(code, headers, body).body = body
  <1>1. code \in DOMAIN HTTPStatusCode /\ status_code_to_string(code) \in Nat
    BY StatusTyped
  <1>2. HTTPResponse(code, headers, body) \in Response
    BY <1>1 DEF Response, HTTPResponse
  <1> QED BY <1>2 DEF HTTPResponse

LEMMA AnswerTyped ==
  ASSUME NEW code \in Statuses, NEW body \in Body \cup {None}
  PROVE  /\ Answer(code, body) \in Response
         /\ Answer(code, body) # None
         /\ Answer(code, body).number = status_code_to_string(code)
         /\ Answer(code, body).body = body
  <1>1. NoHeaders \in {NoHeaders, Header("Allow", AllMethods)} \cup {Header("ETag", b) : b \in Body}
    OBVIOUS
  <1> QED BY <1>1, ResponseTyped DEF Answer

\* A condition is one of four headers, and it has a value.
LEMMA ConditionTyped ==
  ASSUME NEW c \in Conditions, NEW h \in DOMAIN c
  PROVE  h \in {"If-Modified-Since", "If-Unmodified-Since", "If-Match", "If-None-Match"} /\ c[h] # None
  <1>1. CASE c = NoHeaders
    BY <1>1 DEF NoHeaders
  <1>2. CASE \E name \in {"If-Modified-Since", "If-Unmodified-Since"} : \E t \in 0 .. MaxStamp : c = Header(name, t)
    BY <1>2 DEF Header
  <1>3. CASE \E name \in {"If-Match", "If-None-Match"} : \E b \in Body : c = Header(name, b)
    BY <1>3 DEF Header
  <1>4. \/ c = NoHeaders
        \/ \E name \in {"If-Modified-Since", "If-Unmodified-Since"} : \E t \in 0 .. MaxStamp : c = Header(name, t)
        \/ \E name \in {"If-Match", "If-None-Match"} : \E b \in Body : c = Header(name, b)
    BY DEF Conditions
  <1> QED BY <1>1, <1>2, <1>3, <1>4

\* What the parts of a request are, by its method.
LEMMA RequestTyped ==
  ASSUME NEW r \in Request
  PROVE  /\ r.method \in AllMethods
         /\ r.method \in {"GET", "HEAD", "POST", "PUT", "DELETE"} => r.path \in Path
         /\ r.method \in {"POST", "PUT"} => r.body \in Body
         /\ r.body \in Body \cup {None}
         /\ r.method = "GET" => r.headers \in Conditions
  BY DEF Request, AllMethods

-----------------------------------------------------------------------------
(* The client.                                                             *)

\* What each method and number means to the client.
Meaning(p, n) ==
  /\ n = 200 => Learned("GET", p, n) = Look(p, response.body)
  /\ n = 404 => Learned("GET", p, n) = Learn(p, Absent)
  /\ n = 300 => Learned("GET", p, n) = Learn(p, Choices)
  /\ n = 301 => Learned("GET", p, n) = Learn(p, Moved)
  /\ n \notin {200, 300, 301, 404} => Learned("GET", p, n) = belief
  /\ "ETag" \in DOMAIN response.headers => Learned("HEAD", p, n) = Look(p, response.headers["ETag"])
  /\ "ETag" \notin DOMAIN response.headers => Learned("HEAD", p, n) = belief
  /\ n \in {200, 201, 204} => Learned("POST", p, n) = Learn(p, request.body)
  /\ n \notin {200, 201, 204} => Learned("POST", p, n) = belief
  /\ n \in {200, 201, 204} => Learned("PUT", p, n) = Learn(p, request.body)
  /\ n = 404 => Learned("PUT", p, n) = Learn(p, Absent)
  /\ n = 300 => Learned("PUT", p, n) = Learn(p, Choices)
  /\ n = 301 => Learned("PUT", p, n) = Learn(p, Moved)
  /\ n \notin {200, 201, 204, 300, 301, 404} => Learned("PUT", p, n) = belief
  /\ n \in {200, 404} => Learned("DELETE", p, n) = Learn(p, Absent)
  /\ n = 202 => Learned("DELETE", p, n) = Learn(p, Leaving)
  /\ n \notin {200, 202, 404} => Learned("DELETE", p, n) = belief
  /\ Learned("OPTIONS", p, n) = belief
  /\ Learned("TRACE", p, n) = belief

LEMMA MeaningOf ==
  ASSUME NEW p, NEW n
  PROVE  Meaning(p, n)
  <1>1. /\ n \in {200, 201, 204} => n # 404 /\ n # 202
        /\ n = 200 => n \in {200, 201, 204}
        /\ n = 404 => n # 200 /\ n # 202 /\ n \notin {200, 201, 204}
        /\ n \in {200, 201, 204} => n # 300 /\ n # 301
        /\ n = 300 => n # 200 /\ n # 404 /\ n # 301
        /\ n = 301 => n # 200 /\ n # 404 /\ n # 300
    OBVIOUS
  <1>2. n = 200 => Learned("GET", p, n) = Look(p, response.body)
    BY <1>1, Zenon DEF Learned
  <1>3. n = 404 => Learned("GET", p, n) = Learn(p, Absent)
    BY <1>1, Zenon DEF Learned
  <1>4. n \notin {200, 300, 301, 404} => Learned("GET", p, n) = belief
    <2> SUFFICES ASSUME n \notin {200, 300, 301, 404} PROVE Learned("GET", p, n) = belief
      OBVIOUS
    <2>1. n # 200 /\ n # 300 /\ n # 301 /\ n # 404
      OBVIOUS
    <2> QED BY ONLY <2>1, Zenon DEF Learned
  <1>5. "ETag" \in DOMAIN response.headers => Learned("HEAD", p, n) = Look(p, response.headers["ETag"])
    BY <1>1, Zenon DEF Learned
  <1>6. "ETag" \notin DOMAIN response.headers => Learned("HEAD", p, n) = belief
    BY <1>1, Zenon DEF Learned
  <1>7. n \in {200, 201, 204} => Learned("POST", p, n) = Learn(p, request.body)
    BY <1>1, Zenon DEF Learned
  <1>8. n \notin {200, 201, 204} => Learned("POST", p, n) = belief
    BY <1>1, Zenon DEF Learned
  <1>9. n \in {200, 201, 204} => Learned("PUT", p, n) = Learn(p, request.body)
    BY <1>1, Zenon DEF Learned
  <1>10. n = 404 => Learned("PUT", p, n) = Learn(p, Absent)
    BY <1>1, Zenon DEF Learned
  <1>11. n \notin {200, 201, 204, 300, 301, 404} => Learned("PUT", p, n) = belief
    <2> SUFFICES ASSUME n \notin {200, 201, 204, 300, 301, 404} PROVE Learned("PUT", p, n) = belief
      OBVIOUS
    <2>1. n \notin {200, 201, 204} /\ n # 200 /\ n # 300 /\ n # 301 /\ n # 404
      OBVIOUS
    <2> QED BY ONLY <2>1, Zenon DEF Learned
  <1>12. n \in {200, 404} => Learned("DELETE", p, n) = Learn(p, Absent)
    <2>1. n = 404 => Learned("DELETE", p, n) = Learn(p, Absent)
      BY <1>1, Zenon DEF Learned
    <2>2. n = 200 => Learned("DELETE", p, n) = Learn(p, Absent)
      BY <1>1, Zenon DEF Learned
    <2> QED BY <2>1, <2>2
  <1>13. n = 202 => Learned("DELETE", p, n) = Learn(p, Leaving)
    BY <1>1, Zenon DEF Learned
  <1>14. n \notin {200, 202, 404} => Learned("DELETE", p, n) = belief
    <2> SUFFICES ASSUME n \notin {200, 202, 404} PROVE Learned("DELETE", p, n) = belief
      OBVIOUS
    <2>1. n # 200 /\ n # 202 /\ n # 404
      OBVIOUS
    <2> QED BY ONLY <2>1, Zenon DEF Learned
  <1>15. Learned("OPTIONS", p, n) = belief
    BY <1>1, Zenon DEF Learned
  <1>16. Learned("TRACE", p, n) = belief
    BY <1>1, Zenon DEF Learned
  <1>17. n = 300 => Learned("GET", p, n) = Learn(p, Choices) /\ Learned("PUT", p, n) = Learn(p, Choices)
    <2> SUFFICES ASSUME n = 300
                 PROVE  Learned("GET", p, n) = Learn(p, Choices) /\ Learned("PUT", p, n) = Learn(p, Choices)
      OBVIOUS
    <2>1. n = 300 /\ n # 200 /\ n # 404 /\ n # 301 /\ n \notin {200, 201, 204}
      OBVIOUS
    <2>2. Learned("GET", p, n) = Learn(p, Choices)
      BY ONLY <2>1, SMT DEF Learned
    <2>3. Learned("PUT", p, n) = Learn(p, Choices)
      BY ONLY <2>1, SMT DEF Learned
    <2> QED BY <2>2, <2>3
  <1>18. n = 301 => Learned("GET", p, n) = Learn(p, Moved) /\ Learned("PUT", p, n) = Learn(p, Moved)
    <2> SUFFICES ASSUME n = 301
                 PROVE  Learned("GET", p, n) = Learn(p, Moved) /\ Learned("PUT", p, n) = Learn(p, Moved)
      OBVIOUS
    <2>1. n = 301 /\ n # 200 /\ n # 404 /\ n # 300 /\ n \notin {200, 201, 204}
      OBVIOUS
    <2>2. Learned("GET", p, n) = Learn(p, Moved)
      BY ONLY <2>1, SMT DEF Learned
    <2>3. Learned("PUT", p, n) = Learn(p, Moved)
      BY ONLY <2>1, SMT DEF Learned
    <2> QED BY <2>2, <2>3
  <1> QED
    BY <1>17, <1>18, <1>2, <1>3, <1>4, <1>5, <1>6, <1>7, <1>8, <1>9, <1>10,
       <1>11, <1>12, <1>13, <1>14, <1>15, <1>16 DEF Meaning

Meanings == \A p, n : Meaning(p, n)

LEMMA MeaningsHold == Meanings
  BY MeaningOf DEF Meanings

LEMMA MeaningsNext == Meanings'
  BY MeaningsHold, PTL

(***************************************************************************)
(* A handler has answered with r: what the client is about to conclude.    *)
(***************************************************************************)
LEMMA Answered ==
  ASSUME response = None, UNCHANGED <<belief, request>>, NEW r \in Response, response' = r,
         NEW m, request.method = m, NEW p, request.path = p
  PROVE  LET n == r.number
             Told(v) == [belief EXCEPT ![p] = v]
             Seen(v) == IF belief[p] = Leaving THEN belief ELSE Told(v)
         IN /\ m = "GET" /\ n = 200 => Concluding' = Seen(r.body)
            /\ m = "GET" /\ n = 404 => Concluding' = Told(Absent)
            /\ m = "GET" /\ n = 300 => Concluding' = Told(Choices)
            /\ m = "GET" /\ n \notin {200, 300, 301, 404} => Concluding' = belief
            /\ m = "HEAD" /\ "ETag" \in DOMAIN r.headers => Concluding' = Seen(r.headers["ETag"])
            /\ m = "HEAD" /\ "ETag" \notin DOMAIN r.headers => Concluding' = belief
            /\ m = "POST" /\ n \in {200, 201, 204} => Concluding' = Told(request.body)
            /\ m = "POST" /\ n \notin {200, 201, 204} => Concluding' = belief
            /\ m = "PUT" /\ n \in {200, 201, 204} => Concluding' = Told(request.body)
            /\ m = "PUT" /\ n = 404 => Concluding' = Told(Absent)
            /\ m = "PUT" /\ n = 300 => Concluding' = Told(Choices)
            /\ m = "PUT" /\ n \notin {200, 201, 204, 300, 301, 404} => Concluding' = belief
            /\ m = "DELETE" /\ n \in {200, 404} => Concluding' = Told(Absent)
            /\ m = "DELETE" /\ n = 202 => Concluding' = Told(Leaving)
            /\ m = "DELETE" /\ n \notin {200, 202, 404} => Concluding' = belief
            /\ m \in {"OPTIONS", "TRACE"} => Concluding' = belief
  <1> DEFINE n == r.number
  <1>1. response' # None
    OBVIOUS
  <1>2. Concluding' = Learned(m, p, n)'
    BY <1>1 DEF Concluding, Learned
  <1>3. Meaning(p, n)'
    BY MeaningsNext DEF Meanings
  <1> HIDE DEF n
  <1> USE DEF Meaning, Look, Learn
  <1>5. CASE m = "GET"
    BY <1>2, <1>3, <1>5 DEF n
  <1>6. CASE m = "HEAD"
    BY <1>2, <1>3, <1>6 DEF n
  <1>7. CASE m = "POST"
    BY <1>2, <1>3, <1>7 DEF n
  <1>8. CASE m = "PUT"
    BY <1>2, <1>3, <1>8 DEF n
  <1>9. CASE m = "DELETE"
    BY <1>2, <1>3, <1>9 DEF n
  <1>10. CASE m \in {"OPTIONS", "TRACE"}
    BY <1>2, <1>3, <1>10 DEF n
  <1> QED BY <1>5, <1>6, <1>7, <1>8, <1>9, <1>10

-----------------------------------------------------------------------------
(* The steps.                                                              *)

\* A handler's request, and its answer by way of Reply.
LEMMA PendingTyped ==
  ASSUME HandlerTyped, NEW m, Pending(m)
  PROVE  request \in Request /\ request # None /\ request.method = m /\ response = None /\ Concluding = belief
  BY DEF HandlerTyped, Pending, Concluding

\* Nothing at the application changes and the client is told nothing new.
LEMMA NothingNew ==
  ASSUME Promised, UNCHANGED <<store, leaving>>, Concluding' = Concluding
  PROVE  Promised'
  BY DEF Promised, Here, Fits

\* Of one path the client is told something that fits; the application left the others alone.
LEMMA OneFits ==
  ASSUME HandlerTyped, Promised, Concluding = belief, NEW p \in Path, NEW v,
         Concluding' = [belief EXCEPT ![p] = v], Fits(v, store'[p]),
         \A q \in Path : q # p => store'[q] = store[q],
         leaving' \subseteq leaving \cup {p},
         p \in leaving' => v = Leaving /\ store'[p] \in Body
  PROVE  Promised'
  <1>1. \A q \in Path : Concluding'[q] = IF q = p THEN v ELSE belief[q]
    BY DEF HandlerTyped
  <1>2. \A q \in Path : Fits(Concluding'[q], store'[q])
    BY <1>1 DEF Promised, Fits
  <1>3. leaving' \subseteq {q \in Path : store'[q] \in Body}
    BY DEF Promised, Here
  <1>4. \A q \in leaving' : Concluding'[q] = Leaving
    BY <1>1, <1>3 DEF Promised
  <1> QED BY <1>2, <1>3, <1>4 DEF Promised, Fits, Here

LEMMA GetStep ==
  ASSUME HandlerInvariant, get_request
  PROVE  HandlerInvariant'
  <1> USE DEF HandlerInvariant
  <1>1. request \in Request /\ request # None /\ request.method = "GET" /\ response = None /\ Concluding = belief
    BY PendingTyped DEF get_request
  <1>2. request.path \in Path /\ request.headers \in Conditions
    BY <1>1, RequestTyped
  <1>3. PICK p \in Path : p = request.path
    BY <1>2
  <1>4. PICK result \in get(p, GETConditionals(request.headers)) :
          Reply(Answer(GETStatus[result], IF result = "OK" THEN store[p] ELSE None))
    BY <1>3 DEF get_request
  <1>5. UNCHANGED <<belief, request, store, stamp, leaving>>
    BY <1>4 DEF get_request, Reply, app
  <1>6. store[p] \in Body \cup {Absent, Moved}
    BY DEF HandlerTyped
  <1>7. /\ result \in {"OK", "NOT_FOUND", "ERROR", "MOVED_PERMANENTLY"}
        /\ result = "OK" => store[p] \in Body /\ Holds(p, GETConditionals(request.headers))
        /\ result = "NOT_FOUND" => store[p] = Absent /\ ~Here(p)
        /\ result = "MOVED_PERMANENTLY" => store[p] = Moved /\ ~Here(p)
    BY <1>4, <1>6 DEF get, Place, Here
  <1> DEFINE body == IF result = "OK" THEN store[p] ELSE None
             r == Answer(GETStatus[result], body)
  <1>8. /\ GETStatus[result] \in Statuses
        /\ result = "OK" => GETStatus[result] = "OK"
        /\ result = "NOT_FOUND" => GETStatus[result] = "NOT_FOUND"
        /\ result = "ERROR" => GETStatus[result] = "INTERNAL_SERVER_ERROR"
        /\ result = "MOVED_PERMANENTLY" => GETStatus[result] = "MOVED_PERMANENTLY"
    BY <1>7 DEF GETStatus, Statuses
  <1>9. body \in Body \cup {None}
    BY <1>7
  <1>10. r \in Response /\ r # None /\ r.number = status_code_to_string(GETStatus[result]) /\ r.body = body
    BY <1>8, <1>9, AnswerTyped
  <1>11. response' = r
    BY <1>4 DEF Reply
  <1> HIDE DEF r
  <1>12. HandlerTyped'
    BY <1>1, <1>5, <1>10, <1>11 DEF HandlerTyped
  <1>13. /\ result = "OK" => r.number = 200
         /\ result = "NOT_FOUND" => r.number = 404
         /\ result = "MOVED_PERMANENTLY" => r.number = 300
         /\ result = "ERROR" => r.number \notin {200, 300, 301, 404}
    BY <1>8, <1>10, Numbers
  <1>14. Promised'
    <2>1. CASE result = "OK"
      <3>1. Concluding' = IF belief[p] = Leaving THEN belief ELSE [belief EXCEPT ![p] = store[p]]
        BY <1>1, <1>3, <1>5, <1>10, <1>11, <1>13, <2>1, Answered
      <3>2. CASE belief[p] = Leaving
        BY <1>1, <1>5, <3>1, <3>2, NothingNew
      <3>3. CASE belief[p] # Leaving
        <4>1. Fits(store[p], store'[p]) /\ p \notin leaving'
          BY <1>1, <1>5, <3>3 DEF Fits, Promised
        <4> QED BY <1>1, <1>5, <3>1, <3>3, <4>1, OneFits
      <3> QED BY <3>2, <3>3
    <2>2. CASE result = "NOT_FOUND"
      <3>1. Concluding' = [belief EXCEPT ![p] = Absent]
        BY <1>1, <1>3, <1>5, <1>10, <1>11, <1>13, <2>2, Answered
      <3>2. Fits(Absent, store'[p]) /\ p \notin leaving'
        BY <1>5, <1>7, <2>2 DEF Fits, Promised
      <3> QED BY <1>1, <1>5, <3>1, <3>2, OneFits
    <2>3. CASE result = "MOVED_PERMANENTLY"
      <3>1. Concluding' = [belief EXCEPT ![p] = Choices]
        BY <1>1, <1>3, <1>5, <1>10, <1>11, <1>13, <2>3, Answered
      <3>2. Fits(Choices, store'[p]) /\ p \notin leaving'
        BY <1>5, <1>7, <2>3 DEF Fits, Promised
      <3> QED BY <1>1, <1>5, <3>1, <3>2, OneFits
    <2>4. CASE result = "ERROR"
      <3>1. Concluding' = Concluding
        BY <1>1, <1>3, <1>5, <1>10, <1>11, <1>13, <2>4, Answered
      <3> QED BY <1>5, <3>1, NothingNew
    <2> QED BY <1>7, <2>1, <2>2, <2>3, <2>4
  <1>15. ConditionHonoured'
    <2> SUFFICES ASSUME r.number = 200, NEW h \in DOMAIN request.headers
                 PROVE  /\ h = "If-Modified-Since" => stamp[p] > request.headers[h]
                        /\ h = "If-Unmodified-Since" => stamp[p] <= request.headers[h]
                        /\ h = "If-Match" => r.body = request.headers[h]
                        /\ h = "If-None-Match" => r.body # request.headers[h]
      BY <1>3, <1>5, <1>11 DEF ConditionHonoured
    <2>1. result = "OK"
      BY <1>7, <1>13
    <2>2. Holds(p, GETConditionals(request.headers)) /\ r.body = store[p]
      BY <1>7, <1>10, <2>1
    <2>3. h \in {"If-Modified-Since", "If-Unmodified-Since", "If-Match", "If-None-Match"}
          /\ request.headers[h] # None
      BY <1>2, ConditionTyped
    <2> QED BY <2>2, <2>3 DEF Holds, GETConditionals, find_if_exists
  <1> QED BY <1>12, <1>14, <1>15

\* What is left to show of a handler other than that of GET.
LEMMA Handled ==
  ASSUME HandlerInvariant, NEW m, m # "GET", Pending(m), NEW r \in Response, Reply(r),
         store' \in [Path -> Body \cup {Absent, Moved}], stamp' \in [Path -> Nat], Promised'
  PROVE  HandlerInvariant'
  <1>1. request \in Request /\ request # None /\ request.method = m
    BY PendingTyped DEF HandlerInvariant
  <1>2. response' = r /\ UNCHANGED <<belief, request>>
    BY DEF Reply
  <1>3. HandlerTyped'
    BY <1>1, <1>2 DEF HandlerTyped, HandlerInvariant
  <1>4. ConditionHonoured'
    BY <1>1, <1>2 DEF ConditionHonoured
  <1> QED BY <1>3, <1>4 DEF HandlerInvariant

\* The application wrote what the client sent, and the client is told so.
LEMMA Written ==
  ASSUME HandlerTyped, Promised, Concluding = belief, NEW p \in Path, NEW v \in Body, Write(p, v),
         Concluding' = [belief EXCEPT ![p] = v]
  PROVE  Promised' /\ store' \in [Path -> Body \cup {Absent, Moved}] /\ stamp' \in [Path -> Nat]
  <1>1. store' \in [Path -> Body \cup {Absent, Moved}] /\ stamp' \in [Path -> Nat]
    BY DEF HandlerTyped, Write
  <1>2. store'[p] = v /\ \A q \in Path : q # p => store'[q] = store[q]
    BY DEF HandlerTyped, Write
  <1>3. leaving' = leaving \ {p}
    BY DEF Write
  <1>4. Fits(v, store'[p])
    BY <1>2 DEF Fits
  <1> QED BY <1>1, <1>2, <1>3, <1>4, OneFits

\* Nothing happened and the client is told nothing.
LEMMA Refused ==
  ASSUME HandlerTyped, Promised, Concluding' = Concluding, UNCHANGED app
  PROVE  Promised' /\ store' \in [Path -> Body \cup {Absent, Moved}] /\ stamp' \in [Path -> Nat]
  BY NothingNew DEF HandlerTyped, app

\* There is nothing at the path, here or at all, and the client is told so.
LEMMA NotFound ==
  ASSUME HandlerTyped, Promised, Concluding = belief, NEW p \in Path, ~Here(p), UNCHANGED app,
         Concluding' = [belief EXCEPT ![p] = Absent]
  PROVE  Promised' /\ store' \in [Path -> Body \cup {Absent, Moved}] /\ stamp' \in [Path -> Nat]
  <1>1. UNCHANGED <<store, stamp, leaving>>
    BY DEF app
  <1>2. Fits(Absent, store'[p]) /\ p \notin leaving'
    BY <1>1 DEF Fits, Promised, Here, HandlerTyped
  <1> QED BY <1>1, <1>2, OneFits DEF HandlerTyped

LEMMA PostStep ==
  ASSUME HandlerInvariant, post_request
  PROVE  HandlerInvariant'
  <1>1. /\ request \in Request /\ request # None /\ request.method = "POST" /\ response = None
        /\ Concluding = belief /\ HandlerTyped /\ Promised
    BY PendingTyped DEF post_request, HandlerInvariant
  <1>2. request.path \in Path /\ request.body \in Body
    BY <1>1, RequestTyped
  <1>3. PICK p \in Path, v \in Body : p = request.path /\ v = request.body
    BY <1>2
  <1>4. PICK result \in DOMAIN POSTStatus :
          /\ post(p, v, result)
          /\ Reply(Answer(POSTStatus[result], IF result \in {"OK", "CREATED"} THEN v ELSE None))
    BY <1>3 DEF post_request
  <1> DEFINE body == IF result \in {"OK", "CREATED"} THEN v ELSE None
             r == Answer(POSTStatus[result], body)
  <1>5. POSTStatus[result] \in Statuses /\ body \in Body \cup {None}
    BY DEF POSTStatus, Statuses
  <1>6. /\ r \in Response /\ r.number = status_code_to_string(POSTStatus[result])
    BY <1>5, AnswerTyped
  <1>7. /\ result \in {"OK", "CREATED", "NO_CONTENT"} => r.number \in {200, 201, 204}
        /\ result \in {"SEE_OTHER", "ERROR"} => r.number \notin {200, 201, 204}
    BY <1>6, Numbers DEF POSTStatus
  <1>8. Reply(r)
    BY <1>4
  <1> HIDE DEF r
  <1>9. UNCHANGED <<belief, request>> /\ response' = r
    BY <1>8 DEF Reply
  <1>10. Promised' /\ store' \in [Path -> Body \cup {Absent, Moved}] /\ stamp' \in [Path -> Nat]
    <2>1. CASE result \in {"OK", "CREATED", "NO_CONTENT"} /\ Write(p, v)
      <3>1. Concluding' = [belief EXCEPT ![p] = v]
        BY <1>1, <1>3, <1>6, <1>7, <1>9, <2>1, Answered
      <3> QED BY <1>1, <2>1, <3>1, Written
    <2>2. CASE result \in {"SEE_OTHER", "ERROR"} /\ UNCHANGED app
      <3>1. Concluding' = Concluding
        BY <1>1, <1>3, <1>6, <1>7, <1>9, <2>2, Answered
      <3> QED BY <1>1, <2>2, <3>1, Refused
    <2> QED BY <1>4, <2>1, <2>2 DEF post
  <1> QED BY <1>6, <1>8, <1>10, Handled DEF post_request

LEMMA PutStep ==
  ASSUME HandlerInvariant, put_request
  PROVE  HandlerInvariant'
  <1>1. /\ request \in Request /\ request # None /\ request.method = "PUT" /\ response = None
        /\ Concluding = belief /\ HandlerTyped /\ Promised
    BY PendingTyped DEF put_request, HandlerInvariant
  <1>2. request.path \in Path /\ request.body \in Body
    BY <1>1, RequestTyped
  <1>3. PICK p \in Path, v \in Body : p = request.path /\ v = request.body
    BY <1>2
  <1>4. PICK result \in DOMAIN PUTStatus : put(p, v, result) /\ Reply(Answer(PUTStatus[result], None))
    BY <1>3 DEF put_request
  <1> DEFINE r == Answer(PUTStatus[result], None)
  <1>5. PUTStatus[result] \in Statuses
    BY DEF PUTStatus, Statuses
  <1>6. /\ r \in Response /\ r.number = status_code_to_string(PUTStatus[result])
    BY <1>5, AnswerTyped
  <1>7. /\ result = "OK" => r.number = 200
        /\ result = "NOT_FOUND" => r.number = 404
        /\ result = "MOVED_PERMANENTLY" => r.number = 300
        /\ result \in {"ERROR", "UNIMPLEMENTED"} => r.number \notin {200, 201, 204, 300, 301, 404}
    BY <1>6, Numbers DEF PUTStatus
  <1>8. Reply(r)
    BY <1>4
  <1> HIDE DEF r
  <1>9. UNCHANGED <<belief, request>> /\ response' = r
    BY <1>8 DEF Reply
  <1>10. Promised' /\ store' \in [Path -> Body \cup {Absent, Moved}] /\ stamp' \in [Path -> Nat]
    <2>1. CASE result = "OK" /\ Write(p, v)
      <3>1. Concluding' = [belief EXCEPT ![p] = v]
        BY <1>1, <1>3, <1>6, <1>7, <1>9, <2>1, Answered
      <3> QED BY <1>1, <2>1, <3>1, Written
    <2>2. CASE result = "NOT_FOUND" /\ ~Here(p) /\ UNCHANGED app
      <3>1. Concluding' = [belief EXCEPT ![p] = Absent]
        BY <1>1, <1>3, <1>6, <1>7, <1>9, <2>2, Answered
      <3> QED BY <1>1, <2>2, <3>1, NotFound
    <2>3. CASE result = "MOVED_PERMANENTLY" /\ store[p] = Moved /\ ~Here(p) /\ UNCHANGED app
      <3>1. Concluding' = [belief EXCEPT ![p] = Choices]
        BY <1>1, <1>3, <1>6, <1>7, <1>9, <2>3, Answered
      <3>2. UNCHANGED <<store, stamp, leaving>> /\ store[p] = Moved
        BY <2>3 DEF app
      <3>3. Fits(Choices, store'[p]) /\ p \notin leaving'
        BY <1>1, <2>3, <3>2 DEF Fits, Promised
      <3> QED BY <1>1, <3>1, <3>2, <3>3, OneFits DEF HandlerTyped
    <2>4. CASE result \in {"ERROR", "UNIMPLEMENTED"} /\ UNCHANGED app
      <3>1. Concluding' = Concluding
        BY <1>1, <1>3, <1>6, <1>7, <1>9, <2>4, Answered
      <3> QED BY <1>1, <2>4, <3>1, Refused
    <2>5. result = Place(p) /\ ~Here(p) => \/ result = "NOT_FOUND"
                                           \/ result = "MOVED_PERMANENTLY" /\ store[p] = Moved
      BY DEF Place
    <2> QED BY <1>4, <2>1, <2>2, <2>3, <2>4, <2>5 DEF put
  <1> QED BY <1>6, <1>8, <1>10, Handled DEF put_request

LEMMA DeleteStep ==
  ASSUME HandlerInvariant, delete_request
  PROVE  HandlerInvariant'
  <1>1. /\ request \in Request /\ request # None /\ request.method = "DELETE" /\ response = None
        /\ Concluding = belief /\ HandlerTyped /\ Promised
    BY PendingTyped DEF delete_request, HandlerInvariant
  <1>2. request.path \in Path
    BY <1>1, RequestTyped
  <1>3. PICK p \in Path : p = request.path
    BY <1>2
  <1>4. PICK result \in DOMAIN DELETEStatus : del(p, result) /\ Reply(Answer(DELETEStatus[result], None))
    BY <1>3 DEF delete_request
  <1> DEFINE r == Answer(DELETEStatus[result], None)
  <1>5. DELETEStatus[result] \in Statuses
    BY DEF DELETEStatus, Statuses
  <1>6. /\ r \in Response /\ r.number = status_code_to_string(DELETEStatus[result])
    BY <1>5, AnswerTyped
  <1>7. /\ result \in {"DELETED", "NOT_FOUND"} => r.number \in {200, 404}
        /\ result = "DELETE_ACCEPTED" => r.number = 202
        /\ result = "ERROR" => r.number \notin {200, 202, 404}
    BY <1>6, Numbers DEF DELETEStatus
  <1>8. Reply(r)
    BY <1>4
  <1> HIDE DEF r
  <1>9. UNCHANGED <<belief, request>> /\ response' = r
    BY <1>8 DEF Reply
  <1>10. Promised' /\ store' \in [Path -> Body \cup {Absent, Moved}] /\ stamp' \in [Path -> Nat]
    <2>1. CASE /\ result = "DELETED"
               /\ store' = [store EXCEPT ![p] = Absent] /\ leaving' = leaving \ {p} /\ UNCHANGED stamp
      <3>1. Concluding' = [belief EXCEPT ![p] = Absent]
        BY <1>1, <1>3, <1>6, <1>7, <1>9, <2>1, Answered
      <3>2. /\ store' \in [Path -> Body \cup {Absent, Moved}] /\ stamp' \in [Path -> Nat]
            /\ store'[p] = Absent /\ \A q \in Path : q # p => store'[q] = store[q]
        BY <1>1, <2>1 DEF HandlerTyped
      <3>3. Fits(Absent, store'[p])
        BY <3>2 DEF Fits
      <3> QED BY <1>1, <2>1, <3>1, <3>2, <3>3, OneFits
    <2>2. CASE result = "DELETE_ACCEPTED" /\ Here(p) /\ leaving' = leaving \cup {p} /\ UNCHANGED <<store, stamp>>
      <3>1. Concluding' = [belief EXCEPT ![p] = Leaving]
        BY <1>1, <1>3, <1>6, <1>7, <1>9, <2>2, Answered
      <3>2. Fits(Leaving, store'[p]) /\ store'[p] \in Body
        BY <2>2 DEF Fits, Here
      <3> QED BY <1>1, <2>2, <3>1, <3>2, OneFits DEF HandlerTyped
    <2>3. CASE result = "NOT_FOUND" /\ ~Here(p) /\ UNCHANGED app
      <3>1. Concluding' = [belief EXCEPT ![p] = Absent]
        BY <1>1, <1>3, <1>6, <1>7, <1>9, <2>3, Answered
      <3> QED BY <1>1, <2>3, <3>1, NotFound
    <2>4. CASE result = "ERROR" /\ UNCHANGED app
      <3>1. Concluding' = Concluding
        BY <1>1, <1>3, <1>6, <1>7, <1>9, <2>4, Answered
      <3> QED BY <1>1, <2>4, <3>1, Refused
    <2> QED BY <1>4, <2>1, <2>2, <2>3, <2>4 DEF del
  <1> QED BY <1>6, <1>8, <1>10, Handled DEF delete_request

LEMMA HeadStep ==
  ASSUME HandlerInvariant, head_request
  PROVE  HandlerInvariant'
  <1>1. /\ request \in Request /\ request # None /\ request.method = "HEAD" /\ response = None
        /\ Concluding = belief /\ HandlerTyped /\ Promised
    BY PendingTyped DEF head_request, HandlerInvariant
  <1>2. request.path \in Path
    BY <1>1, RequestTyped
  <1>3. PICK p \in Path : p = request.path
    BY <1>2
  <1> DEFINE r == HTTPResponse("OK", head(p), None)
  <1>4. head(p) \in {NoHeaders, Header("Allow", AllMethods)} \cup {Header("ETag", b) : b \in Body}
    BY DEF head, Here
  <1>5. r \in Response /\ r.headers = head(p)
    BY <1>4, ResponseTyped DEF Statuses
  <1>6. Reply(r) /\ UNCHANGED app
    BY <1>3 DEF head_request
  <1> HIDE DEF r
  <1>7. UNCHANGED <<belief, request>> /\ response' = r
    BY <1>6 DEF Reply
  <1>8. UNCHANGED <<store, stamp, leaving>>
    BY <1>6 DEF app
  <1>9. Promised'
    <2>1. CASE Here(p)
      <3>1. "ETag" \in DOMAIN r.headers /\ r.headers["ETag"] = store[p]
        BY <1>5, <2>1 DEF head, Header
      <3>2. Concluding' = IF belief[p] = Leaving THEN belief ELSE [belief EXCEPT ![p] = store[p]]
        BY <1>1, <1>3, <1>5, <1>7, <3>1, Answered
      <3>3. CASE belief[p] = Leaving
        BY <1>1, <1>8, <3>2, <3>3, NothingNew
      <3>4. CASE belief[p] # Leaving
        <4>1. Fits(store[p], store'[p]) /\ p \notin leaving'
          BY <1>1, <1>8, <3>4 DEF Fits, Promised
        <4> QED BY <1>1, <1>8, <3>2, <3>4, <4>1, OneFits
      <3> QED BY <3>3, <3>4
    <2>2. CASE ~Here(p)
      <3>1. "ETag" \notin DOMAIN r.headers
        BY <1>5, <2>2 DEF head, NoHeaders
      <3>2. Concluding' = Concluding
        BY <1>1, <1>3, <1>5, <1>7, <3>1, Answered
      <3> QED BY <1>1, <1>8, <3>2, NothingNew
    <2> QED BY <2>1, <2>2
  <1>10. store' \in [Path -> Body \cup {Absent, Moved}] /\ stamp' \in [Path -> Nat]
    BY <1>1, <1>8 DEF HandlerTyped
  <1> QED BY <1>5, <1>6, <1>9, <1>10, Handled DEF head_request

LEMMA SilentStep ==
  ASSUME HandlerInvariant, options_request \/ trace_request
  PROVE  HandlerInvariant'
  <1>1. PICK m \in {"OPTIONS", "TRACE"} : Pending(m)
    BY DEF options_request, trace_request
  <1>2. /\ request \in Request /\ request # None /\ request.method = m /\ response = None
        /\ Concluding = belief /\ HandlerTyped /\ Promised
    BY <1>1, PendingTyped DEF HandlerInvariant
  <1>3. PICK r \in Response : Reply(r)
    <2>1. CASE options_request
      <3> DEFINE headers == IF request.path = "*" THEN Header("Allow", AllMethods) ELSE NoHeaders
      <3>1. headers \in {NoHeaders, Header("Allow", AllMethods)} \cup {Header("ETag", b) : b \in Body}
        OBVIOUS
      <3>2. HTTPResponse("OK", headers, None) \in Response
        BY <3>1, ResponseTyped DEF Statuses
      <3> QED BY <2>1, <3>2 DEF options_request
    <2>2. CASE trace_request
      <3>1. request.body \in Body \cup {None}
        BY <1>2, RequestTyped
      <3>2. Answer("OK", request.body) \in Response
        BY <3>1, AnswerTyped DEF Statuses
      <3> QED BY <2>2, <3>2 DEF trace_request
    <2> QED BY <2>1, <2>2
  <1>4. UNCHANGED <<belief, request>> /\ response' = r
    BY <1>3 DEF Reply
  <1>5. Concluding' = Concluding
    BY <1>2, <1>4, Answered
  <1>6. UNCHANGED app
    BY DEF options_request, trace_request
  <1> QED BY <1>1, <1>2, <1>3, <1>5, <1>6, Refused, Handled

LEMMA SendStep ==
  ASSUME HandlerInvariant, Send
  PROVE  HandlerInvariant'
  <1>1. response = None /\ UNCHANGED <<store, stamp, leaving, belief, response>> /\ request' \in Request
    BY DEF Send, HandlerInvariant, HandlerTyped
  <1>2. Concluding = belief /\ Concluding' = belief
    BY <1>1 DEF Concluding
  <1>3. Promised'
    BY <1>1, <1>2, NothingNew DEF HandlerInvariant
  <1>4. HandlerTyped'
    BY <1>1 DEF HandlerInvariant, HandlerTyped
  <1>5. ConditionHonoured'
    BY <1>1 DEF ConditionHonoured
  <1> QED BY <1>3, <1>4, <1>5 DEF HandlerInvariant

\* A deletion the client was promised happens, whatever is on its way to it.
LEMMA PurgeStep ==
  ASSUME HandlerInvariant, Purge
  PROVE  HandlerInvariant'
  <1>1. PICK p \in leaving : store' = [store EXCEPT ![p] = Absent] /\ leaving' = leaving \ {p}
    BY DEF Purge
  <1>2. UNCHANGED <<stamp, belief, request, response>>
    BY DEF Purge
  <1>3. Concluding' = Concluding
    BY <1>2 DEF Concluding, Learned, Look, Learn
  <1>4. p \in Path /\ Concluding[p] = Leaving /\ store \in [Path -> Body \cup {Absent, Moved}]
    BY DEF HandlerInvariant, Promised, HandlerTyped
  <1>5. store'[p] = Absent /\ \A q \in Path : q # p => store'[q] = store[q]
    BY <1>1, <1>4
  <1>6. Promised'
    BY <1>1, <1>3, <1>4, <1>5 DEF HandlerInvariant, Promised, Here, Fits
  <1>7. HandlerTyped'
    BY <1>1, <1>2, <1>4 DEF HandlerInvariant, HandlerTyped
  <1>8. ConditionHonoured'
    BY <1>2 DEF HandlerInvariant, ConditionHonoured
  <1> QED BY <1>6, <1>7, <1>8 DEF HandlerInvariant

LEMMA ReceiveStep ==
  ASSUME HandlerInvariant, Receive
  PROVE  HandlerInvariant'
  <1>1. UNCHANGED <<store, stamp, leaving>> /\ response' = None /\ request' = None
    BY DEF Receive, app
  <1>2. Concluding' = Concluding
    BY <1>1 DEF Receive, Concluding
  <1>3. Promised'
    BY <1>1, <1>2, NothingNew DEF HandlerInvariant
  <1>4. belief' = [p \in Path |-> belief'[p]]
    <2>1. \A p, v : Learn(p, v) = [q \in Path |-> Learn(p, v)[q]]
      BY DEF Learn, HandlerInvariant, HandlerTyped
    <2>2. \A p, v : Look(p, v) = [q \in Path |-> Look(p, v)[q]]
      BY <2>1 DEF Look, HandlerInvariant, HandlerTyped
    <2>3. belief = [p \in Path |-> belief[p]]
      BY DEF HandlerInvariant, HandlerTyped
    <2>4. request \in Request
      BY DEF HandlerInvariant, HandlerTyped, Receive
    <2>5. PICK m, p, n : m \in AllMethods /\ m = request.method /\ p = request.path /\ n = response.number
      BY <2>4, RequestTyped
    <2>6. Meaning(p, n) /\ belief' = Learned(m, p, n)
      BY <2>5, MeaningOf DEF Receive
    <2>7. \/ belief' = belief
          \/ \E v : belief' = Learn(p, v) \/ belief' = Look(p, v)
      <3>1. CASE m = "GET"
        BY <2>6, <3>1 DEF Meaning
      <3>2. CASE m = "HEAD"
        BY <2>6, <3>2 DEF Meaning
      <3>3. CASE m = "POST"
        BY <2>6, <3>3 DEF Meaning
      <3>4. CASE m = "PUT"
        BY <2>6, <3>4 DEF Meaning
      <3>5. CASE m = "DELETE"
        BY <2>6, <3>5 DEF Meaning
      <3>6. CASE m \in {"TRACE", "OPTIONS"}
        BY <2>6, <3>6 DEF Meaning
      <3> QED BY <2>5, <3>1, <3>2, <3>3, <3>4, <3>5, <3>6 DEF AllMethods
    <2> QED BY <2>1, <2>2, <2>3, <2>7
  <1>5. HandlerTyped'
    BY <1>1, <1>4 DEF HandlerInvariant, HandlerTyped
  <1>6. ConditionHonoured'
    BY <1>1 DEF ConditionHonoured
  <1> QED BY <1>3, <1>5, <1>6 DEF HandlerInvariant

-----------------------------------------------------------------------------
(* The theorems.                                                           *)

LEMMA HandlerInit == Init => HandlerInvariant
  BY DEF Init, HandlerInvariant, HandlerTyped, Promised, ConditionHonoured, Concluding, Fits, Here

LEMMA HandlerStep == HandlerInvariant /\ [Next]_vars => HandlerInvariant'
  <1> SUFFICES ASSUME HandlerInvariant, [Next]_vars PROVE HandlerInvariant'
    OBVIOUS
  <1>1. CASE Next
    BY <1>1, SendStep, ReceiveStep, PurgeStep, SilentStep, GetStep, HeadStep, PostStep, PutStep, DeleteStep
       DEF Next
  <1>2. CASE UNCHANGED vars
    BY <1>2 DEF vars, HandlerInvariant, HandlerTyped, Promised, ConditionHonoured, Concluding, Learned,
                Look, Learn, Fits, Here
  <1> QED BY <1>1, <1>2

LEMMA HandlerCorrect == Spec => []HandlerInvariant
  BY HandlerInit, HandlerStep, PTL DEF Spec

(***************************************************************************)
(* Between requests the client is right about every resource, but for one  *)
(* that has moved: no sequence of results, however the application fails   *)
(* or delays its deletions, is reported under any other number that means  *)
(* more than was done.                                                     *)
(***************************************************************************)
THEOREM ClientTold == Spec => []TellsTruth
  <1>1. HandlerInvariant => TellsTruth
    BY DEF HandlerInvariant, HandlerTyped, Promised, Concluding, Fits, TellsTruth
  <1> QED BY <1>1, HandlerCorrect, PTL

\* Content is sent only under the condition the client wrote.
THEOREM ConditionsKept == Spec => []ConditionHonoured
  <1>1. HandlerInvariant => ConditionHonoured
    BY DEF HandlerInvariant
  <1> QED BY <1>1, HandlerCorrect, PTL
=============================================================================
