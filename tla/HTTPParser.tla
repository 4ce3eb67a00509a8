----------------------------- MODULE HTTPParser -----------------------------
(***************************************************************************)
(* parse_http_request (http/parser.cpp) on what one recv delivered: the    *)
(* message of a client, cut off somewhere or with one character damaged.   *)
(* The pointer of StringParser's view and its length always add up to the  *)
(* end of the string, so the view is kept as the position it begins at.    *)
(*                                                                         *)
(* Misuse of string_view (remove_prefix beyond the end, front or back of   *)
(* an empty view) aborts in a hardened build, which defines                *)
(* _GLIBCXX_ASSERTIONS.  Else the arithmetic just happens:                 *)
(* remove_prefix(npos) steps one character back, and remove_prefix beyond  *)
(* the end leaves a view whose length has wrapped around.                  *)
(***************************************************************************)
EXTENDS Integers, Sequences, SequencesExt, FiniteSetsExt

CONSTANTS
  Char,       \* the characters messages are made of
  Sent,       \* the requests clients send
  Damage,     \* the characters a message may be damaged with
  Builds,     \* whether the build may check the use of string_view
  SizeT,      \* how many values size_t has
  Reach       \* how far behind the string a line end may stand in memory that can be read

\* More characters than std::string takes are never mapped behind it.
ASSUME ParserAssumption == Builds \subseteq BOOLEAN /\ SizeT \in Nat /\ Reach \subseteq 0 .. SizeT \div 2 - 3

CR == "\r"
LF == "\n"
SP == " "
HT == "\t"
CRLF == <<CR, LF>>
Blank == {HT, SP}

Spell ==
  [GET     |-> <<"G", "E", "T">>,
   POST    |-> <<"P", "O", "S", "T">>,
   PUT     |-> <<"P", "U", "T">>,
   DELETE  |-> <<"D", "E", "L", "E", "T", "E">>,
   HEAD    |-> <<"H", "E", "A", "D">>,
   OPTIONS |-> <<"O", "P", "T", "I", "O", "N", "S">>,
   TRACE   |-> <<"T", "R", "A", "C", "E">>,
   CONNECT |-> <<"C", "O", "N", "N", "E", "C", "T">>]

\* The characters the parser knows.
Letters ==
  {"A", "C", "D", "E", "G", "H", "I", "L", "N", "O", "P", "R", "S", "T", "U",
   "/", ".", ":", "0", "1", "2", CR, LF, SP, HT}

HTTP == <<"H", "T", "T", "P", "/">>
HTTP_VERSION_STRINGS ==
  [HTTP_1_0 |-> HTTP \o <<"1", ".", "0">>, HTTP_1_1 |-> HTTP \o <<"1", ".", "1">>,
   HTTP_2_0 |-> HTTP \o <<"2", ".", "0">>]

(***************************************************************************)
(* operator<< of HTTPRequest.  The headers of a request that is sent are   *)
(* the pairs of its map in their order.                                    *)
(***************************************************************************)
RequestLine(r) == Spell[r.method] \o <<SP>> \o r.path \o <<SP>> \o HTTP_VERSION_STRINGS[r.version]
HeaderLine(h) == h.key \o <<":", SP>> \o h.value \o CRLF
HeaderLines(r) == FlattenSeq([i \in DOMAIN r.headers |-> HeaderLine(r.headers[i])])
WireHead(r) == RequestLine(r) \o CRLF \o HeaderLines(r) \o CRLF
Wire(r) == WireHead(r) \o r.body

\* What a client sends: characters, and a path that is there and has no blank.
ASSUME SentAssumption ==
  /\ Letters \cup Damage \subseteq Char
  /\ \A r \in Sent :
       /\ r.method \in DOMAIN Spell /\ r.version \in DOMAIN HTTP_VERSION_STRINGS
       /\ r.path \in Seq(Char \ Blank) /\ r.path # <<>>
       /\ HeaderLines(r) \in Seq(Char) /\ r.body \in Seq(Char)

-----------------------------------------------------------------------------
VARIABLES
  Hardened, \* the build checks the use of string_view
  sent,     \* the request the client sent
  whole,    \* nothing of it was cut off or damaged
  str,      \* what arrived
  at,       \* where the view begins
  pc,       \* the next step of parse_http_request
  request,  \* what has been parsed so far
  outcome   \* "none", "request", "error", "throws", "abort" or "undefined"

vars == <<Hardened, sent, whole, str, at, pc, request, outcome>>

\* The headers of a request that has been parsed are a map from their names.
NoHeaders == [key \in {} |-> <<>>]
NoRequest == [method |-> "GET", path |-> <<>>, version |-> "HTTP_1_0", headers |-> NoHeaders, body |-> <<>>]

Init ==
  /\ Hardened \in Builds /\ sent \in Sent
  /\ \/ whole = TRUE /\ str = Wire(sent)
     \/ /\ whole = FALSE
        /\ \E n \in 0 .. Len(Wire(sent)) - 1 : str = SubSeq(Wire(sent), 1, n)
     \/ /\ whole = FALSE
        /\ \E n \in 1 .. Len(Wire(sent)), c \in Damage : str = ReplaceAt(Wire(sent), n, c)
  /\ at = 1 /\ pc = "method"
  /\ request = NoRequest
  /\ outcome = "none"

-----------------------------------------------------------------------------
(* StringParser.                                                           *)

AtEnd(i) == i > Len(str)
Length(i) == IF AtEnd(i - 1) THEN SizeT - (i - 1 - Len(str)) ELSE Len(str) - (i - 1)   \* view.size()
max_size == SizeT \div 2 - 1                                        \* of std::string
Rest(i) == SubSeq(str, i, Len(str))
StartsWith(i, word) == IsPrefix(word, Rest(i))
Skip(i, word) == IF StartsWith(i, word) THEN i + Len(word) ELSE i   \* an expect nobody looks at
Find(i, chars) == {n \in i .. Len(str) : str[n] \in chars}

Step(next, position) == pc' = next /\ at' = position /\ UNCHANGED <<Hardened, sent, whole, str, outcome>>
Finish(result) == pc' = "done" /\ outcome' = result /\ UNCHANGED <<Hardened, sent, whole, str, at>>
Fail(result) == Finish(result) /\ UNCHANGED request
Unchecked(result) == IF Hardened THEN "abort" ELSE result

-----------------------------------------------------------------------------
(* parse_request_line.                                                     *)

FirstLetter == \E m \in DOMAIN Spell : StartsWith(at, SubSeq(Spell[m], 1, 1))

\* Faulty: a G is taken for GET.
method_string_to_enum_G ==
  /\ pc = "method"
  /\ \/ \E m \in DOMAIN Spell :
          /\ StartsWith(at, Spell[m]) \/ (m = "GET" /\ StartsWith(at, <<"G">>) /\ Len(str) > 2)
          /\ Step("space1", at + Len(Spell[m]))
          /\ request' = [request EXCEPT !.method = m]
     \/ /\ \A m \in DOMAIN Spell : ~StartsWith(at, Spell[m])
        /\ ~StartsWith(at, <<"G">>) \/ Len(str) < 3
        /\ Fail("error")

\* head() is view.at(0), which throws, also for the second letter after a P.
\* A message that begins with no method's letter is cut at its first space for the error text.
method_string_to_enum ==
  /\ pc = "method"
  /\ \/ \E m \in DOMAIN Spell :
          /\ StartsWith(at, Spell[m])
          /\ Step("space1", at + Len(Spell[m]))
          /\ request' = [request EXCEPT !.method = m]
     \/ /\ \A m \in DOMAIN Spell : ~StartsWith(at, Spell[m])
        /\ Fail(IF Rest(at) \in {<<>>, <<"P">>} THEN "throws"
                ELSE IF ~FirstLetter /\ Find(at, {SP}) = {} THEN Unchecked("error") ELSE "error")

\* expect_two and consume_all_two; the error message reads view[0].
expect_two(here, next) ==
  /\ pc = here /\ UNCHANGED request
  /\ \/ /\ ~AtEnd(at) /\ str[at] \in Blank
        /\ Step(next, Min({n \in at .. Len(str) + 1 : AtEnd(n) \/ str[n] \notin Blank}))
     \/ ~AtEnd(at) /\ str[at] \notin Blank /\ Finish("error")
     \/ AtEnd(at) /\ Finish(Unchecked("error"))

\* Without a space after it the path is all the rest and the view steps back.
next_token ==
  /\ pc = "path"
  /\ \/ /\ Find(at, {SP}) # {}
        /\ Step("space2", Min(Find(at, {SP})))
        /\ request' = [request EXCEPT !.path = SubSeq(str, at, at' - 1)]
     \/ /\ Find(at, {SP}) = {} /\ ~Hardened
        /\ Step("space2", at - 1)
        /\ request' = [request EXCEPT !.path = Rest(at)]
     \/ Find(at, {SP}) = {} /\ Hardened /\ Fail("abort")

\* Faulty: the version is not looked at.
version_string_to_enum_Blind ==
  /\ pc = "version"
  /\ Step("end", at + 8)
  /\ request' = [request EXCEPT !.version = "HTTP_1_1"]

\* Faulty: the digit is converted by a function that throws.
version_string_to_enum_Throws ==
  /\ pc = "version"
  /\ LET minor == Skip(Skip(at, HTTP) + 1, <<"1", ".">>)
     IN \/ /\ minor \in Find(at, {".", "0", "1"})
           /\ Step("end", Skip(minor + 1, <<"1">>))
           /\ request' = [request EXCEPT !.version = "HTTP_1_1"]
        \/ minor \notin Find(at, {".", "0", "1"}) /\ Fail("throws")

(***************************************************************************)
(* The results of expect are dropped.  For anything but a 2 one character  *)
(* is passed over before "1." is expected: HTTP/1.1 gets through because   *)
(* its dot and its last 1 are taken for the second alternative, HTTP/1.0   *)
(* does not.                                                               *)
(***************************************************************************)
version_string_to_enum ==
  /\ pc = "version"
  /\ LET major == Skip(at, HTTP)
         minor == Skip(major + 1, <<"1", ".">>)
     IN \/ /\ StartsWith(major, <<"2">>)
           /\ Step("end", Skip(major + 1, <<".", "0">>))
           /\ request' = [request EXCEPT !.version = "HTTP_2_0"]
        \/ /\ ~StartsWith(major, <<"2">>) /\ StartsWith(minor, <<"0">>)
           /\ Step("end", minor + 1)
           /\ request' = [request EXCEPT !.version = "HTTP_1_0"]
        \/ /\ ~AtEnd(minor) /\ ~StartsWith(major, <<"2">>) /\ ~StartsWith(minor, <<"0">>)
           /\ Step("end", Skip(minor + 1, <<"1">>))
           /\ request' = [request EXCEPT !.version = "HTTP_1_1"]
        \/ (AtEnd(major) \/ (~StartsWith(major, <<"2">>) /\ AtEnd(minor))) /\ Fail("throws")

expect_end ==
  /\ pc = "end" /\ UNCHANGED request
  /\ \/ StartsWith(at, CRLF) /\ Step("headers", at + 2)
     \/ ~StartsWith(at, CRLF) /\ Finish("error")

-----------------------------------------------------------------------------
(* parse_message_headers, one header at a time, and the body.              *)

SetHeader(r, key, value) ==
  [r EXCEPT !.headers = [k \in DOMAIN r.headers \cup {key} |-> IF k = key THEN value ELSE r.headers[k]]]

HeaderEnd == Min(Find(at, {CR, LF}))
Gap == Find(at, {SP}) \cap (at .. HeaderEnd)
NameEnd == IF Gap = {} THEN HeaderEnd - 1 ELSE Min(Gap) - 1

\* Faulty: one character is taken for the end of a line.
parse_header_Lf ==
  /\ pc = "headers" /\ ~StartsWith(at, CRLF) /\ Find(at, {CR, LF}) # {}
  /\ NameEnd >= at /\ str[NameEnd] = ":" /\ Gap # {}
  /\ request' = SetHeader(request, SubSeq(str, at, NameEnd - 1), SubSeq(str, NameEnd + 2, HeaderEnd - 1))
  /\ Step("headers", HeaderEnd + 1)

\* Faulty: the view is not moved on.
parse_header_Stuck ==
  /\ pc = "headers" /\ ~StartsWith(at, CRLF) /\ Find(at, {CR, LF}) # {}
  /\ NameEnd >= at /\ str[NameEnd] = ":" /\ Gap # {}
  /\ request' = SetHeader(request, SubSeq(str, at, NameEnd - 1), SubSeq(str, NameEnd + 2, HeaderEnd - 1))
  /\ Step("headers", at)

(***************************************************************************)
(* Name and value are separated at the first space.  Without one both are  *)
(* the whole line.  The two characters of the line end are passed over     *)
(* unseen: when the second was cut off, the view begins behind the string. *)
(***************************************************************************)
parse_header ==
  /\ pc = "headers" /\ ~StartsWith(at, CRLF) /\ Find(at, {CR, LF}) # {}
  /\ NameEnd >= at /\ str[NameEnd] = ":" /\ (Gap = {} => ~Hardened)
  /\ request' = SetHeader(request, SubSeq(str, at, NameEnd - 1),
                          SubSeq(str, IF Gap = {} THEN at ELSE NameEnd + 2, HeaderEnd - 1))
  /\ \/ HeaderEnd < Len(str) /\ Step("headers", HeaderEnd + 2)
     \/ HeaderEnd = Len(str) /\ ~Hardened /\ Step("behind", HeaderEnd + 2)
     \/ HeaderEnd = Len(str) /\ Hardened /\ Finish("abort")

(***************************************************************************)
(* The loop goes on in memory that belongs to something else: it comes to  *)
(* a line that is no header, to a page that is not there, or to a line end *)
(* n characters on, and what lies behind that is copied for the body.      *)
(***************************************************************************)
ReadsOn ==
  /\ pc = "behind" /\ UNCHANGED request
  /\ \/ Finish("error")
     \/ Finish("undefined")
     \/ \E n \in Reach : Finish(IF Length(at + n + 2) > max_size THEN "throws" ELSE "request")

\* No line end, no space in a hardened build, or no colon; the message reads back().
HeaderFails ==
  /\ pc = "headers" /\ ~StartsWith(at, CRLF)
  /\ \/ Find(at, {CR, LF}) = {} /\ Fail("error")
     \/ Find(at, {CR, LF}) # {} /\ Gap = {} /\ Hardened /\ Fail("abort")
     \/ Find(at, {CR, LF}) # {} /\ (Gap = {} => ~Hardened) /\ NameEnd < at /\ Fail(Unchecked("error"))
     \/ Find(at, {CR, LF}) # {} /\ (Gap = {} => ~Hardened) /\ NameEnd >= at /\ str[NameEnd] # ":" /\ Fail("error")

\* Faulty: the loop also ends with the string.
SetContent_AtEnd ==
  /\ pc = "headers" /\ (StartsWith(at, CRLF) \/ AtEnd(at))
  /\ request' = [request EXCEPT !.body = Rest(at + 2)]
  /\ Finish("request")

SetContent ==
  /\ pc = "headers" /\ StartsWith(at, CRLF)
  /\ request' = [request EXCEPT !.body = Rest(at + 2)]
  /\ Finish("request")

Next ==
  \/ method_string_to_enum \/ expect_two("space1", "path") \/ next_token
  \/ expect_two("space2", "version") \/ version_string_to_enum \/ expect_end
  \/ parse_header \/ ReadsOn \/ HeaderFails \/ SetContent

\* The worker that parses is scheduled.
Spec == Init /\ [][Next]_vars /\ WF_vars(Next)

-----------------------------------------------------------------------------
(* Properties.                                                             *)

(***************************************************************************)
(* The view stays inside the string, but for the one step over a line end  *)
(* of which only the first character is there, in a build without checks.  *)
(***************************************************************************)
TypeOK ==
  /\ at \in 1 .. Len(str) + 1 \/ (at = Len(str) + 2 /\ pc \in {"behind", "done"} /\ ~Hardened)
  /\ pc \in {"method", "space1", "path", "space2", "version", "end", "headers", "behind", "done"}
  /\ request.method \in DOMAIN Spell /\ request.version \in DOMAIN HTTP_VERSION_STRINGS
  /\ outcome \in {"none", "request", "error", "throws", "abort", "undefined"}

(***************************************************************************)
(* A request whose parts can be told apart on the wire, and what a parser  *)
(* should make of it.                                                      *)
(***************************************************************************)
Separable(r) ==
  /\ r \in [method : DOMAIN Spell, path : Seq(Char \ {SP, HT, CR, LF}), version : DOMAIN HTTP_VERSION_STRINGS,
            headers : Seq([key : Seq(Char \ {SP, CR, LF}), value : Seq(Char \ {CR, LF})]), body : Seq(Char)]
  /\ \A i, j \in DOMAIN r.headers : r.headers[i].key = r.headers[j].key => i = j
Keys(r) == {r.headers[i].key : i \in DOMAIN r.headers}
Parsed(r, body) ==
  [r EXCEPT !.headers = [k \in Keys(r) |-> r.headers[CHOOSE i \in DOMAIN r.headers : r.headers[i].key = k].value],
            !.body = body]

(***************************************************************************)
(* What operator<< prints, parse_http_request reads back, except that      *)
(* HTTP/1.0 is refused.                                                    *)
(***************************************************************************)
RoundTrip ==
  whole /\ pc = "done" /\ Separable(sent) =>
    IF sent.version = "HTTP_1_0" THEN outcome = "error"
    ELSE outcome = "request" /\ request = Parsed(sent, sent.body)

(***************************************************************************)
(* A request that was cut off before the end of its headers is never taken *)
(* for a request, although the parser may step back over the path, or read *)
(* on in foreign memory behind a header whose LF is missing: the body it   *)
(* finds there is longer than any std::string, which ends the process, not *)
(* the request.  One that was cut off in its body is taken, with the body  *)
(* it has.                                                                 *)
(***************************************************************************)
IsCut == Len(str) < Len(Wire(sent))
CutNotAccepted ==
  pc = "done" /\ IsCut /\ Separable(sent) =>
    IF Len(str) < Len(WireHead(sent)) \/ sent.version = "HTTP_1_0" THEN outcome # "request"
    ELSE outcome = "request" /\ request = Parsed(sent, request.body) /\ IsPrefix(request.body, sent.body)

\* The version stands at v and a line end behind it; of its spelling this is what counts.
VersionAt(v) ==
  \E e \in v + 1 .. Len(str) :
    /\ StartsWith(e, CRLF) /\ e <= v + 10
    /\ request.version = "HTTP_2_0" <=> StartsWith(Skip(v, HTTP), <<"2">>)
    /\ request.version = "HTTP_1_0" => str[e - 1] = "0"

(***************************************************************************)
(* Whatever one damaged character does, an accepted request begins with    *)
(* its method, blanks, its path up to the first space and, behind blanks,  *)
(* a version and a line end.  The one exception, in a build without        *)
(* checks: no space follows the path, which is then all the rest of the    *)
(* message, and the version is read where the path begins.                 *)
(***************************************************************************)
PathInPlace ==
  outcome = "request" =>
    LET start == Len(Spell[request.method]) + 1
    IN /\ IsPrefix(Spell[request.method], str)
       /\ \E i \in start + 1 .. Len(str) :
            /\ \A j \in start .. i - 1 : str[j] \in Blank
            /\ request.path # <<>> /\ StartsWith(i, request.path) /\ \A k \in DOMAIN request.path : request.path[k] # SP
            /\ \/ \E v \in i + Len(request.path) + 1 .. Len(str) :
                    VersionAt(v) /\ \A j \in i + Len(request.path) .. v - 1 : str[j] \in Blank
               \/ ~Hardened /\ request.path = Rest(i) /\ VersionAt(i)

\* The parser comes to an end on every input.
ParseEnds == <>(pc = "done")

\* Where path and request line end in what was sent, and whether the path has lost its end.
PathStart == Len(Spell[sent.method]) + 2
PathEnd == PathStart + Len(sent.path)
LineEnd == PathEnd + Len(HTTP_VERSION_STRINGS[sent.version])
Astray ==
  /\ \E n \in PathStart .. PathEnd : str[n] # Wire(sent)[n]
  /\ \E n \in LineEnd + 1 .. Len(str) : n >= Len(str) - 8 /\ str[n] \in Blank

\* The line end of the last header may have lost its second character.
Overrun == ~Hardened /\ str # <<>> /\ str[Len(str)] \in {CR, LF}

(***************************************************************************)
(* The parser throws, which ends the process, only when the request line   *)
(* has not arrived whole, the path has been damaged (then it may run on    *)
(* into the body, and what is taken for the version be the end of it), or  *)
(* a build without checks has read on behind the string.                   *)
(***************************************************************************)
ThrowsOnlyCut == outcome = "throws" => Len(str) < LineEnd \/ Astray \/ Overrun
=============================================================================
